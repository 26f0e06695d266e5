---------------------------- MODULE RallyAccess ----------------------------
(***************************************************************************)
(* Who may ask for what (backend/internal/authz, middleware, and the gates *)
(* of the handlers).  A request is a credential in a header, in the list   *)
(* of WebSocket subprotocols, or in both; the answer of every operator is  *)
(* the set of identities or tokens it lets through, so empty is a refusal. *)
(* A token stands for one whose signature and expiry hold: one that is     *)
(* forged or has run out is a 401, which changes nothing.                  *)
(***************************************************************************)
EXTENDS Integers, Sequences, FiniteSets, SequencesExt

CONSTANTS
  None,
  Marker,                       \* the subprotocol that announces a token
  OrganizerRole, AdminRole      \* group names, None where unset

\* What the three gates of the router stand on.
Token(issuer, sub, email, groups, device) ==
  [issuer |-> issuer, sub |-> sub, email |-> email, groups |-> groups, device |-> device]

\* The token of a phone that joined: the run, and which phone of it.
MintTeamToken(session, member) ==
  Token("team", session, None, <<>>, [session |-> session, member |-> member])

-----------------------------------------------------------------------------
(* From a request to an identity *)

\* Only the entry right after the first marker counts.
SubprotocolToken(offered) ==
  LET i == SelectInSeq(offered, LAMBDA entry : entry = Marker)
  IN IF i > 0 /\ i < Len(offered) THEN {offered[i + 1]} \ {None} ELSE {}

\* The header wins; the subprotocol is read on the upgrade route alone.
BearerToken(req, upgrade) ==
  IF req.header # None THEN {req.header}
  ELSE IF upgrade THEN SubprotocolToken(req.offered)
  ELSE {}

Nobody == [kind |-> "none", session |-> None, device |-> None, email |-> None, groups |-> {}]

\* A phone is known only with its run and its device.
VerifyTeamToken(t) ==
  IF t.issuer = "team" /\ t.sub # None /\ t.device # None
  THEN {[Nobody EXCEPT !.kind = "team", !.session = t.sub, !.device = t.device]}
  ELSE {}

\* The groups claim, without the empty names.
GroupsFromClaim(claim) == ToSet(claim) \ {None}

OrganizerFromClaims(t) ==
  IF t.sub = None THEN {}
  ELSE {[Nobody EXCEPT !.kind = "organizer", !.email = t.email,
                       !.groups = GroupsFromClaim(t.groups)]}

\* The organizer validator never takes a token the backend minted itself.
ValidateOrganizer(t) == IF t.issuer = "team" THEN {} ELSE OrganizerFromClaims(t)

Identify(t) == IF VerifyTeamToken(t) # {} THEN VerifyTeamToken(t) ELSE ValidateOrganizer(t)
Authenticate(req, upgrade) == UNION {Identify(t) : t \in BearerToken(req, upgrade)}

-----------------------------------------------------------------------------
(* The gates *)

\* An unset role is a group nobody is in.
HasAnyRole(groups, roles) == \E role \in roles : role # None /\ role \in groups
IsStaff(id) == id.kind = "organizer" /\ HasAnyRole(id.groups, {OrganizerRole, AdminRole})

\* RequireOrganizer, over every organizer route.
Organizers(req) == {id \in Authenticate(req, FALSE) : IsStaff(id)}

\* RequireTeam and callerFrom, over every route of a joined phone.
Callers(req) ==
  {id \in Authenticate(req, FALSE) : id.kind = "team" /\ id.session # None /\ id.device # None}

\* The join screen: a super-app identity, whatever its groups.
Joiners(req) == {id \in Authenticate(req, FALSE) : id.kind = "organizer"}

\* Staff watch everything, a crew its own run.
MaySubscribeOfAnyKind(id, topic) ==
  \/ id.kind = "organizer"
  \/ id.kind = "team" /\ topic = [session |-> id.session]
MaySubscribe(id, topic) ==
  \/ IsStaff(id)
  \/ id.kind = "team" /\ topic = [session |-> id.session]

\* wsHandler, the one route where the subprotocol counts.
Listeners(req, topic) == {id \in Authenticate(req, TRUE) : MaySubscribe(id, topic)}

=============================================================================
