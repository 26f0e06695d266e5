---------------------------- MODULE RallyEvents ----------------------------
(***************************************************************************)
(* An event from setup to the runs of its cars (backend/internal/events,   *)
(* the joining half of sessions, and RallyAccess at every door).  Edits    *)
(* and Publish read the event and write the whole row back; a Join reads   *)
(* the status and makes a run and a token statements later.  What happens  *)
(* on the road is RallySession's, what a roster edit does is RallyRoster's *)
(* and which frames a view gets is RallyHub's.  A request that is refused, *)
(* or dies before its one write, changes nothing and has no action.        *)
(***************************************************************************)
EXTENDS RallyAccess

CONSTANTS
  People, Cars, Sessions, Screens,
  Login,       \* each person's super-app token
  Roster,      \* the e-mail addresses on each car's crew list
  Patches      \* PATCH bodies to try: a pin placed, lifted, or left out (None)

\* The event row, and the team_session rows; their "by" is the device that ended them.
Rows == [status : {"setup", "active"}, start : BOOLEAN, end : BOOLEAN]
Emails == {Login[p].email : p \in People}
Runs == [car : Cars, over : BOOLEAN, by : {None} \cup [session : Sessions, member : Emails]]

\* The super app's tokens are its identity provider's: the issuer of the backend's own
\* is another (config).
ASSUME EventConstants ==
  /\ \A p \in People :
       /\ DOMAIN Login[p] = DOMAIN Token(None, None, None, None, None)
       /\ Login[p].issuer # "team"
  /\ DOMAIN Roster = Cars
  /\ None \notin People \cup Cars \cup Sessions \cup Rows \cup Runs
  /\ \A patch \in Patches : DOMAIN patch = {"start", "end"}

VARIABLES
  event,       \* the event row, None before it is created
  run,         \* team_session rows
  wallet,      \* team tokens each person's phone holds
  call,        \* each person's request in flight
  view,        \* WebSocket views: who connected and to which topic
  revealed,    \* whether a phone has been told the cipher
  launched     \* history: a publish stored an event with both pins

vars == <<event, run, wallet, call, view, revealed, launched>>

NoCall == [pc |-> "idle", held |-> None, becomes |-> None, car |-> None, email |-> None,
           session |-> None]
Calls == [pc : {"idle", "update", "publish", "find", "mint"},
          held : Rows \cup {None}, becomes : Rows \cup {None},
          car : Cars \cup {None}, email : Emails \cup {None}, session : Sessions \cup {None}]
NoView == [by |-> None, topic |-> None]
EventTopic == [event |-> "event"]
SessionTopic(s) == [session |-> s]

Init ==
  /\ event = None
  /\ run = [s \in Sessions |-> None]
  /\ wallet = [p \in People |-> {}]
  /\ call = [p \in People |-> NoCall]
  /\ view = [w \in Screens |-> NoView]
  /\ revealed = FALSE
  /\ launched = FALSE

\* What a person may send: one of their tokens in the header, behind the marker, or
\* one in each place.  The super app renews its own token whenever it runs out.
Tokens(p) == {Login[p]} \cup wallet[p]
Requests(p) ==
  {[header |-> t, offered |-> <<>>] : t \in Tokens(p)}
    \cup [header : {None} \cup Tokens(p), offered : {<<Marker, t>> : t \in Tokens(p)}]

-----------------------------------------------------------------------------
(* Authoring *)

\* Create: always in setup, with whichever pins are placed already.
Create(p, pins) ==
  /\ event = None
  /\ \E req \in Requests(p) : Organizers(req) # {}
  /\ event' = [status |-> "setup", start |-> pins.start, end |-> pins.end]
  /\ UNCHANGED <<run, wallet, call, view, revealed, launched>>

\* The fields an edit names replace what was read, the status is kept.
EditedAsNew(held, patch) ==
  [status |-> "setup",
   start |-> IF patch.start = None THEN held.start ELSE patch.start = "placed",
   end |-> IF patch.end = None THEN held.end ELSE patch.end = "placed"]
Edited(held, patch) ==
  [status |-> held.status,
   start |-> IF patch.start = None THEN held.start ELSE patch.start = "placed",
   end |-> IF patch.end = None THEN held.end ELSE patch.end = "placed"]

UpdateStart(p, patch) ==
  /\ call[p].pc = "idle"
  /\ event # None
  /\ \E req \in Requests(p) : Organizers(req) # {}
  /\ call' = [call EXCEPT ![p] = [NoCall EXCEPT !.pc = "update", !.held = event,
                                                !.becomes = Edited(event, patch)]]
  /\ UNCHANGED <<event, run, wallet, view, revealed, launched>>

\* repo.Update: every column, status included.
UpdateWrite(p) ==
  /\ call[p].pc = "update"
  /\ event' = call[p].becomes
  /\ call' = [call EXCEPT ![p] = NoCall]
  /\ UNCHANGED <<run, wallet, view, revealed, launched>>

\* Publish: a no-op on an active event, else both pins must be placed.
PublishableWithStart(e) == e.status = "setup" /\ e.start
Publishable(e) == e.status = "setup" /\ e.start /\ e.end
PublishStart(p) ==
  /\ call[p].pc = "idle"
  /\ event # None
  /\ Publishable(event)
  /\ \E req \in Requests(p) : Organizers(req) # {}
  /\ call' = [call EXCEPT ![p] = [NoCall EXCEPT !.pc = "publish", !.held = event,
                                                !.becomes = [event EXCEPT !.status = "active"]]]
  /\ UNCHANGED <<event, run, wallet, view, revealed, launched>>

PublishWrite(p) ==
  /\ call[p].pc = "publish"
  /\ event' = call[p].becomes
  /\ launched' = (launched \/ (event'.start /\ event'.end))
  /\ call' = [call EXCEPT ![p] = NoCall]
  /\ UNCHANGED <<run, wallet, view, revealed>>

-----------------------------------------------------------------------------
(* Joining *)

\* Join: the caller's own e-mail must be on the car's list, the event active.
JoinStart(p, car) ==
  /\ call[p].pc = "idle"
  /\ event # None /\ event.status = "active"
  /\ \E req \in Requests(p) : \E id \in Joiners(req) :
       /\ id.email # None /\ id.email \in Roster[car]
       /\ call' = [call EXCEPT ![p] = [NoCall EXCEPT !.pc = "find", !.car = car,
                                                     !.email = id.email]]
  /\ UNCHANGED <<event, run, wallet, view, revealed, launched>>

\* liveOrNewSession: the car's run under way, or a new one.
IsLive(s) == run[s] # None /\ ~run[s].over
LiveSessionsNeverFound(car) == {}
LiveSessions(car) == {s \in Sessions : IsLive(s) /\ run[s].car = car}
JoinFind(p) ==
  /\ call[p].pc = "find"
  /\ \E s \in Sessions :
       /\ IF LiveSessions(call[p].car) # {}
          THEN s \in LiveSessions(call[p].car) /\ run' = run
          ELSE /\ run[s] = None
               /\ run' = [run EXCEPT ![s] = [car |-> call[p].car, over |-> FALSE, by |-> None]]
       /\ call' = [call EXCEPT ![p].pc = "mint", ![p].session = s]
  /\ UNCHANGED <<event, wallet, view, revealed, launched>>

\* The device row and the token for it.
JoinMint(p) ==
  /\ call[p].pc = "mint"
  /\ wallet' = [wallet EXCEPT ![p] = @ \cup {MintTeamToken(call[p].session, call[p].email)}]
  /\ call' = [call EXCEPT ![p] = NoCall]
  /\ UNCHANGED <<event, run, view, revealed, launched>>

\* A team token runs out; its phone joins again.
Expire(p, t) ==
  /\ wallet' = [wallet EXCEPT ![p] = @ \ {t}]
  /\ UNCHANGED <<event, run, call, view, revealed, launched>>

-----------------------------------------------------------------------------
(* With a team token *)

\* State: the cipher only while the event is active.
State(p) ==
  /\ \E req \in Requests(p) : \E id \in Callers(req) : run[id.session] # None
  /\ revealed' = (revealed \/ event.status = "active")
  /\ UNCHANGED <<event, run, wallet, call, view, launched>>

\* Finish, of the run the token names; a no-op on a run that is over.
Finish(p) ==
  /\ \E req \in Requests(p) : \E id \in Callers(req) :
       /\ IsLive(id.session)
       /\ run' = [run EXCEPT ![id.session].over = TRUE, ![id.session].by = id.device]
  /\ UNCHANGED <<event, wallet, call, view, revealed, launched>>

-----------------------------------------------------------------------------
(* Views *)

Listen(w, p, topic) ==
  /\ view[w] = NoView
  /\ \E req \in Requests(p) : Listeners(req, topic) # {}
  /\ view' = [view EXCEPT ![w] = [by |-> p, topic |-> topic]]
  /\ UNCHANGED <<event, run, wallet, call, revealed, launched>>

HangUp(w) ==
  /\ view[w] # NoView
  /\ view' = [view EXCEPT ![w] = NoView]
  /\ UNCHANGED <<event, run, wallet, call, revealed, launched>>

-----------------------------------------------------------------------------

Topics == {EventTopic} \cup {SessionTopic(s) : s \in Sessions}

Next ==
  \/ \E p \in People :
       \/ \E pins \in [start : BOOLEAN, end : BOOLEAN] : Create(p, pins)
       \/ \E patch \in Patches : UpdateStart(p, patch)
       \/ UpdateWrite(p)
       \/ PublishStart(p)
       \/ PublishWrite(p)
       \/ \E car \in Cars : JoinStart(p, car)
       \/ JoinFind(p)
       \/ JoinMint(p)
       \/ \E t \in wallet[p] : Expire(p, t)
       \/ State(p)
       \/ Finish(p)
       \/ \E w \in Screens, topic \in Topics : Listen(w, p, topic)
  \/ \E w \in Screens : HangUp(w)

Spec == Init /\ [][Next]_vars

-----------------------------------------------------------------------------
(* Properties *)

\* The rows and the locals have their types, and a car has one run under way.
TypeOK ==
  /\ event \in Rows \cup {None}
  /\ run \in [Sessions -> Runs \cup {None}]
  /\ \A s, o \in Sessions : IsLive(s) /\ IsLive(o) /\ run[s].car = run[o].car => s = o
  /\ wallet \in [People -> SUBSET {MintTeamToken(s, e) : s \in Sessions, e \in Emails}]
  /\ call \in [People -> Calls]
  /\ view \in [Screens -> [by : People \cup {None}, topic : Topics \cup {None}]]
  /\ revealed \in BOOLEAN /\ launched \in BOOLEAN

\* "Both geofences must be placed first: without them the start grid cannot lock and
\* arrival can never be detected" (Publish): an event is active, has runs or has told
\* its cipher only after a publish stored it with both, whatever edits raced it.
OpenedByPublish ==
  \/ event # None /\ event.status = "active"
  \/ revealed
  \/ \E s \in Sessions : run[s] # None
  => launched

\* An event that crews can run stays so (Update, Publish): it ends only by an edit
\* that lifts a pin, or by one that overwrites what was stored since it was read.
Runnable(e) == e # None /\ e.status = "active" /\ e.start /\ e.end
PublishHolds ==
  [][Runnable(event) /\ ~Runnable(event') =>
       \E p \in People :
         /\ call[p].pc = "update" /\ call'[p].pc = "idle"
         /\ \/ call[p].held # event
            \/ ~(call[p].becomes.start /\ call[p].becomes.end)]_vars

\* "Organizers may watch any event; a crew may watch only its own session" and "a
\* phone can only ever act as itself" (wsHandler, RegisterTeam, join): whoever is not
\* staff listens only to runs of cars whose list has their address, and a run is
\* ended by a member of its car's crew.
CarsKeptApart ==
  /\ \A w \in Screens :
       view[w].by \in {p \in People : ~\E id \in Identify(Login[p]) : IsStaff(id)} =>
         \E s \in Sessions :
           /\ run[s] # None
           /\ view[w].topic = SessionTopic(s)
           /\ Login[view[w].by].email \in Roster[run[s].car]
  /\ \A s \in Sessions :
       run[s] # None /\ run[s].over =>
         run[s].by.session = s /\ run[s].by.member \in Roster[run[s].car]

-----------------------------------------------------------------------------
(* The inductive invariant the proofs rest on *)

\* A run of a car whose list has the person.
Aboard(p, s) == s \in Sessions /\ run[s] # None /\ Login[p].email \in Roster[run[s].car]

\* A token, or a Join about to mint one, is its owner's own and of such a run.
Joins(p, c) ==
  /\ c.pc \in {"find", "mint"} => c.email = Login[p].email /\ c.email \in Roster[c.car]
  /\ c.pc = "find" => c.car \in Cars
  /\ c.pc = "mint" => Aboard(p, c.session)
Joined ==
  \A p \in People :
    /\ \A t \in wallet[p] : Aboard(p, t.sub) /\ t = MintTeamToken(t.sub, Login[p].email)
    /\ Joins(p, call[p])

\* A Join has found the event active; an edit keeps the status it read, and a publish
\* that of the event it will store, with both pins.
Asks(c) ==
  /\ c.pc \in {"find", "mint"} => launched
  /\ c.pc = "update" => /\ c.held \in Rows /\ c.becomes \in Rows
                        /\ c.becomes.status = c.held.status
                        /\ c.becomes.status = "active" => launched
  /\ c.pc = "publish" => c.becomes \in Rows /\ Runnable(c.becomes)
Asked == \A p \in People : Asks(call[p])

EventInv == TypeOK /\ OpenedByPublish /\ CarsKeptApart /\ Joined /\ Asked

=============================================================================
