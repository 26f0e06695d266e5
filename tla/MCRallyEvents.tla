--------------------------- MODULE MCRallyEvents ---------------------------
(***************************************************************************)
(* A small event for TLC: two organizers, one of them also on the crew of  *)
(* a car, and a crew member of another car.  Some tokens carry odd claims: *)
(* an empty group name, no e-mail address.                                 *)
(***************************************************************************)
EXTENDS RallyEvents, TLC

CONSTANTS bob, zoe, org, carA, carB

Logins ==
  [p \in People |->
     CASE p = org -> Token("asgardeo", p, None, <<AdminRole>>, None)
       [] p = zoe -> Token("asgardeo", p, p, <<None, AdminRole>>, None)
       [] p = bob -> Token("asgardeo", p, p, <<None>>, None)]
Rosters == (carA :> {zoe}) @@ (carB :> {bob})

Pins(start, end) == [start |-> start, end |-> end]
\* Edits that place one pin, or lift the other.
PinEdits == {Pins("placed", None), Pins(None, "none")}

\* Runs are interchangeable.
RunsAlike == Permutations(Sessions)

=============================================================================
