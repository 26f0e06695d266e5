--------------------------- MODULE MCRallySession ---------------------------
(***************************************************************************)
(* Small instances of RallySession for TLC.  The route is a line of places *)
(* the car drives through: the start grid, the circles of the waypoints,   *)
(* a place where both circles overlap, and the finish, which lies inside   *)
(* the last waypoint's circle as the migration allows.                     *)
(***************************************************************************)
EXTENDS RallySession, TLC

CONSTANTS w1, w2, start, first, both, finish

\* One waypoint whose circle also covers the finish.
OneWaypointOrder == [w \in Waypoints |-> 0]
OneWaypointInside ==
  [place \in Places |-> IF place = start THEN {} ELSE Waypoints]

\* Two waypoints: first is in w1 only, both in the overlap, finish in w2.
TwoWaypointOrder == w1 :> 0 @@ w2 :> 1
TwoWaypointInside ==
  [place \in Places |->
     CASE place = start  -> {}
       [] place = first  -> {w1}
       [] place = both   -> {w1, w2}
       [] place = finish -> {w2}]

\* Phones and sessions are interchangeable.
PhonesAndSessions == Permutations(Phones) \cup Permutations(Sessions)

=============================================================================
