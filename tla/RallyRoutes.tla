---------------------------- MODULE RallyRoutes ----------------------------
(***************************************************************************)
(* The course (backend/internal/routes): routes, their waypoints in driving *)
(* order, the tasks attached to a waypoint, and a car that drives a route   *)
(* while organizers edit it.  An edit reads first and writes in a later     *)
(* statement or transaction; where the write depends on what was read these *)
(* are two actions and `call' is what the handler holds in between.  An     *)
(* edit refused by what it read changes nothing and has no action.          *)
(***************************************************************************)
EXTENDS Integers, Sequences, FiniteSets, SequencesExt

CONSTANTS
  Editors,    \* organizers' requests that may be in flight
  Routes,     \* route ids
  Names,      \* route names
  Legs,       \* waypoint ids; MySQL sorts ids, so they are numbers
  Spots,      \* what UpdateWaypoint edits: label, pin and radius
  Bindings,   \* the <<waypoint, task ids>> an organizer may send
  Stored,     \* the ids among them that the task table has
  Around,     \* the sets of waypoints whose boundaries one place may lie in
  Faults,     \* whether a call may die between two statements
  None        \* no row, no id

ASSUME RoutesConstants ==
  /\ Legs \subseteq Nat /\ IsFiniteSet(Legs)
  /\ \A b \in Bindings : b[1] \in Legs /\ b[2] \in Seq(ToSet(b[2]))
  /\ Around \subseteq SUBSET Legs
  /\ Faults \in BOOLEAN
  /\ None \notin Routes \cup Names \cup Legs \cup Spots

VARIABLES
  name,      \* route rows: the name, None where there is no row
  leg,       \* waypoint rows; route None where there is no row
  attached,  \* waypoint_task: the tasks of each waypoint, in order
  visit,     \* session_waypoint_visit rows of the car's run
  current,   \* its current_waypoint_id
  call,      \* each organizer's edit in flight
  ping,      \* the car's Ping in flight
  clean      \* history: no outdated write has landed on the route since it was
             \* last renumbered

vars == <<name, leg, attached, visit, current, call, ping, clean>>

NoLeg == [route |-> None, pos |-> 0, spot |-> None]
NoCall == [pc |-> "idle", route |-> None, id |-> None, pos |-> 0, to |-> None,
           list |-> <<>>, outdated |-> FALSE]
NoPing == [pc |-> "idle", inside |-> {}, current |-> None]

Init ==
  /\ name = [r \in Routes |-> None]
  /\ leg = [l \in Legs |-> NoLeg]
  /\ attached = [l \in Legs |-> <<>>]
  /\ visit = {}
  /\ current = None
  /\ call = [e \in Editors |-> NoCall]
  /\ ping = NoPing
  /\ clean = [r \in Routes |-> TRUE]

-----------------------------------------------------------------------------

Exists(l) == leg[l].route # None
\* ListWaypoints.
LegsOf(r) == {l \in Legs : leg[l].route = r}
Before(a, b) == leg[a].pos < leg[b].pos \/ (leg[a].pos = leg[b].pos /\ a < b)

\* NewID: an id nobody refers to any more is as good as a new one.
Fresh(l) ==
  /\ ~Exists(l)
  /\ l \notin ping.inside \cup {ping.current}
  /\ \A e \in Editors : l # call[e].id /\ l \notin ToSet(call[e].list)

\* History: the calls that have read the positions of a route which change now.
Outdated(r) ==
  [e \in Editors |-> IF call[e].pc \in {"create", "reorder"} /\ call[e].route = r
                    THEN [call[e] EXCEPT !.outdated = TRUE] ELSE call[e]]
Finished(e) == call' = [call EXCEPT ![e] = NoCall]

-----------------------------------------------------------------------------
(* Routes *)

\* uq_route_name
NameTaken(r, n) == \E q \in Routes \ {r} : name[q] = n
CreateRoute(r, n) ==
  /\ name[r] = None
  /\ ~NameTaken(r, n)
  /\ name' = [name EXCEPT ![r] = n]
  /\ UNCHANGED <<leg, attached, visit, current, call, ping, clean>>

\* UpdateRoute: GetRoute, then the whole row; None stands for a PATCH without a
\* name, which writes back the name read.
UpdateRouteStart(e, r, n) ==
  /\ call[e].pc = "idle"
  /\ name[r] # None
  /\ call' = [call EXCEPT ![e] = [NoCall EXCEPT !.pc = "route", !.route = r,
                                    !.to = IF n = None THEN name[r] ELSE n]]
  /\ UNCHANGED <<name, leg, attached, visit, current, ping, clean>>
UpdateRouteRow(e) ==
  LET c == call[e] IN
  /\ c.pc = "route"
  /\ Finished(e)
  /\ name' = IF NameTaken(c.route, c.to) THEN name ELSE [name EXCEPT ![c.route] = c.to]
  /\ UNCHANGED <<leg, attached, visit, current, ping, clean>>

-----------------------------------------------------------------------------
(* Waypoints *)

\* AddWaypoint: GetRoute and ListWaypoints, whose length is the new position;
\* then the insert.
AddStart(e, r, spot) ==
  /\ call[e].pc = "idle"
  /\ name[r] # None
  /\ call' = [call EXCEPT ![e] = [NoCall EXCEPT !.pc = "create", !.route = r, !.to = spot,
                                    !.pos = Cardinality(LegsOf(r))]]
  /\ UNCHANGED <<name, leg, attached, visit, current, ping, clean>>
AddRow(e) ==
  LET c == call[e] IN
  /\ c.pc = "create"
  /\ \E l \in Legs :
       /\ Fresh(l)
       /\ leg' = [leg EXCEPT ![l] = [route |-> c.route, pos |-> c.pos, spot |-> c.to]]
  /\ call' = [Outdated(c.route) EXCEPT ![e] = NoCall]
  /\ clean' = [clean EXCEPT ![c.route] = @ /\ ~c.outdated]
  /\ UNCHANGED <<name, attached, visit, current, ping>>

\* UpdateWaypoint: GetWaypoint, which reads the position too; the UPDATE leaves
\* the position out.
UpdateStart(e, l, spot) ==
  /\ call[e].pc = "idle"
  /\ Exists(l)
  /\ call' = [call EXCEPT ![e] = [NoCall EXCEPT !.pc = "update", !.id = l,
                                    !.pos = leg[l].pos, !.to = spot]]
  /\ UNCHANGED <<name, leg, attached, visit, current, ping, clean>>
EditedWhole(row, c) == [row EXCEPT !.spot = c.to, !.pos = c.pos]
Edited(row, c) == [row EXCEPT !.spot = c.to]
UpdateRow(e) ==
  LET c == call[e] IN
  /\ c.pc = "update"
  /\ Finished(e)
  /\ leg' = IF Exists(c.id) THEN [leg EXCEPT ![c.id] = Edited(@, c)] ELSE leg
  /\ UNCHANGED <<name, attached, visit, current, ping, clean>>

\* ReorderWaypoints: ListWaypoints and validatePermutation.
Permutation(r, list) ==
  /\ Len(list) = Cardinality(LegsOf(r))
  /\ ToSet(list) = LegsOf(r)
ReorderStart(e, r) ==
  /\ call[e].pc = "idle"
  /\ name[r] # None
  /\ \E list \in [1..Cardinality(LegsOf(r)) -> LegsOf(r)] :
       /\ Permutation(r, list)
       /\ call' = [call EXCEPT ![e] = [NoCall EXCEPT !.pc = "reorder", !.route = r,
                                         !.list = list]]
  /\ UNCHANGED <<name, leg, attached, visit, current, ping, clean>>

\* The transaction: one UPDATE per id; an id that has left the route aborts it all.
Reordered(list) ==
  [l \in Legs |->
     IF l \in ToSet(list)
     THEN [leg[l] EXCEPT !.pos = (CHOOSE i \in DOMAIN list : list[i] = l) - 1]
     ELSE leg[l]]
ReorderRows(e) ==
  LET c == call[e] IN
  /\ c.pc = "reorder"
  /\ \/ /\ ToSet(c.list) \subseteq LegsOf(c.route)
        /\ leg' = Reordered(c.list)
        /\ call' = [Outdated(c.route) EXCEPT ![e] = NoCall]
        /\ clean' = [clean EXCEPT ![c.route] = @ /\ ~c.outdated]
     \/ /\ ~(ToSet(c.list) \subseteq LegsOf(c.route))
        /\ Finished(e)
        /\ UNCHANGED <<leg, clean>>
  /\ UNCHANGED <<name, attached, visit, current, ping>>

\* DeleteWaypoint: one transaction: the row, what the foreign keys take with it,
\* and ROW_NUMBER() over the legs that are left.  What GetWaypoint read before, the
\* route of the leg, never changes.
PositionFromMinusOne(l, left) == Cardinality({k \in left : Before(k, l)}) - 1
PositionWithGap(l, left) == leg[l].pos
Position(l, left) == Cardinality({k \in left : Before(k, l)})
CurrentKept(gone) == current
CurrentLeft(gone) == IF current = gone THEN None ELSE current
DeleteWaypoint(l) ==
  LET r == leg[l].route
      left == LegsOf(r) \ {l} IN
  /\ Exists(l)
  /\ leg' = [k \in Legs |-> IF k = l THEN NoLeg
                            ELSE IF k \in left
                                 THEN [leg[k] EXCEPT !.pos = Position(k, left)]
                                 ELSE leg[k]]
  /\ attached' = [attached EXCEPT ![l] = <<>>]
  /\ visit' = visit \ {l}
  /\ current' = CurrentLeft(l)
  /\ call' = Outdated(r)
  /\ clean' = [clean EXCEPT ![r] = TRUE]
  /\ UNCHANGED <<name, ping>>

\* AttachTasks: one transaction clears the waypoint's rows and inserts the list
\* without its repeats.  A waypoint deleted since GetWaypoint fails the foreign key.
Deduped(list) ==
  LET firsts == {i \in DOMAIN list : \A j \in 1..(i - 1) : list[j] # list[i]}
  IN [n \in 1..Cardinality(firsts) |->
        list[CHOOSE i \in firsts : Cardinality({j \in firsts : j < i}) = n - 1]]
AttachTasks(l, list) ==
  /\ Exists(l)
  /\ ToSet(list) \subseteq Stored
  /\ attached' = [attached EXCEPT ![l] = Deduped(list)]
  /\ UNCHANGED <<name, leg, visit, current, call, ping, clean>>

\* A statement fails, the request is cancelled, the server dies.
Abort(e) ==
  /\ Faults
  /\ call[e].pc # "idle"
  /\ Finished(e)
  /\ UNCHANGED <<name, leg, attached, visit, current, ping, clean>>

-----------------------------------------------------------------------------
(* The car on the route *)

\* Ping: the session and the route's waypoints are read, and EvaluatePing picks
\* the furthest of the boundaries around the car.
Furthest(inside) == {l \in inside : \A k \in inside : leg[k].pos <= leg[l].pos}
PingStart(r, inside) ==
  /\ ping.pc = "idle"
  /\ \E l \in IF inside = {} THEN {current} ELSE Furthest(inside) :
       ping' = [pc |-> "claim", inside |-> inside, current |-> l]
  /\ UNCHANGED <<name, leg, attached, visit, current, call, clean>>

\* ClaimWaypointVisits, one insert per boundary.  A waypoint deleted since it was
\* read fails the foreign key and with it the request.
PingClaim ==
  /\ ping.pc = "claim"
  /\ \/ /\ ping.inside = {}
        /\ ping' = [ping EXCEPT !.pc = "write"]
        /\ UNCHANGED visit
     \/ \E l \in ping.inside :
          \/ /\ Exists(l)
             /\ visit' = visit \cup {l}
             /\ ping' = [ping EXCEPT !.inside = @ \ {l}]
          \/ /\ ~Exists(l)
             /\ ping' = NoPing
             /\ UNCHANGED visit
  /\ UNCHANGED <<name, leg, attached, current, call, clean>>

\* UpdateSession writes the waypoint held back, whichever it was; the foreign key
\* refuses one that is gone.
PingWrite ==
  /\ ping.pc = "write"
  /\ ping' = NoPing
  /\ current' = IF ping.current = None \/ Exists(ping.current) THEN ping.current ELSE current
  /\ UNCHANGED <<name, leg, attached, visit, call, clean>>

-----------------------------------------------------------------------------

Editing(e) ==
  \/ \E r \in Routes, n \in Names \cup {None} : UpdateRouteStart(e, r, n)
  \/ UpdateRouteRow(e)
  \/ \E r \in Routes, spot \in Spots : AddStart(e, r, spot)
  \/ AddRow(e)
  \/ \E l \in Legs, spot \in Spots : UpdateStart(e, l, spot)
  \/ UpdateRow(e)
  \/ \E r \in Routes : ReorderStart(e, r)
  \/ ReorderRows(e)
  \/ Abort(e)

Driving ==
  \/ \E r \in Routes : \E place \in Around : PingStart(r, place \cap LegsOf(r))
  \/ PingClaim \/ PingWrite

Next ==
  \/ \E r \in Routes, n \in Names : CreateRoute(r, n)
  \/ \E e \in Editors : Editing(e)
  \/ \E l \in Legs : DeleteWaypoint(l)
  \/ \E b \in Bindings : AttachTasks(b[1], b[2])
  \/ Driving

Spec == Init /\ [][Next]_vars

-----------------------------------------------------------------------------
(* Properties *)

Calls == [pc : {"idle", "route", "create", "update", "reorder"},
          route : Routes \cup {None}, id : Legs \cup {None}, pos : Nat,
          to : Names \cup Spots \cup {None}, list : Seq(Legs), outdated : BOOLEAN]
Pings == [pc : {"idle", "claim", "write"}, inside : SUBSET Legs, current : Legs \cup {None}]

\* The rows and what the calls hold of them have their types; every stored waypoint
\* belongs to a stored route, and lists no task twice.
TypeOK ==
  /\ name \in [Routes -> Names \cup {None}]
  /\ leg \in [Legs -> [route : Routes \cup {None}, pos : Nat, spot : Spots \cup {None}]]
  /\ attached \in [Legs -> Seq(Stored)]
  /\ \A l \in Legs : IsInjective(attached[l]) /\ (attached[l] # <<>> => Exists(l))
  /\ visit \subseteq Legs
  /\ current \in Legs \cup {None}
  /\ call \in [Editors -> Calls]
  /\ ping \in Pings
  /\ clean \in [Routes -> BOOLEAN]
  /\ \A l \in Legs : Exists(l) => name[leg[l].route] # None

\* "The sequence stays 0..n-1" (DeleteWaypoint): a hole would strand a crew.  It
\* does as long as no add or reorder lands that had read the route before another
\* edit changed it, and a delete mends a route whatever had landed before.
Dense(r) == {leg[l].pos : l \in LegsOf(r)} = 0..(Cardinality(LegsOf(r)) - 1)
DenseUnlessOutdated == \A r \in Routes : clean[r] => Dense(r)

\* Only a committed reorder moves a leg past another: neither closing a gap, nor an
\* edit that had read an older position, changes which leg comes first.
LegsKeepTheirOrder ==
  [][(\E k, l \in Legs :
        /\ Exists(k) /\ Exists(l) /\ Exists(k)' /\ Exists(l)'
        /\ leg[k].route = leg[l].route
        /\ leg[k].pos < leg[l].pos
        /\ leg'[k].pos >= leg'[l].pos)
     => \E e \in Editors : call[e].pc = "reorder" /\ call'[e].pc = "idle"]_vars

\* What the car is shown at is a leg of the course that it has been inside, even
\* when legs are deleted between a Ping's read, its claims and its write-back.
CarOnCourse ==
  /\ \A l \in visit \cup ({current} \ {None}) : Exists(l)
  /\ current # None => current \in visit

-----------------------------------------------------------------------------
(* The inductive invariants the proofs rest on *)

\* An edit names a stored route, and what it is to write.
Named ==
  \A e \in Editors :
    /\ call[e].pc \in {"route", "create", "reorder"} =>
         call[e].route \in Routes /\ name[call[e].route] # None
    /\ call[e].pc = "route" => call[e].to \in Names
    /\ call[e].pc \in {"create", "update"} => call[e].to \in Spots
    /\ call[e].pc = "update" => call[e].id \in Legs

\* An edit that no other has overtaken still knows the route as it is.
UpToDate ==
  \A e \in Editors :
    ~call[e].outdated =>
      /\ call[e].pc = "create" => call[e].pos = Cardinality(LegsOf(call[e].route))
      /\ call[e].pc = "reorder" => Permutation(call[e].route, call[e].list)

\* What a Ping is to write back has been claimed, is yet to be, or has been deleted.
Claimed ==
  /\ ping.current = None \/ ping.current \in ping.inside \cup visit \/ ~Exists(ping.current)
  /\ ping.pc = "write" => ping.inside = {}

RouteInv == TypeOK /\ CarOnCourse /\ Named /\ Claimed
DenseInv == DenseUnlessOutdated /\ UpToDate

=============================================================================
