--------------------------- MODULE MCRallyRoster ---------------------------
(***************************************************************************)
(* Small fleets for TLC.  An organizer types the crew of one, the crew of  *)
(* two, or, by mistake, the same address twice.  A history variable        *)
(* remembers which edits the status of their car has moved under.          *)
(***************************************************************************)
EXTENDS RallyRoster, TLC

CONSTANTS ann, bob

VARIABLE overtaken    \* organizers whose edit read a status that is gone

CrewLists == {<<ann>>, <<bob>>, <<bob, bob>>}

\* Edits that type a list, or name a status, or nothing at all.
Edit(field, value) ==
  [[code |-> Keep, status |-> Keep, list |-> Keep] EXCEPT ![field] = value]
RosterEdits == {Edit("code", Keep), Edit("status", "ok")} \cup {Edit("list", list) : list \in Lists}

\* Organizers and vehicles are interchangeable.
Interchangeable == Permutations(Organizers) \cup Permutations(Vehicles)

MCInit == Init /\ overtaken = {}
MCNext ==
  /\ Next
  /\ overtaken' = {o \in Organizers :
       /\ edit[o].pc # "idle" /\ edit'[o].pc # "idle"
       /\ o \in overtaken \/ vehicle'[edit[o].car].status # vehicle[edit[o].car].status}
MCSpec == MCInit /\ [][MCNext]_<<vars, overtaken>>

\* "Update applies the non-nil fields of in" (service.Update): the status an alert
\* gave a car changes by another alert, by an edit that names a status, or by one
\* that was overtaken between its read and its write, and by nothing else.
StatusStands ==
  [][\A v \in Vehicles :
       Exists(v) /\ Exists(v)' /\ vehicle'[v].status # vehicle[v].status =>
         \/ edit' = edit
         \/ \E o \in Organizers :
              /\ edit[o].car = v /\ edit[o].pc = "write" /\ edit'[o].pc = "idle"
              /\ edit[o].status # Keep \/ o \in overtaken]_vars

\* The inductive invariant its proof rests on: an edit that keeps the status and has
\* not been overtaken holds the one that is stored.
StatusInv ==
  \A o \in Organizers :
    edit[o].pc \in {"crew", "write"} /\ edit[o].status = Keep /\ o \notin overtaken =>
      edit[o].row.status = vehicle[edit[o].car].status

=============================================================================
