---------------------------- MODULE RallyLedger ----------------------------
(***************************************************************************)
(* What one car's run promises, whatever order its phones' calls take:     *)
(* the rows that are written once and never again, and what the crew is    *)
(* told about them.  RallySession is shown to implement this module.       *)
(*                                                                         *)
(*   answer[s][t]  who won task t, None while it is open                   *)
(*                 (task_submission, uq_submission_session_task)           *)
(*   visited[s]    the boundaries the car has been inside                  *)
(*                 (session_waypoint_visit)                                *)
(*   opened[s]     the boundaries whose rests and quizzes have begun       *)
(*   voucher       the sessions whose voucher exists (voucher)             *)
(*   told          the sessions whose crew has been told it arrived        *)
(***************************************************************************)
CONSTANTS Phones, Sessions, Tasks, Waypoints, None

VARIABLES answer, visited, opened, voucher, told

ledger == <<answer, visited, opened, voucher, told>>

Init ==
  /\ answer = [s \in Sessions |-> [t \in Tasks |-> None]]
  /\ visited = [s \in Sessions |-> {}]
  /\ opened = [s \in Sessions |-> {}]
  /\ voucher = {}
  /\ told = {}

\* The first answer wins the task for the whole car; nothing replaces it.
Win(p, s, t) ==
  /\ answer[s][t] = None
  /\ answer' = [answer EXCEPT ![s][t] = p]
  /\ UNCHANGED <<visited, opened, voucher, told>>

\* A boundary is crossed for the first time once.
Cross(s, w) ==
  /\ w \notin visited[s]
  /\ visited' = [visited EXCEPT ![s] = @ \cup {w}]
  /\ UNCHANGED <<answer, opened, voucher, told>>

\* The rests and quizzes of boundaries the car has crossed begin, none for the
\* second time, and the crew hears that it arrived only once there is a voucher to collect.
Tell(s, boundaries, arrived) ==
  /\ boundaries \subseteq visited[s] \ opened[s]
  /\ arrived => s \in voucher
  /\ opened' = [opened EXCEPT ![s] = @ \cup boundaries]
  /\ told' = IF arrived THEN told \cup {s} ELSE told
  /\ UNCHANGED <<answer, visited, voucher>>

\* A session earns one voucher.
Issue(s) ==
  /\ s \notin voucher
  /\ voucher' = voucher \cup {s}
  /\ UNCHANGED <<answer, visited, opened, told>>

Next ==
  \E s \in Sessions :
    \/ \E p \in Phones, t \in Tasks : Win(p, s, t)
    \/ \E w \in Waypoints : Cross(s, w)
    \/ \E boundaries \in SUBSET Waypoints, arrived \in BOOLEAN :
         Tell(s, boundaries, arrived)
    \/ Issue(s)

Spec == Init /\ [][Next]_ledger

=============================================================================
