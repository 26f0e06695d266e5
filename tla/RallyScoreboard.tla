-------------------------- MODULE RallyScoreboard --------------------------
(***************************************************************************)
(* What the cars earn and how they rank (backend/internal/tasks,           *)
(* taskengine, scoring and the scoring half of sessions).  Organizers      *)
(* author and retune tasks while crews answer them: an answer is graded by *)
(* the definition read first and stored by a later transaction, a finish   *)
(* writes back the row it read.  The leaderboard is a function of the      *)
(* rows.  Position checks and Ping's writes are RallySession's; a write    *)
(* refused for a code that is taken, or a call that dies before its one     *)
(* write, changes nothing and has no action.                               *)
(***************************************************************************)
EXTENDS RallyTaskEngine, FiniteSetsExt, Functions

CONSTANTS
  Tasks, Sessions,
  Authors,     \* organizers' edits that may be in flight
  Calls,       \* crews' requests that may be in flight
  Drafts,      \* per task, the definitions somebody may author
  Patches,     \* per type, the PATCH bodies to try; None for a field left out
  Attempts,    \* per task type, the payloads a phone may send
  MaxTime,     \* bound on the clock
  None

\* A row of the task table.
Definition(type, points, config) == [type |-> type, points |-> points, config |-> config]
\* The configurations somebody may store, the payloads a phone may send.
Configs == {d.config : d \in UNION {Drafts[t] : t \in Tasks}}
           \cup ({p.config : p \in UNION {Patches[y] : y \in Types}} \ {None})
Payloads == UNION {Attempts[y] : y \in Types}

ASSUME ScoreboardConstants ==
  /\ \A t \in Tasks : \A d \in Drafts[t] : d = Definition(d.type, d.points, d.config)
  /\ \A t \in Tasks : \A d \in Drafts[t] : d.points \in Int
  /\ \A y \in Types : \A p \in Patches[y] : p.points \in Int \cup {None}
  /\ \A c \in Configs : IsConfig(c)
  /\ \A p \in Payloads : IsPayload(p)
  /\ IsFiniteSet(Tasks) /\ IsFiniteSet(Sessions)
  /\ MaxTime \in Nat /\ None \notin 0..MaxTime

VARIABLES
  task,        \* task rows, None where there is no row
  edit,        \* each organizer's Update in flight
  row,         \* team_session: the columns the leaderboard reads
  submission,  \* task_submission rows, with what they were graded by
  call,        \* each crew request in flight
  now          \* the clock

vars == <<task, edit, row, submission, call, now>>

NoEdit == [pc |-> "idle", task |-> None, becomes |-> None]
NoCall == [pc |-> "idle", sid |-> None, task |-> None, answer |-> None, held |-> None, at |-> None]

Init ==
  /\ task = [t \in Tasks |-> None]
  /\ edit = [a \in Authors |-> NoEdit]
  /\ row = [s \in Sessions |-> [status |-> "active", total |-> 0, finish |-> None]]
  /\ submission = [s \in Sessions |-> [t \in Tasks |-> None]]
  /\ call = [k \in Calls |-> NoCall]
  /\ now = 0

-----------------------------------------------------------------------------
(* Authoring *)

\* validate: only a BRANCH may cost points.
ValidOfAnySign(d) == d.type \in Types
Valid(d) == d.type \in Types /\ (d.points < 0 => d.type = "BRANCH")

Create(t, d) ==
  /\ task[t] = None
  /\ Valid(d)
  /\ task' = [task EXCEPT ![t] = d]
  /\ UNCHANGED <<edit, row, submission, call, now>>

Patched(d, patch) ==
  Definition(IF patch.type = None THEN d.type ELSE patch.type,
             IF patch.points = None THEN d.points ELSE patch.points,
             IF patch.config = None THEN d.config ELSE patch.config)

\* Update reads the task, applies the patch and validates the whole.
UpdateStart(a, t, patch) ==
  /\ edit[a].pc = "idle"
  /\ task[t] # None
  /\ Valid(Patched(task[t], patch))
  /\ edit' = [edit EXCEPT ![a] = [pc |-> "write", task |-> t, becomes |-> Patched(task[t], patch)]]
  /\ UNCHANGED <<task, row, submission, call, now>>

\* repo.Update: every column, whatever has been stored since.
UpdateWrite(a) ==
  /\ edit[a].pc = "write"
  /\ task' = [task EXCEPT ![edit[a].task] = edit[a].becomes]
  /\ edit' = [edit EXCEPT ![a] = NoEdit]
  /\ UNCHANGED <<row, submission, call, now>>

-----------------------------------------------------------------------------
(* Answering *)

\* SubmitTask: the run must not be over; the engine grades the payload by the
\* definition read here.
Submit(k, s, t, payload) ==
  /\ call[k].pc = "idle"
  /\ row[s].status # "finished"
  /\ task[t] # None
  /\ payload \in Attempts[task[t].type]
  /\ \E r \in Validate(task[t].type, task[t].config, payload, task[t].points) :
       call' = [call EXCEPT ![k] =
         [NoCall EXCEPT !.pc = "save", !.sid = s, !.task = t,
                        !.answer = [graded |-> task[t], payload |-> payload, result |-> r]]]
  /\ UNCHANGED <<task, edit, row, submission, now>>

\* SaveSubmission: the first answer wins, and the total is the sum of all.
TotalOf(answers) ==
  FoldSet(LAMBDA t, sum : sum + answers[t].result.points, 0, {t \in Tasks : answers[t] # None})
Save(k) ==
  /\ call[k].pc = "save"
  /\ LET s == call[k].sid
         t == call[k].task
     IN IF submission[s][t] # None
        THEN UNCHANGED <<submission, row>>
        ELSE /\ submission' = [submission EXCEPT ![s][t] = call[k].answer]
             /\ row' = [row EXCEPT ![s].total = TotalOf(submission'[s])]
  /\ call' = [call EXCEPT ![k] = NoCall]
  /\ UNCHANGED <<task, edit, now>>

-----------------------------------------------------------------------------
(* Finishing *)

\* Finish reads the row and then the clock, which may have moved on.
FinishStart(k, s) ==
  /\ call[k].pc = "idle"
  /\ row[s].status # "finished"
  /\ now' \in {now, now + 1} \cap 0..MaxTime
  /\ call' = [call EXCEPT ![k] = [NoCall EXCEPT !.pc = "finish", !.sid = s, !.held = row[s],
                                                !.at = now']]
  /\ UNCHANGED <<task, edit, row, submission>>

\* UpdateSession: every column as it was read, save these two.
EndedUntimed(held, at) == [held EXCEPT !.status = "finished"]
Ended(held, at) == [held EXCEPT !.status = "finished", !.finish = at]
FinishWrite(k) ==
  /\ call[k].pc = "finish"
  /\ row' = [row EXCEPT ![call[k].sid] =
       Ended(call[k].held, call[k].at)]
  /\ call' = [call EXCEPT ![k] = NoCall]
  /\ UNCHANGED <<task, edit, submission, now>>

-----------------------------------------------------------------------------
(* The leaderboard: StandingsOf and Rank *)

\* Negative when a is the better of two standings, zero when they are inseparable.
CompareRunningFirst(a, b) ==
  IF a.total # b.total THEN b.total - a.total
  ELSE IF a.finish = b.finish THEN 0
  ELSE IF a.finish = None THEN -1
  ELSE IF b.finish = None THEN 1
  ELSE a.finish - b.finish
Compare(a, b) ==
  IF a.total # b.total THEN b.total - a.total
  ELSE IF a.finish = b.finish THEN 0
  ELSE IF a.finish = None THEN 1
  ELSE IF b.finish = None THEN -1
  ELSE a.finish - b.finish

\* Sorted; which of two inseparable runs is listed first is left open.
Leaderboard ==
  CHOOSE board \in SetToSeqs(Sessions) :
    \A i, j \in DOMAIN board : i < j => Compare(row[board[i]], row[board[j]]) <= 0
RankDense(board) ==
  LET rank[i \in DOMAIN board] ==
        IF i = 1 THEN 1
        ELSE IF Compare(row[board[i - 1]], row[board[i]]) = 0 THEN rank[i - 1]
             ELSE rank[i - 1] + 1
  IN rank
Rank(board) ==
  LET rank[i \in DOMAIN board] ==
        IF i > 1 /\ Compare(row[board[i - 1]], row[board[i]]) = 0 THEN rank[i - 1] ELSE i
  IN rank

Ranks ==
  LET board == Leaderboard
      rank == Rank(board)
  IN [s \in Sessions |-> rank[CHOOSE i \in DOMAIN board : board[i] = s]]

-----------------------------------------------------------------------------

Next ==
  \/ \E t \in Tasks : \E d \in Drafts[t] : Create(t, d)
  \/ \E a \in Authors, t \in Tasks :
       task[t] # None /\ \E p \in Patches[task[t].type] : UpdateStart(a, t, p)
  \/ \E a \in Authors : UpdateWrite(a)
  \/ \E k \in Calls, s \in Sessions, t \in Tasks :
       task[t] # None /\ \E p \in Attempts[task[t].type] : Submit(k, s, t, p)
  \/ \E k \in Calls, s \in Sessions : FinishStart(k, s)
  \/ \E k \in Calls : Save(k) \/ FinishWrite(k)

Spec == Init /\ [][Next]_vars

-----------------------------------------------------------------------------
(* Properties *)

Definitions == [type : Types, points : Int, config : Configs]
Rows == [status : {"active", "finished"}, total : Int, finish : 0..MaxTime \cup {None}]
Answers == [graded : Definitions, payload : Payloads, result : [correct : BOOLEAN, points : Int]]

\* The rows and the locals have their types; a run over has a time, no other has one.
TypeOK ==
  /\ task \in [Tasks -> Definitions \cup {None}]
  /\ edit \in [Authors -> [pc : {"idle", "write"}, task : Tasks \cup {None},
                           becomes : Definitions \cup {None}]]
  /\ row \in [Sessions -> Rows]
  /\ \A s \in Sessions : row[s].finish # None <=> row[s].status = "finished"
  /\ submission \in [Sessions -> [Tasks -> Answers \cup {None}]]
  /\ call \in [Calls -> [pc : {"idle", "save", "finish"}, sid : Sessions \cup {None},
                         task : Tasks \cup {None}, answer : Answers \cup {None},
                         held : Rows \cup {None}, at : 0..MaxTime \cup {None}]]
  /\ now \in 0..MaxTime

\* Whether payload p answers the task as it is defined by d better than q does.
Nearer(d, p, q) ==
  \/ d.type = "TELEMATICS" /\ p.hardStops + p.sharpTurns < q.hardStops + q.sharpTurns
  \/ /\ d.type = "BLIND_TIMER"
     /\ Distance(p.elapsedSec, d.config.targetSec) < Distance(q.elapsedSec, d.config.targetSec)
  \/ /\ d.type = "GRID_FILL"
     /\ CorrectCells(d.config.solution, q.answers)
          \subseteq CorrectCells(d.config.solution, p.answers)
     /\ p.answers # q.answers
  \/ /\ d.type = "TIMED_TRIVIA"
     /\ p.answer = q.answer
     /\ p.elapsedSec < q.elapsedSec
  \/ /\ d.type = "INPUT_NUMBER"
     /\ Distance(p.answer.value, d.config.answer.value)
          < Distance(q.answer.value, d.config.answer.value)

\* "A tampered count still cannot exceed the task's points" (validateTelematics), and
\* only a BRANCH costs any, however the task is retuned meanwhile; and of two cars
\* whose answers were graded alike the nearer one never gets less (scale).
AwardsAreFair ==
  \A t \in Tasks :
    \A s \in {o \in Sessions : submission[o][t] # None} :
      LET mine == submission[s][t] IN
      /\ mine.graded.type # "BRANCH" => mine.result.points \in 0..mine.graded.points
      /\ \A o \in {r \in Sessions : submission[r][t] # None} :
           LET other == submission[o][t] IN
           /\ mine.graded = other.graded
           /\ Nearer(mine.graded, mine.payload, other.payload)
           => mine.result.points >= other.result.points

\* Competition ranking (Rank): every run is listed once, its rank is one more than
\* the number of runs that did better, by score or by an earlier finish at the same
\* score, and nobody is listed below a run that did worse.
DidBetter(s, o) ==
  \/ row[s].total > row[o].total
  \/ /\ row[s].total = row[o].total
     /\ row[s].finish # None
     /\ row[o].finish = None \/ row[s].finish < row[o].finish
BoardIsRanked ==
  LET board == Leaderboard
      rank == Rank(board)
  IN /\ Len(board) = Cardinality(Sessions)
     /\ \A i \in DOMAIN board :
          rank[i] = 1 + Cardinality({s \in Sessions : DidBetter(s, board[i])})
     /\ \A i, j \in DOMAIN board : DidBetter(board[i], board[j]) => i < j

\* A car that earns points, or finishes with what it has, does not fall behind, and
\* pushes every other car back by one place at most (Rank, SaveSubmission, finish).
Improves(s) ==
  \/ row'[s].total > row[s].total /\ row'[s].finish = row[s].finish
  \/ row'[s].total = row[s].total /\ row[s].finish = None /\ row'[s].finish # None
NoSetback ==
  [][\A s \in Sessions : Improves(s) =>
       LET old == Ranks
           new == Ranks'
       IN /\ new[s] <= old[s]
          /\ \A o \in Sessions \ {s} : new[o] \in old[o]..(old[o] + 1)]_row

-----------------------------------------------------------------------------
(* The inductive invariant the proofs rest on *)

\* An answer was graded by a definition the library once had.
Earned(a) ==
  /\ Valid(a.graded)
  /\ a.result \in Validate(a.graded.type, a.graded.config, a.payload, a.graded.points)

\* What is stored and what is about to be is valid and earned; a Finish holds a run
\* that was under way.
ScoreInv ==
  /\ TypeOK
  /\ \A t \in Tasks : task[t] # None => Valid(task[t])
  /\ \A a \in Authors : edit[a].pc = "write" =>
       edit[a].task \in Tasks /\ edit[a].becomes \in Definitions /\ Valid(edit[a].becomes)
  /\ \A s \in Sessions, t \in Tasks : submission[s][t] # None => Earned(submission[s][t])
  /\ \A k \in Calls :
       /\ call[k].pc # "idle" => call[k].sid \in Sessions
       /\ call[k].pc = "save" =>
            call[k].task \in Tasks /\ call[k].answer \in Answers /\ Earned(call[k].answer)
       /\ call[k].pc = "finish" => call[k].held \in Rows /\ call[k].at \in 0..MaxTime

=============================================================================
