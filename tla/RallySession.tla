---------------------------- MODULE RallySession ----------------------------
(***************************************************************************)
(* One car's run of the rally (backend/internal/sessions), shared by every *)
(* phone in the car.  Each phone has at most one HTTP request in flight;   *)
(* a request is the handler's sequence of SQL statements, and every        *)
(* autocommit statement or InTx transaction is one action, so that the     *)
(* statements of different phones interleave as they may in MySQL.  What a *)
(* handler read earlier and still holds is in its call record.             *)
(*                                                                         *)
(* total_score is SUM(awarded_points): the model keeps the set of tasks    *)
(* whose points the stored number includes instead of the number, which    *)
(* tells a missing answer apart whatever its points are.  Timestamps are   *)
(* left out: finished_at is set exactly when status is finished.           *)
(***************************************************************************)
EXTENDS Naturals

CONSTANTS
  Phones,        \* crew members' phones, and the calls they may have in flight
  Sessions,      \* team_session ids NewID may return: bounds the sessions made
  Tasks,         \* the rally's tasks
  SensorTasks,   \* those of a type in sensorTaskTypes
  Waypoints,     \* the waypoints of the vehicle's route
  Order,         \* display_order of each waypoint
  Places,        \* positions a phone can report
  Inside,        \* the waypoint circles each place lies in
  FinishPlaces,  \* the places inside the finish geofence
  None,          \* SQL NULL
  Faults         \* whether a call can die between two of its statements

ASSUME ConstantsAssumption ==
  /\ SensorTasks \subseteq Tasks
  /\ FinishPlaces \subseteq Places
  /\ Order \in [Waypoints -> Nat]
  /\ Inside \in [Places -> SUBSET Waypoints]
  /\ None \notin Phones \cup Sessions \cup Tasks \cup Waypoints \cup Places
  /\ Faults \in BOOLEAN

VARIABLES
  row,        \* team_session, "none" in status where no row exists yet
  device,     \* session_device: pairs <<session, phone>>
  visited,    \* session_waypoint_visit
  answer,     \* task_submission: who won each task
  voucher,    \* the sessions that have a voucher row
  token,      \* the session each phone's team token names
  call,       \* each phone's request in flight and its local variables
  opened,     \* boundaries whose rest and trivia events were broadcast to the car
  unlocked,   \* boundaries whose tasks a task_unlocked broadcast has named
  told,       \* sessions whose arrival was broadcast to the car
  published   \* the tasks the last broadcast total of each session includes

tables == <<row, device, visited, answer, voucher>>
topics == <<opened, unlocked, told, published>>
vars == <<row, device, visited, answer, voucher, token, call,
          opened, unlocked, told, published>>

Status == {"bound", "active", "finished"}

Row == [status : Status \cup {"none"},
        waypoint : Waypoints \cup {None},
        total : SUBSET Tasks,
        fix : Places \cup {None}]

NoRow == [status |-> "none", waypoint |-> None, total |-> {}, fix |-> None]

\* StatusFinished has an event-level cousin spelled differently.
FinishedMisspelt == "complete"
Finished == "finished"

JoinSteps == {"find", "create", "refind", "device"}
Steps == JoinSteps \cup {"claim", "update", "voucher", "announce", "save", "publish"}
Replies == {"none", "ok", "finished", "locked", "claimed", "noLiveSession", "error"}

\* A handler's local variables: the session it acts on, the Session struct it
\* read and edits, the boundaries still to claim and those found fresh, whether
\* it finishes the run, the task answered and the total SaveSubmission returned.
Call == [pc : {"idle", "reply"} \cup Steps,
         sid : Sessions \cup {None},
         held : Row,
         entered : SUBSET Waypoints,
         fresh : SUBSET Waypoints,
         arrived : BOOLEAN,
         task : Tasks \cup {None},
         total : SUBSET Tasks,
         reply : Replies]

NoCall == [pc |-> "idle", sid |-> None, held |-> NoRow, entered |-> {}, fresh |-> {},
           arrived |-> FALSE, task |-> None, total |-> {}, reply |-> "none"]

Init ==
  /\ row = [s \in Sessions |-> NoRow]
  /\ device = {}
  /\ visited = [s \in Sessions |-> {}]
  /\ answer = [s \in Sessions |-> [t \in Tasks |-> None]]
  /\ voucher = {}
  /\ token = [p \in Phones |-> None]
  /\ call = [p \in Phones |-> NoCall]
  /\ opened = [s \in Sessions |-> {}]
  /\ unlocked = [s \in Sessions |-> {}]
  /\ told = {}
  /\ published = [s \in Sessions |-> {}]

-----------------------------------------------------------------------------
(* Helpers *)

Live(r) == r.status \in {"bound", "active"}
LiveSessions == {s \in Sessions : Live(row[s])}
Answered(s) == {t \in Tasks : answer[s][t] # None}

Continue(p, c) == call' = [call EXCEPT ![p] = c]

\* The handler returns; its locals are gone, only the response remains.
Respond(p, r) == Continue(p, [NoCall EXCEPT !.pc = "reply", !.reply = r])

At(p, step) == call[p].pc = step

\* uq_live_session_per_vehicle: writing r as session s's row is refused while
\* another session of the vehicle is live.
CollidesNever(s, r) == FALSE
Collides(s, r) == Live(r) /\ \E o \in Sessions \ {s} : Live(row[o])

\* EvaluatePing's CurrentWaypointID: the furthest along the route of the
\* circles around the position; between circles it is empty and Ping keeps the
\* waypoint the session r had.  An implausible fix is not evaluated at all.
CurrentWaypoint(r, place, plausible) ==
  IF plausible /\ Inside[place] # {}
    THEN {w \in Inside[place] : \A v \in Inside[place] : Order[w] >= Order[v]}
    ELSE {r.waypoint}

\* isPlausibleMove.  The first fix has nothing to compare against and no
\* distance is never too fast; otherwise the verdict depends on the clock.
PlausibilityUnchecked(r, place) == BOOLEAN
Plausibility(r, place) ==
  IF r.fix \in {None, place} THEN {TRUE} ELSE BOOLEAN

\* The Session struct Ping has edited when it comes to the write: the fix is
\* always recorded, the first plausible one starts the run.
Moved(r, place, plausible, waypoint) ==
  [r EXCEPT !.fix = place,
            !.status = IF plausible /\ @ = "bound" THEN "active" ELSE @,
            !.waypoint = waypoint]

-----------------------------------------------------------------------------
(* Join *)

\* POST /join up to the active-event check, which this car passes: it is on
\* the roster of a published event.
JoinStart(p) ==
  /\ At(p, "idle")
  /\ Continue(p, [NoCall EXCEPT !.pc = "find"])
  /\ UNCHANGED <<tables, topics, token>>

\* liveOrNewSession's first LiveSessionOf.
JoinFind(p) ==
  /\ At(p, "find")
  /\ \/ \E s \in LiveSessions :
          Continue(p, [call[p] EXCEPT !.pc = "device", !.sid = s])
     \/ /\ LiveSessions = {}
        /\ Continue(p, [call[p] EXCEPT !.pc = "create"])
  /\ UNCHANGED <<tables, topics, token>>

Unused == {s \in Sessions : row[s].status = "none"}
BoundWithOldScore ==
  [NoRow EXCEPT !.status = "bound", !.total = UNION {row[s].total : s \in Sessions}]
Bound == [NoRow EXCEPT !.status = "bound"]

\* CreateSession.  The insert is refused by the unique index when another phone
\* got there first; running out of Sessions stands for a failing insert.
JoinCreate(p) ==
  /\ At(p, "create")
  /\ \/ \E s \in Unused :
          /\ ~Collides(s, Bound)
          /\ row' = [row EXCEPT ![s] = Bound]
          /\ Continue(p, [call[p] EXCEPT !.pc = "device", !.sid = s])
     \/ /\ \A s \in Unused : Collides(s, Bound)
        /\ IF Unused = {}
             THEN Respond(p, "error")
             ELSE Continue(p, [call[p] EXCEPT !.pc = "refind"])
        /\ UNCHANGED row
  /\ UNCHANGED <<device, visited, answer, voucher, topics, token>>

\* The loser of the insert race takes the winner's session, if it still runs.
JoinRefind(p) ==
  /\ At(p, "refind")
  /\ \/ \E s \in LiveSessions :
          Continue(p, [call[p] EXCEPT !.pc = "device", !.sid = s])
     \/ /\ LiveSessions = {}
        /\ Respond(p, "noLiveSession")
  /\ UNCHANGED <<tables, topics, token>>

\* UpsertDevice, then the reads and Mint that end the request.
JoinDevice(p) ==
  /\ At(p, "device")
  /\ device' = device \cup {<<call[p].sid, p>>}
  /\ token' = [token EXCEPT ![p] = call[p].sid]
  /\ Respond(p, "ok")
  /\ UNCHANGED <<row, visited, answer, voucher, topics>>

-----------------------------------------------------------------------------
(* Ping and Finish *)

\* ErrSessionFinished: a finished session takes no input.
OpenAlways(s) == TRUE
Open(s) == row[s].status # Finished

\* The ping's locals once position and session have been weighed up.
PingCall(s, place, plausible, waypoint) ==
  LET entered == IF plausible THEN Inside[place] ELSE {} IN
  [NoCall EXCEPT !.pc = IF entered = {} THEN "update" ELSE "claim",
                 !.sid = s,
                 !.held = Moved(row[s], place, plausible, waypoint),
                 !.entered = entered,
                 !.arrived = plausible /\ place \in FinishPlaces]

\* GetSession and everything Ping decides from it before its first write.
PingStart(p, place) ==
  LET s == token[p] IN
  /\ At(p, "idle")
  /\ s # None
  /\ \/ /\ ~Open(s)
        /\ Respond(p, "finished")
     \/ /\ Open(s)
        /\ \E plausible \in Plausibility(row[s], place) :
           \E waypoint \in CurrentWaypoint(row[s], place, plausible) :
             Continue(p, PingCall(s, place, plausible, waypoint))
  /\ UNCHANGED <<tables, topics, token>>

\* Whether the claim's insert adds a row, which makes the crossing an edge.
EveryClaimNew(s, w) == TRUE
ClaimNew(s, w) == w \notin visited[s]

\* One statement of ClaimWaypointVisits, in the order of the route.
PingClaim(p) ==
  LET c == call[p] IN
  /\ At(p, "claim")
  /\ \E w \in c.entered :
       /\ \A v \in c.entered : Order[w] <= Order[v]
       /\ visited' = [visited EXCEPT ![c.sid] = @ \cup {w}]
       /\ Continue(p, [c EXCEPT
            !.pc = IF c.entered = {w} THEN "update" ELSE "claim",
            !.entered = @ \ {w},
            !.fresh = IF ClaimNew(c.sid, w) THEN @ \cup {w} ELSE @])
  /\ UNCHANGED <<row, device, answer, voucher, topics, token>>

\* Finish's GetSession; finishing a finished session is a no-op.
FinishStart(p) ==
  LET s == token[p] IN
  /\ At(p, "idle")
  /\ s # None
  /\ \/ /\ ~Open(s)
        /\ Respond(p, "ok")
     \/ /\ Open(s)
        /\ Continue(p, [NoCall EXCEPT
             !.pc = "update", !.sid = s, !.held = row[s], !.arrived = TRUE])
  /\ UNCHANGED <<tables, topics, token>>

\* The struct UpdateSession writes: finish sets the status, the rest is as the
\* handler read it, total_score included.
ToWriteMisspelt(c) ==
  IF c.arrived THEN [c.held EXCEPT !.status = FinishedMisspelt] ELSE c.held
ToWrite(c) == IF c.arrived THEN [c.held EXCEPT !.status = Finished] ELSE c.held

\* finish goes on to the voucher and only then announces the arrival.
AnnounceFirst(arrived) == "announce"
AfterUpdate(arrived) == IF arrived THEN "voucher" ELSE "announce"

\* UpdateSession, from Ping or from finish: the whole row, by id.
UpdateSession(p) ==
  LET c == call[p] IN
  /\ At(p, "update")
  /\ \/ /\ Collides(c.sid, ToWrite(c))
        /\ Respond(p, "error")
        /\ UNCHANGED row
     \/ /\ ~Collides(c.sid, ToWrite(c))
        /\ row' = [row EXCEPT ![c.sid] = ToWrite(c)]
        /\ Continue(p, [c EXCEPT !.pc = AfterUpdate(c.arrived)])
  /\ UNCHANGED <<device, visited, answer, voucher, topics, token>>

\* issueVoucher: nothing if the crew has one, and a duplicate insert is fine.
IssueVoucher(p) ==
  /\ At(p, "voucher")
  /\ voucher' = voucher \cup {call[p].sid}
  /\ Continue(p, [call[p] EXCEPT !.pc = "announce"])
  /\ UNCHANGED <<row, device, visited, answer, topics, token>>

\* claimVisits keeps the events of the fresh boundaries, and the unlocks of all
\* the circles around the car as long as one of them is fresh.
KeptUnlessArrived(c) == IF c.arrived THEN {} ELSE c.fresh
Kept(c) == c.fresh
Unlocked(c) == IF Kept(c) = {} THEN {} ELSE Inside[c.held.fix]

\* finish's arrival broadcast and broadcastSessionEvents, then the response.
Announce(p) ==
  LET c == call[p] IN
  /\ At(p, "announce")
  /\ opened' = [opened EXCEPT ![c.sid] = @ \cup Kept(c)]
  /\ unlocked' = [unlocked EXCEPT ![c.sid] = @ \cup Unlocked(c)]
  /\ told' = IF c.arrived THEN told \cup {c.sid} ELSE told
  /\ Respond(p, "ok")
  /\ UNCHANGED <<tables, published, token>>

-----------------------------------------------------------------------------
(* SubmitTask *)

\* requireUnlocked: the sensor tasks wait for the first boundary.
Reachable(s, t) == t \in SensorTasks => row[s].waypoint # None

\* GetSession, requireUnlocked and taskengine.Validate: the last can refuse a
\* malformed payload, and whatever it awards the attempt is stored.
SubmitStart(p, t) ==
  LET s == token[p] IN
  /\ At(p, "idle")
  /\ s # None
  /\ \/ /\ ~Open(s)
        /\ Respond(p, "finished")
     \/ /\ Open(s)
        /\ ~Reachable(s, t)
        /\ Respond(p, "locked")
     \/ /\ Open(s)
        /\ Reachable(s, t)
        /\ \/ Respond(p, "error")
           \/ Continue(p, [NoCall EXCEPT !.pc = "save", !.sid = s, !.task = t])
  /\ UNCHANGED <<tables, topics, token>>

\* uq_submission_session_task: the task has a winner already.
ClaimedNever(s, t) == FALSE
Claimed(s, t) == answer[s][t] # None

\* The recomputed SUM over the session's stored answers, this one included.
SumWithoutOwn(s, t) == Answered(s) \ {t}
SumOf(s, t) == Answered(s) \cup {t}

\* SaveSubmission: one transaction inserts the answer, recomputes total_score
\* and reads it back; a duplicate rolls back and names the winner.
SaveSubmission(p) ==
  LET s == call[p].sid
      t == call[p].task
  IN
  /\ At(p, "save")
  /\ \/ /\ Claimed(s, t)
        /\ Respond(p, "claimed")
        /\ UNCHANGED <<answer, row>>
     \/ /\ ~Claimed(s, t)
        /\ answer' = [answer EXCEPT ![s][t] = p]
        /\ row' = [row EXCEPT ![s].total = SumOf(s, t)]
        /\ Continue(p, [call[p] EXCEPT !.pc = "publish", !.total = SumOf(s, t)])
  /\ UNCHANGED <<device, visited, voucher, topics, token>>

\* publishScore broadcasts the total the transaction returned.
PublishScore(p) ==
  /\ At(p, "publish")
  /\ published' = [published EXCEPT ![call[p].sid] = call[p].total]
  /\ Respond(p, "ok")
  /\ UNCHANGED <<tables, opened, unlocked, told, token>>

-----------------------------------------------------------------------------

\* A failing statement, a cancelled request context or a crashed server ends
\* the call where it is: what is committed stays, the rest never happens.
Abort(p) ==
  /\ Faults
  /\ call[p].pc \in Steps
  /\ Respond(p, "error")
  /\ UNCHANGED <<tables, topics, token>>

\* The phone reads the response and may call again.
Return(p) ==
  /\ At(p, "reply")
  /\ Continue(p, NoCall)
  /\ UNCHANGED <<tables, topics, token>>

\* What the server does with a request in flight.
Step(p) ==
  \/ JoinFind(p) \/ JoinCreate(p) \/ JoinRefind(p) \/ JoinDevice(p)
  \/ PingClaim(p) \/ UpdateSession(p) \/ IssueVoucher(p) \/ Announce(p)
  \/ SaveSubmission(p) \/ PublishScore(p)
  \/ Return(p)

\* What a phone asks for.
Request(p) ==
  \/ JoinStart(p)
  \/ \E place \in Places : PingStart(p, place)
  \/ FinishStart(p)
  \/ \E t \in Tasks : SubmitStart(p, t)

Next == \E p \in Phones : Request(p) \/ Step(p) \/ Abort(p)

Spec == Init /\ [][Next]_vars

\* net/http runs every handler it has started to its end.
FairSpec == Spec /\ \A p \in Phones : WF_vars(Step(p))

-----------------------------------------------------------------------------
(* Properties *)

\* Every table, token and handler local stays within the column types of the
\* migration and the fields of the Go structs.
TypeOK ==
  /\ row \in [Sessions -> Row]
  /\ device \subseteq Sessions \X Phones
  /\ visited \in [Sessions -> SUBSET Waypoints]
  /\ answer \in [Sessions -> [Tasks -> Phones \cup {None}]]
  /\ voucher \subseteq Sessions
  /\ token \in [Phones -> Sessions \cup {None}]
  /\ call \in [Phones -> Call]
  /\ opened \in [Sessions -> SUBSET Waypoints]
  /\ unlocked \in [Sessions -> SUBSET Waypoints]
  /\ told \subseteq Sessions
  /\ published \in [Sessions -> SUBSET Tasks]

\* The crew cannot end up split across two runs (Join): two phones of the car
\* that both hold a token of a run under way hold it for the same run, even
\* when a late write brings a finished run back to life beside a newer one.
CrewNotSplit ==
  \A p, q \in Phones :
    /\ token[p] \in LiveSessions
    /\ token[q] \in LiveSessions
    => token[p] = token[q]

\* The visit row turns the level-triggered geofence into an edge (claimVisits):
\* no boundary is fresh to two calls at once, and none that was already
\* announced is ever fresh again, so no trivia countdown restarts.
UnlockedOnce ==
  \A p \in Phones :
    /\ call[p].fresh # {} => call[p].fresh \cap opened[call[p].sid] = {}
    /\ \A q \in Phones \ {p} :
         call[p].sid = call[q].sid => call[p].fresh \cap call[q].fresh = {}

\* No stale write, lost update or broadcast credits a car with points of an
\* answer that is not stored: neither in team_session.total_score nor on the
\* organizer's monitor (SaveSubmission, UpdateSession, publishScore).
NeverOverCredited ==
  \A s \in Sessions :
    /\ row[s].total \subseteq Answered(s)
    /\ published[s] \subseteq Answered(s)

\* The crew is told it arrived only when its voucher can be collected (finish).
ArrivalAfterVoucher == told \subseteq voucher

\* The waypoint a car is shown at is one it has a visit row for: no fix that was
\* set aside as implausible, and no stale write, moves it (Ping, claimVisits).
WaypointWasVisited ==
  \A s \in Sessions : row[s].waypoint # None => row[s].waypoint \in visited[s]

\* A sensor task is answered only by a car that has been inside some boundary,
\* whichever phone drove the gate open (requireUnlocked).
SensorsEarned ==
  \A s \in Sessions, t \in SensorTasks : answer[s][t] # None => visited[s] # {}

\* Once a car has left the start grid no late write puts it back there: a stale
\* Ping may turn a finished run active again, never bound (Ping, UpdateSession).
GridLeftForGood ==
  [][\A s \in Sessions :
       row[s].status \in {"active", "finished"} => row'[s].status # "bound"]_row

\* The write-once promise of the run's rows and of what the crew is told.
Ledger == INSTANCE RallyLedger
LedgerSpec == Ledger!Spec

\* A run that is stored as finished gets its voucher (finish), as long as the
\* handlers run to their end.
FinishedGetsVoucher ==
  \A s \in Sessions : row[s].status = "finished" ~> s \in voucher

\* The tasks of a boundary a call has claimed for the first time are announced to
\* the whole car (claimVisits, broadcastSessionEvents), as long as handlers run to their
\* end and the car does not meanwhile start another run, whose session makes the
\* live-session index refuse the write between the claim and the announcement.
VisitAnnounced ==
  \A p \in Phones, s \in Sessions, w \in Waypoints :
    call[p].sid = s /\ w \in call[p].fresh
      ~> (w \in unlocked[s] \/ LiveSessions \ {s} # {})

\* Where nothing fails, no interleaving of the phones' calls loses what the crew is
\* owed (finish, claimVisits): a run stored as finished has been announced, and has
\* its voucher, or a call is still on its way to both; a boundary of a car on its
\* only run has been announced with its tasks, or a call still holds it as fresh.
Arriving(c, s) == c.pc \in {"voucher", "announce"} /\ c.arrived /\ c.sid = s
OnlyRun(s) == \A o \in Sessions \ {s} : row[o].status = "none"
NothingForgotten ==
  ~Faults => \A s \in Sessions :
    /\ row[s].status = "finished" =>
         /\ s \in voucher \/ \E p \in Phones : At(p, "voucher") /\ Arriving(call[p], s)
         /\ s \in told \/ \E p \in Phones : Arriving(call[p], s)
    /\ OnlyRun(s) =>
         \A w \in visited[s] \ (opened[s] \cap unlocked[s]) :
           \E p \in Phones : call[p].sid = s /\ w \in call[p].fresh

-----------------------------------------------------------------------------
(* What the code's comments say of a run.  TotalIsExact is true of a car whose *)
(* phones call one at a time; TotalNeverDrops fails once they do not, for the  *)
(* reason the README's findings give.                                          *)

\* The stored total is the SUM over the stored answers (SaveSubmission).
TotalIsExact == \A s \in Sessions : row[s].total = Answered(s)

\* "The row is never updated afterwards, so the total recomputed from the
\* stored attempts is monotonic" (SaveSubmission): no step drops an answer that
\* the stored total already counted.
TotalNeverDrops ==
  [][\A s \in Sessions : row[s].total \subseteq row'[s].total]_row

-----------------------------------------------------------------------------
(* The inductive invariant the proofs rest on *)

\* A request past its first read knows which session, and which task, it is
\* about; one that claims boundaries has a position.
Shapely(c) ==
  /\ c.pc \in Steps \ {"find", "create", "refind"} => c.sid \in Sessions
  /\ c.pc = "save" => c.task \in Tasks
  /\ c.pc = "claim" \/ c.fresh # {} => c.held.fix \in Places

CallShape == \A p \in Phones : Shapely(call[p])

TypeInv == TypeOK /\ CallShape

\* At most one run of the car is live: the unique index guards every write that
\* can make a row live.
OneLive ==
  \A s, o \in Sessions : Live(row[s]) /\ Live(row[o]) => s = o

\* A fresh boundary has a visit row, has not been announced, and is fresh to
\* one call only; calls that have not claimed anything hold nothing fresh.
EdgeInv ==
  /\ \A s \in Sessions : opened[s] \subseteq visited[s]
  /\ \A p \in Phones :
       call[p].fresh # {} =>
         /\ call[p].pc \in {"claim", "update", "voucher", "announce"}
         /\ call[p].fresh \subseteq visited[call[p].sid] \ opened[call[p].sid]
  /\ \A p, q \in Phones :
       p # q /\ call[p].sid = call[q].sid => call[p].fresh \cap call[q].fresh = {}

\* Whatever copy of a total a call holds counts stored answers only.
Credited(c) ==
  /\ c.pc \in {"claim", "update"} => c.held.total \subseteq Answered(c.sid)
  /\ c.pc = "publish" => c.total \subseteq Answered(c.sid)

CreditInv ==
  /\ NeverOverCredited
  /\ \A p \in Phones : Credited(call[p])

\* A call that is about to announce an arrival has seen to the voucher.
VoucherInv ==
  /\ ArrivalAfterVoucher
  /\ \A p \in Phones :
       call[p].pc = "announce" /\ call[p].arrived => call[p].sid \in voucher

\* A car on the grid has sent no fix, so its first one starts the run: no call
\* holds a bound row that it would write back.
GridInv ==
  /\ \A s \in Sessions : row[s].status = "bound" => row[s].fix = None
  /\ \A p \in Phones :
       call[p].pc \in {"claim", "update"} => ToWrite(call[p]).status # "bound"

\* A call that will write a waypoint has claimed it or is about to; one that will
\* store a sensor task's answer saw the gate open.
Placed(c) ==
  /\ c.pc = "claim" => c.held.waypoint \in visited[c.sid] \cup c.entered \cup {None}
  /\ c.pc = "update" => c.held.waypoint \in visited[c.sid] \cup {None}
  /\ c.pc = "save" /\ c.task \in SensorTasks => visited[c.sid] # {}

PlaceInv ==
  /\ WaypointWasVisited
  /\ SensorsEarned
  /\ \A p \in Phones : Placed(call[p])

\* What a call carries to its announcement: the boundaries are those around the fix
\* it read, and only a call that finishes the run writes it finished and pays it out.
Carried(c) ==
  /\ c.entered \cup c.fresh # {} =>
       c.held.fix \in Places /\ c.entered \cup c.fresh \subseteq Inside[c.held.fix]
  /\ c.pc \in {"claim", "update"} => c.held.status # Finished
  /\ c.pc = "voucher" => c.arrived

CarriedInv == \A p \in Phones : Carried(call[p])

\* What every step preserves; the properties above follow from it.
IInv ==
  TypeInv /\ OneLive /\ EdgeInv /\ CreditInv /\ VoucherInv /\ GridInv /\ PlaceInv

=============================================================================
