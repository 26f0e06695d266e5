------------------------ MODULE RallySession_proofs ------------------------
(***************************************************************************)
(* Theorems of RallySession, for every set of phones, sessions, tasks and  *)
(* waypoints and every geography, and of MCRallyCalm's history of calls    *)
(* that come one at a time.                                                *)
(***************************************************************************)
EXTENDS MCRallyCalm, TLAPS

-----------------------------------------------------------------------------
(* Type correctness *)

\* The records the actions start from.
LEMMA BlankTypes == NoCall \in Call /\ NoRow \in Row /\ Bound \in Row
  BY DEF NoCall, Call, NoRow, Row, Status, Replies, Bound

\* A response carries no locals: its record is a well-typed call at rest.
LEMMA ReplyType ==
  ASSUME NEW r \in Replies
  PROVE  [NoCall EXCEPT !.pc = "reply", !.reply = r] \in Call
  BY DEF NoCall, Call, NoRow, Row, Status, Replies

\* Putting a well-formed record in a phone's place keeps all records so.
LEMMA ContinueType ==
  ASSUME TypeInv, NEW p \in Phones, NEW c \in Call, Continue(p, c), Shapely(c)
  PROVE  call' \in [Phones -> Call] /\ CallShape'
  <1>1. call \in [Phones -> Call]
    BY DEF TypeInv, TypeOK
  <1>2. call' = [call EXCEPT ![p] = c]
    BY DEF Continue
  <1>3. call' \in [Phones -> Call]
    BY <1>1, <1>2
  <1>4. CallShape'
    <2> SUFFICES ASSUME NEW q \in Phones
                 PROVE  Shapely(call'[q])
      BY DEF CallShape, Shapely
    <2>1. CASE q = p
      BY <1>1, <1>2, <2>1
    <2>2. CASE q # p
      BY <1>1, <1>2, <2>2 DEF TypeInv, CallShape
    <2> QED BY <2>1, <2>2
  <1> QED BY <1>3, <1>4

\* A handler that answers leaves every call record well-formed.
LEMMA RespondType ==
  ASSUME TypeInv, NEW p \in Phones, NEW r \in Replies, Respond(p, r)
  PROVE  call' \in [Phones -> Call] /\ CallShape'
  <1> DEFINE c == [NoCall EXCEPT !.pc = "reply", !.reply = r]
  <1>1. c \in Call
    BY ReplyType
  <1>2. c.pc = "reply" /\ c.fresh = {}
    BY DEF NoCall
  <1>3. Continue(p, c)
    BY DEF Respond
  <1> HIDE DEF c
  <1>4. Shapely(c)
    BY <1>2 DEF Shapely, Steps, JoinSteps
  <1> QED BY <1>1, <1>3, <1>4, ContinueType

\* Most requests start, and many fail, without touching a table.
LEMMA OnlyCallChanges ==
  ASSUME TypeInv, call' \in [Phones -> Call], CallShape',
         UNCHANGED <<tables, topics, token>>
  PROVE  TypeInv'
  BY DEF TypeInv, TypeOK, tables, topics

\* The empty database and the idle phones are well-typed.
LEMMA TypeInit == Init => TypeInv
  <1> SUFFICES ASSUME Init
               PROVE  TypeInv
    OBVIOUS
  <1>1. TypeOK
    BY BlankTypes DEF Init, TypeOK
  <1>2. CallShape
    BY DEF Init, CallShape, Shapely, NoCall, Steps, JoinSteps
  <1> QED BY <1>1, <1>2 DEF TypeInv

\* Join, from the request to the token, keeps rows, tokens and calls well-typed.
LEMMA TypeJoin ==
  ASSUME TypeInv, NEW p \in Phones,
         \/ JoinStart(p) \/ JoinFind(p) \/ JoinCreate(p)
         \/ JoinRefind(p) \/ JoinDevice(p)
  PROVE  TypeInv'
  <1> USE DEF At
  <1>0. call[p] \in Call /\ Shapely(call[p])
    BY DEF TypeInv, TypeOK, CallShape
  <1>1. CASE JoinStart(p)
    <2> DEFINE c == [NoCall EXCEPT !.pc = "find"]
    <2>1. c \in Call /\ Shapely(c)
      BY BlankTypes DEF Call, NoCall, Shapely, Steps, JoinSteps
    <2>2. Continue(p, c)
      BY <1>1 DEF JoinStart
    <2> HIDE DEF c
    <2>3. call' \in [Phones -> Call] /\ CallShape'
      BY <2>1, <2>2, ContinueType
    <2> QED BY <1>1, <2>3, OnlyCallChanges DEF JoinStart
  <1>2. ASSUME NEW s \in Sessions,
               Continue(p, [call[p] EXCEPT !.pc = "device", !.sid = s])
        PROVE  call' \in [Phones -> Call] /\ CallShape'
    <2> DEFINE c == [call[p] EXCEPT !.pc = "device", !.sid = s]
    <2>1. c \in Call /\ c.pc = "device" /\ c.sid \in Sessions
          /\ c.fresh = call[p].fresh /\ c.held = call[p].held
      BY <1>0 DEF Call, Steps, JoinSteps
    <2>2. Continue(p, c)
      BY <1>2
    <2> HIDE DEF c
    <2>3. Shapely(c)
      BY <1>0, <2>1 DEF Shapely
    <2> QED BY <2>1, <2>2, <2>3, ContinueType
  <1>3. ASSUME NEW step \in {"create", "refind"},
               Continue(p, [call[p] EXCEPT !.pc = step])
        PROVE  call' \in [Phones -> Call] /\ CallShape'
    <2> DEFINE c == [call[p] EXCEPT !.pc = step]
    <2>1. c \in Call /\ c.pc = step /\ c.fresh = call[p].fresh /\ c.held = call[p].held
      BY <1>0 DEF Call, Steps, JoinSteps
    <2>2. Continue(p, c)
      BY <1>3
    <2> HIDE DEF c
    <2>3. Shapely(c)
      BY <1>0, <2>1 DEF Shapely
    <2> QED BY <2>1, <2>2, <2>3, ContinueType
  <1>4. CASE JoinFind(p)
    <2>1. call' \in [Phones -> Call] /\ CallShape'
      BY <1>2, <1>3, <1>4 DEF JoinFind, LiveSessions
    <2> QED BY <1>4, <2>1, OnlyCallChanges DEF JoinFind
  <1>5. CASE JoinCreate(p)
    <2>1. call' \in [Phones -> Call] /\ CallShape'
      BY <1>2, <1>3, <1>5, RespondType DEF JoinCreate, Unused, Replies
    <2>2. row' \in [Sessions -> Row]
      BY <1>5, BlankTypes DEF JoinCreate, Unused, TypeInv, TypeOK
    <2> QED BY <1>5, <2>1, <2>2 DEF JoinCreate, TypeInv, TypeOK, topics
  <1>6. CASE JoinRefind(p)
    <2>1. call' \in [Phones -> Call] /\ CallShape'
      BY <1>2, <1>6, RespondType DEF JoinRefind, LiveSessions, Replies
    <2> QED BY <1>6, <2>1, OnlyCallChanges DEF JoinRefind
  <1>7. CASE JoinDevice(p)
    <2>1. call[p].sid \in Sessions
      BY <1>7 DEF JoinDevice, TypeInv, CallShape, Shapely, Steps, JoinSteps
    <2>2. call' \in [Phones -> Call] /\ CallShape'
      BY <1>7, RespondType DEF JoinDevice, Replies
    <2>3. device' \subseteq Sessions \X Phones
      BY <1>7, <2>1 DEF JoinDevice, TypeInv, TypeOK
    <2>4. token' \in [Phones -> Sessions \cup {None}]
      BY <1>7, <2>1 DEF JoinDevice, TypeInv, TypeOK
    <2> QED BY <1>7, <2>2, <2>3, <2>4 DEF JoinDevice, TypeInv, TypeOK, topics
  <1> QED BY <1>1, <1>4, <1>5, <1>6, <1>7

\* What Ping computes from a well-typed row is a well-typed call.
LEMMA PingCallType ==
  ASSUME NEW s \in Sessions, row[s] \in Row,
         NEW place \in Places, NEW plausible \in BOOLEAN,
         NEW waypoint \in CurrentWaypoint(row[s], place, plausible)
  PROVE  LET c == PingCall(s, place, plausible, waypoint) IN
         c \in Call /\ Shapely(c)
  <1> DEFINE entered == IF plausible THEN Inside[place] ELSE {}
             held == Moved(row[s], place, plausible, waypoint)
             c == [NoCall EXCEPT !.pc = IF entered = {} THEN "update" ELSE "claim",
                                 !.sid = s, !.held = held, !.entered = entered,
                                 !.arrived = plausible /\ place \in FinishPlaces]
  <1>1. Inside[place] \subseteq Waypoints
    BY ConstantsAssumption
  <1>2. waypoint \in Waypoints \cup {None}
    BY <1>1 DEF CurrentWaypoint, Row
  <1>3. held \in Row
    BY <1>2 DEF Moved, Row, Status
  <1>4. entered \subseteq Waypoints
    BY <1>1
  <1>5. c = PingCall(s, place, plausible, waypoint)
    BY DEF PingCall
  <1> HIDE DEF entered, held
  <1>6. c \in Call
    BY <1>3, <1>4, BlankTypes DEF Call, NoCall, Steps
  <1>7. c.sid = s /\ c.pc \in {"claim", "update"} /\ c.held = held
    BY DEF NoCall
  <1>8. held.fix = place
    BY DEF held, Moved, Row
  <1>9. Shapely(c)
    BY <1>7, <1>8 DEF Shapely
  <1> HIDE DEF c
  <1> QED BY <1>5, <1>6, <1>9

\* So do the reads with which Ping, Finish and SubmitTask begin.
LEMMA TypeStart ==
  ASSUME TypeInv, NEW p \in Phones,
         \/ \E place \in Places : PingStart(p, place)
         \/ FinishStart(p)
         \/ \E t \in Tasks : SubmitStart(p, t)
  PROVE  TypeInv'
  <1> USE DEF At
  <1> DEFINE s == token[p]
  <1>0. s \in Sessions \cup {None} /\ (s \in Sessions => row[s] \in Row)
    BY DEF TypeInv, TypeOK
  <1>1. CASE \E place \in Places : PingStart(p, place)
    <2> PICK place \in Places : PingStart(p, place)
      BY <1>1
    <2>1. CASE Respond(p, "finished")
      <3>1. call' \in [Phones -> Call] /\ CallShape'
        BY <2>1, RespondType DEF Replies
      <3> QED BY <3>1, OnlyCallChanges DEF PingStart
    <2>2. CASE ~Respond(p, "finished")
      <3>1. s \in Sessions
        BY <1>0 DEF PingStart
      <3>2. PICK plausible \in Plausibility(row[s], place) :
              \E waypoint \in CurrentWaypoint(row[s], place, plausible) :
                Continue(p, PingCall(s, place, plausible, waypoint))
        BY <2>2 DEF PingStart
      <3>3. PICK waypoint \in CurrentWaypoint(row[s], place, plausible) :
              Continue(p, PingCall(s, place, plausible, waypoint))
        BY <3>2
      <3>4. plausible \in BOOLEAN
        BY DEF Plausibility
      <3>5. /\ PingCall(s, place, plausible, waypoint) \in Call
            /\ Shapely(PingCall(s, place, plausible, waypoint))
        BY <1>0, <3>1, <3>4, PingCallType
      <3>6. call' \in [Phones -> Call] /\ CallShape'
        BY <3>3, <3>5, ContinueType
      <3> QED BY <3>6, OnlyCallChanges DEF PingStart
    <2> QED BY <2>1, <2>2
  <1>2. CASE FinishStart(p)
    <2>1. CASE Respond(p, "ok")
      <3>1. call' \in [Phones -> Call] /\ CallShape'
        BY <2>1, RespondType DEF Replies
      <3> QED BY <1>2, <3>1, OnlyCallChanges DEF FinishStart
    <2>2. CASE ~Respond(p, "ok")
      <3> DEFINE c == [NoCall EXCEPT
                        !.pc = "update", !.sid = s, !.held = row[s], !.arrived = TRUE]
      <3>1. s \in Sessions
        BY <1>0, <1>2 DEF FinishStart
      <3>2. Continue(p, c)
        BY <1>2, <2>2 DEF FinishStart
      <3>3. c \in Call
        BY <1>0, <3>1, BlankTypes DEF Call, NoCall, Steps
      <3>4. Shapely(c)
        BY <3>1 DEF NoCall, Shapely
      <3> HIDE DEF c
      <3>5. call' \in [Phones -> Call] /\ CallShape'
        BY <3>2, <3>3, <3>4, ContinueType
      <3> QED BY <1>2, <3>5, OnlyCallChanges DEF FinishStart
    <2> QED BY <2>1, <2>2
  <1>3. CASE \E t \in Tasks : SubmitStart(p, t)
    <2> PICK t \in Tasks : SubmitStart(p, t)
      BY <1>3
    <2> DEFINE c == [NoCall EXCEPT !.pc = "save", !.sid = s, !.task = t]
    <2>1. s \in Sessions
      BY <1>0 DEF SubmitStart
    <2>2. \/ \E r \in {"finished", "locked", "error"} : Respond(p, r)
          \/ Continue(p, c)
      BY DEF SubmitStart
    <2>3. c \in Call
      BY <2>1, BlankTypes DEF Call, NoCall, Steps
    <2>4. Shapely(c)
      BY <2>1 DEF NoCall, Shapely
    <2> HIDE DEF c
    <2>5. call' \in [Phones -> Call] /\ CallShape'
      BY <2>2, <2>3, <2>4, ContinueType, RespondType DEF Replies
    <2> QED BY <2>5, OnlyCallChanges DEF SubmitStart
  <1> QED BY <1>1, <1>2, <1>3

\* So do their writes and broadcasts, and the ways a call can end.
LEMMA TypeProgress ==
  ASSUME TypeInv, NEW p \in Phones,
         \/ PingClaim(p) \/ UpdateSession(p) \/ IssueVoucher(p) \/ Announce(p)
         \/ SaveSubmission(p) \/ PublishScore(p) \/ Return(p) \/ Abort(p)
  PROVE  TypeInv'
  <1> USE DEF At
  <1>0. call[p] \in Call /\ Shapely(call[p])
    BY DEF TypeInv, TypeOK, CallShape
  <1>1. call[p].pc \in {"claim", "update", "voucher", "announce", "save", "publish"}
          => call[p].sid \in Sessions
    BY DEF TypeInv, CallShape, Shapely, Steps, JoinSteps
  <1>2. ASSUME NEW c \in Call, Continue(p, c), c.sid \in Sessions, c.pc # "save",
               c.pc = "claim" \/ c.fresh # {} => c.held.fix \in Places
        PROVE  call' \in [Phones -> Call] /\ CallShape'
    BY <1>2, ContinueType DEF Shapely
  <1>3. CASE PingClaim(p)
    <2> PICK w \in call[p].entered :
          /\ visited' = [visited EXCEPT ![call[p].sid] = @ \cup {w}]
          /\ Continue(p, [call[p] EXCEPT
               !.pc = IF call[p].entered = {w} THEN "update" ELSE "claim",
               !.entered = @ \ {w},
               !.fresh = IF ClaimNew(call[p].sid, w) THEN @ \cup {w} ELSE @])
      BY <1>3 DEF PingClaim
    <2> DEFINE c == [call[p] EXCEPT
               !.pc = IF call[p].entered = {w} THEN "update" ELSE "claim",
               !.entered = @ \ {w},
               !.fresh = IF ClaimNew(call[p].sid, w) THEN @ \cup {w} ELSE @]
    <2>1. w \in Waypoints /\ call[p].sid \in Sessions
      BY <1>0, <1>1, <1>3 DEF PingClaim, Call
    <2>2. c \in Call
      BY <1>0, <2>1 DEF Call, Steps
    <2>3. c.sid \in Sessions /\ c.pc # "save" /\ c.held.fix \in Places
      BY <1>0, <1>3, <2>1 DEF Call, PingClaim, Shapely
    <2> HIDE DEF c
    <2>4. call' \in [Phones -> Call] /\ CallShape'
      BY <1>2, <2>2, <2>3 DEF c
    <2>5. visited' \in [Sessions -> SUBSET Waypoints]
      BY <2>1 DEF TypeInv, TypeOK
    <2>6. UNCHANGED <<row, device, answer, voucher, opened, unlocked, told, published, token>>
      BY <1>3 DEF PingClaim, topics
    <2> QED BY <2>4, <2>5, <2>6 DEF TypeInv, TypeOK
  <1>4. CASE UpdateSession(p)
    <2>1. call[p].sid \in Sessions
      BY <1>1, <1>4 DEF UpdateSession
    <2>2. ToWrite(call[p]) \in Row
      BY <1>0 DEF ToWrite, Call, Row, Status, Finished
    <2>3. row' \in [Sessions -> Row]
      BY <1>4, <2>1, <2>2 DEF UpdateSession, TypeInv, TypeOK
    <2> DEFINE c == [call[p] EXCEPT !.pc = AfterUpdate(call[p].arrived)]
    <2>4. /\ c \in Call /\ c.sid \in Sessions /\ c.pc \notin {"save", "claim"}
          /\ c.fresh # {} => c.held.fix \in Places
      BY <1>0, <2>1 DEF Call, Steps, AfterUpdate, Shapely
    <2>5. Respond(p, "error") \/ Continue(p, c)
      BY <1>4 DEF UpdateSession
    <2> HIDE DEF c
    <2>6. call' \in [Phones -> Call] /\ CallShape'
      BY <1>2, <2>4, <2>5, RespondType DEF Replies
    <2>7. UNCHANGED <<device, visited, answer, voucher, opened, unlocked, told, published, token>>
      BY <1>4 DEF UpdateSession, topics
    <2> QED BY <2>3, <2>6, <2>7 DEF TypeInv, TypeOK
  <1>5. CASE IssueVoucher(p)
    <2> DEFINE c == [call[p] EXCEPT !.pc = "announce"]
    <2>1. call[p].sid \in Sessions
      BY <1>1, <1>5 DEF IssueVoucher
    <2>2. /\ c \in Call /\ c.sid \in Sessions /\ c.pc \notin {"save", "claim"}
          /\ c.fresh # {} => c.held.fix \in Places
      BY <1>0, <2>1 DEF Call, Steps, Shapely
    <2>3. Continue(p, c)
      BY <1>5 DEF IssueVoucher
    <2> HIDE DEF c
    <2>4. call' \in [Phones -> Call] /\ CallShape'
      BY <1>2, <2>2, <2>3
    <2> QED BY <1>5, <2>1, <2>4 DEF IssueVoucher, TypeInv, TypeOK, topics
  <1>6. CASE Announce(p)
    <2>1. call[p].sid \in Sessions /\ Kept(call[p]) \subseteq Waypoints
      BY <1>0, <1>1, <1>6 DEF Announce, Kept, Call
    <2>2. call' \in [Phones -> Call] /\ CallShape'
      BY <1>6, RespondType DEF Announce, Replies
    <2>3. opened' \in [Sessions -> SUBSET Waypoints] /\ told' \subseteq Sessions
      BY <1>6, <2>1 DEF Announce, TypeInv, TypeOK
    <2>5. Unlocked(call[p]) \subseteq Waypoints
      BY <1>0, ConstantsAssumption DEF Unlocked, Kept, Shapely
    <2>6. unlocked' \in [Sessions -> SUBSET Waypoints]
      BY <1>6, <2>1, <2>5 DEF Announce, TypeInv, TypeOK
    <2>4. UNCHANGED <<row, device, visited, answer, voucher, published, token>>
      BY <1>6 DEF Announce, tables
    <2> QED BY <2>2, <2>3, <2>4, <2>6 DEF TypeInv, TypeOK
  <1>7. CASE SaveSubmission(p)
    <2> DEFINE s == call[p].sid
               t == call[p].task
               c == [call[p] EXCEPT !.pc = "publish", !.total = SumOf(s, t)]
    <2>1. s \in Sessions /\ t \in Tasks
      BY <1>7 DEF SaveSubmission, TypeInv, CallShape, Shapely, Steps
    <2>2. SumOf(s, t) \subseteq Tasks
      BY <2>1 DEF SumOf, Answered
    <2>3. /\ c \in Call /\ c.sid \in Sessions /\ c.pc \notin {"save", "claim"}
          /\ c.fresh # {} => c.held.fix \in Places
      BY <1>0, <2>1, <2>2 DEF Call, Steps, Shapely
    <2>4. \/ Respond(p, "claimed") /\ UNCHANGED <<answer, row>>
          \/ /\ answer' = [answer EXCEPT ![s][t] = p]
             /\ row' = [row EXCEPT ![s].total = SumOf(s, t)]
             /\ Continue(p, c)
      BY <1>7 DEF SaveSubmission
    <2> HIDE DEF c
    <2>5. call' \in [Phones -> Call] /\ CallShape'
      BY <1>2, <2>3, <2>4, RespondType DEF Replies
    <2> HIDE DEF s, t
    <2>6. answer' \in [Sessions -> [Tasks -> Phones \cup {None}]]
      <3>1. answer \in [Sessions -> [Tasks -> Phones \cup {None}]]
        BY DEF TypeInv, TypeOK
      <3>2. \/ answer' = answer
            \/ answer' = [answer EXCEPT ![s] = [answer[s] EXCEPT ![t] = p]]
        BY <2>4
      <3>3. answer[s] \in [Tasks -> Phones \cup {None}]
        BY <2>1, <3>1
      <3>4. [answer[s] EXCEPT ![t] = p] \in [Tasks -> Phones \cup {None}]
        BY <2>1, <3>3
      <3> QED BY <2>1, <3>1, <3>2, <3>4
    <2>7. row' \in [Sessions -> Row]
      <3>1. row \in [Sessions -> Row]
        BY DEF TypeInv, TypeOK
      <3>2. \/ row' = row
            \/ row' = [row EXCEPT ![s] = [row[s] EXCEPT !.total = SumOf(s, t)]]
        BY <2>4
      <3>3. [row[s] EXCEPT !.total = SumOf(s, t)] \in Row
        BY <2>1, <2>2, <3>1 DEF Row
      <3> QED BY <2>1, <3>1, <3>2, <3>3
    <2>8. UNCHANGED <<device, visited, voucher, opened, unlocked, told, published, token>>
      BY <1>7 DEF SaveSubmission, topics
    <2> QED BY <2>5, <2>6, <2>7, <2>8 DEF TypeInv, TypeOK
  <1>8. CASE PublishScore(p)
    <2>1. call[p].sid \in Sessions /\ call[p].total \subseteq Tasks
      BY <1>0, <1>1, <1>8 DEF PublishScore, Call
    <2>2. call' \in [Phones -> Call] /\ CallShape'
      BY <1>8, RespondType DEF PublishScore, Replies
    <2>3. published' \in [Sessions -> SUBSET Tasks]
      BY <1>8, <2>1 DEF PublishScore, TypeInv, TypeOK
    <2> QED BY <1>8, <2>2, <2>3 DEF PublishScore, TypeInv, TypeOK, tables
  <1>9. CASE Return(p)
    <2>1. Shapely(NoCall)
      BY DEF NoCall, Shapely, Steps, JoinSteps
    <2>2. call' \in [Phones -> Call] /\ CallShape'
      BY <1>9, <2>1, BlankTypes, ContinueType DEF Return
    <2> QED BY <1>9, <2>2, OnlyCallChanges DEF Return
  <1>10. CASE Abort(p)
    <2>1. call' \in [Phones -> Call] /\ CallShape'
      BY <1>10, RespondType DEF Abort, Replies
    <2> QED BY <1>10, <2>1, OnlyCallChanges DEF Abort
  <1> QED BY <1>3, <1>4, <1>5, <1>6, <1>7, <1>8, <1>9, <1>10

\* So every step does.
LEMMA TypeNext == TypeInv /\ [Next]_vars => TypeInv'
  <1> SUFFICES ASSUME TypeInv, [Next]_vars
               PROVE  TypeInv'
    OBVIOUS
  <1>1. CASE Next
    BY <1>1, TypeJoin, TypeStart, TypeProgress DEF Next, Request, Step
  <1>2. CASE UNCHANGED vars
    BY <1>2 DEF vars, TypeInv, TypeOK, CallShape
  <1> QED BY <1>1, <1>2

\* Every reachable state has well-typed tables, tokens, topics and call
\* records, for any number of phones, sessions, tasks and waypoints.
THEOREM TypeCorrect == Spec => []TypeOK
  <1>1. Spec => []TypeInv
    BY TypeInit, TypeNext, PTL DEF Spec
  <1>2. TypeInv => TypeOK
    BY DEF TypeInv
  <1> QED BY <1>1, <1>2, PTL

-----------------------------------------------------------------------------
(* What a step does to the call records *)

\* A step of one phone's request leaves the other phones' calls alone.
LEMMA ContinueEffect ==
  ASSUME TypeInv, NEW p \in Phones, NEW c, Continue(p, c)
  PROVE  call'[p] = c /\ \A q \in Phones \ {p} : call'[q] = call[q]
  BY DEF TypeInv, TypeOK, Continue

\* After a handler answers, its call holds no locals and no other call changed.
LEMMA RespondEffect ==
  ASSUME TypeInv, NEW p \in Phones, NEW r, Respond(p, r)
  PROVE  /\ call'[p].pc = "reply" /\ call'[p].fresh = {} /\ call'[p].sid = None
         /\ \A q \in Phones \ {p} : call'[q] = call[q]
  <1> DEFINE c == [NoCall EXCEPT !.pc = "reply", !.reply = r]
  <1>1. Continue(p, c)
    BY DEF Respond
  <1>2. c.pc = "reply" /\ c.fresh = {} /\ c.sid = None
    BY DEF NoCall
  <1> HIDE DEF c
  <1> QED BY <1>1, <1>2, ContinueEffect

\* The locals of a ping, without the record that builds them.
LEMMA PingCallFields ==
  ASSUME NEW s, NEW place, NEW plausible, NEW waypoint
  PROVE  LET c == PingCall(s, place, plausible, waypoint) IN
         /\ c.sid = s
         /\ c.pc \in {"claim", "update"}
         /\ c.fresh = {}
         /\ c.held = Moved(row[s], place, plausible, waypoint)
  BY DEF PingCall, NoCall

-----------------------------------------------------------------------------
(* One live run *)

\* The unique index keeps a second row of the vehicle from becoming live.
LEMMA OneLiveNext == IInv /\ [Next]_vars => OneLive'
  <1> SUFFICES ASSUME IInv, [Next]_vars
               PROVE  OneLive'
    OBVIOUS
  <1>1. row \in [Sessions -> Row]
    BY DEF IInv, TypeInv, TypeOK
  <1>2. ASSUME NEW s \in Sessions, NEW r, ~Collides(s, r), row' = [row EXCEPT ![s] = r]
        PROVE  OneLive'
    BY <1>1, <1>2 DEF IInv, OneLive, Collides, Live
  <1>3. CASE UNCHANGED row
    BY <1>3 DEF IInv, OneLive, Live
  <1>4. ASSUME NEW p \in Phones, JoinCreate(p)
        PROVE  OneLive'
    BY <1>2, <1>3, <1>4 DEF JoinCreate, Unused
  <1>5. ASSUME NEW p \in Phones, UpdateSession(p)
        PROVE  OneLive'
    <2>1. call[p].sid \in Sessions
      BY <1>5 DEF UpdateSession, At, IInv, TypeInv, CallShape, Shapely, Steps
    <2> QED BY <1>2, <1>3, <1>5, <2>1 DEF UpdateSession
  <1>6. ASSUME NEW p \in Phones, SaveSubmission(p)
        PROVE  OneLive'
    <2>1. CASE row' = [row EXCEPT ![call[p].sid].total = SumOf(call[p].sid, call[p].task)]
      <3>1. \A s \in Sessions : row'[s].status = row[s].status
        BY <1>1, <2>1 DEF Row
      <3> QED BY <3>1 DEF IInv, OneLive, Live
    <2> QED BY <1>3, <1>6, <2>1 DEF SaveSubmission
  <1>7. CASE UNCHANGED vars
    BY <1>3, <1>7 DEF vars
  <1>8. ASSUME NEW p \in Phones,
               \/ Request(p) \/ Abort(p) \/ JoinFind(p) \/ JoinRefind(p) \/ JoinDevice(p)
               \/ PingClaim(p) \/ IssueVoucher(p) \/ Announce(p) \/ PublishScore(p)
               \/ Return(p)
        PROVE  UNCHANGED row
    BY <1>8 DEF Request, JoinStart, PingStart, FinishStart, SubmitStart, Abort, JoinFind,
                JoinRefind, JoinDevice, PingClaim, IssueVoucher, Announce, PublishScore,
                Return, tables
  <1> QED BY <1>3, <1>4, <1>5, <1>6, <1>7, <1>8 DEF Next, Step

-----------------------------------------------------------------------------
(* Boundaries unlock once *)

\* Steps that neither claim nor announce leave p with nothing fresh, or with
\* what it had.
LEMMA FreshAfterStep ==
  ASSUME IInv, NEW p \in Phones,
         \/ Request(p) \/ Abort(p) \/ JoinFind(p) \/ JoinCreate(p) \/ JoinRefind(p)
         \/ JoinDevice(p) \/ SaveSubmission(p) \/ PublishScore(p) \/ Return(p)
  PROVE  /\ call'[p].fresh = {}
         /\ \A q \in Phones \ {p} : call'[q] = call[q]
         /\ UNCHANGED <<visited, opened>>
  <1> USE DEF IInv, At
  <1>0. TypeInv
    OBVIOUS
  <1>1. call[p].pc \in {"find", "create", "refind", "save"} => call[p].fresh = {}
    BY DEF EdgeInv
  <1>2. ASSUME NEW r, Respond(p, r)
        PROVE  call'[p].fresh = {} /\ \A q \in Phones \ {p} : call'[q] = call[q]
    BY <1>0, <1>2, RespondEffect
  <1>3. ASSUME NEW c, Continue(p, c), c.fresh = {}
        PROVE  call'[p].fresh = {} /\ \A q \in Phones \ {p} : call'[q] = call[q]
    BY <1>0, <1>3, ContinueEffect
  <1>4. ASSUME NEW s, NEW step
        PROVE  /\ [call[p] EXCEPT !.pc = step, !.sid = s].fresh = call[p].fresh
               /\ [call[p] EXCEPT !.pc = step].fresh = call[p].fresh
    BY <1>0 DEF TypeInv, TypeOK, Call
  <1>5. CASE JoinStart(p) \/ FinishStart(p) \/ \E t \in Tasks : SubmitStart(p, t)
    <2>1. ASSUME NEW s, NEW h, NEW t
          PROVE  /\ [NoCall EXCEPT !.pc = "find"].fresh = {}
                 /\ [NoCall EXCEPT !.pc = "update", !.sid = s, !.held = h,
                                   !.arrived = TRUE].fresh = {}
                 /\ [NoCall EXCEPT !.pc = "save", !.sid = s, !.task = t].fresh = {}
      BY DEF NoCall
    <2> QED BY <1>2, <1>3, <1>5, <2>1 DEF JoinStart, FinishStart, SubmitStart, tables, topics
  <1>6. CASE \E place \in Places : PingStart(p, place)
    BY <1>2, <1>3, <1>6, PingCallFields DEF PingStart, tables, topics
  <1>7. CASE JoinFind(p) \/ JoinCreate(p) \/ JoinRefind(p) \/ JoinDevice(p)
    BY <1>1, <1>2, <1>3, <1>4, <1>7
       DEF JoinFind, JoinCreate, JoinRefind, JoinDevice, tables, topics
  <1>8. CASE SaveSubmission(p)
    <2>1. ASSUME NEW s, NEW t
          PROVE  [call[p] EXCEPT !.pc = "publish", !.total = SumOf(s, t)].fresh = call[p].fresh
      BY <1>0 DEF TypeInv, TypeOK, Call
    <2> QED BY <1>1, <1>2, <1>3, <1>8, <2>1 DEF SaveSubmission, topics
  <1>9. CASE PublishScore(p) \/ Abort(p)
    BY <1>2, <1>9 DEF PublishScore, Abort, tables, topics
  <1>10. CASE Return(p)
    <2>1. NoCall.fresh = {}
      BY DEF NoCall
    <2> QED BY <1>3, <1>10, <2>1 DEF Return, tables, topics
  <1> QED BY <1>5, <1>6, <1>7, <1>8, <1>9, <1>10 DEF Request

\* Fresh boundaries stay visited, unannounced and held by a single call.
LEMMA EdgeNext == IInv /\ [Next]_vars => EdgeInv'
  <1> SUFFICES ASSUME IInv, [Next]_vars
               PROVE  EdgeInv'
    OBVIOUS
  <1> USE DEF At
  <1>0. TypeInv /\ EdgeInv
    BY DEF IInv
  <1>a. /\ call \in [Phones -> Call]
        /\ visited \in [Sessions -> SUBSET Waypoints]
        /\ opened \in [Sessions -> SUBSET Waypoints]
    BY <1>0 DEF TypeInv, TypeOK
  <1>1. ASSUME NEW p \in Phones, call'[p].fresh = {},
               \A q \in Phones \ {p} : call'[q] = call[q],
               UNCHANGED <<visited, opened>>
        PROVE  EdgeInv'
    BY <1>0, <1>1 DEF EdgeInv
  <1>2. ASSUME NEW p \in Phones, PingClaim(p)
        PROVE  EdgeInv'
    <2> DEFINE s == call[p].sid
    <2> PICK w \in call[p].entered :
          /\ visited' = [visited EXCEPT ![s] = @ \cup {w}]
          /\ Continue(p, [call[p] EXCEPT
               !.pc = IF call[p].entered = {w} THEN "update" ELSE "claim",
               !.entered = @ \ {w},
               !.fresh = IF ClaimNew(s, w) THEN @ \cup {w} ELSE @])
      BY <1>2 DEF PingClaim
    <2> DEFINE c == [call[p] EXCEPT
               !.pc = IF call[p].entered = {w} THEN "update" ELSE "claim",
               !.entered = @ \ {w},
               !.fresh = IF ClaimNew(s, w) THEN @ \cup {w} ELSE @]
    <2>1. s \in Sessions
      BY <1>0, <1>2 DEF PingClaim, TypeInv, CallShape, Shapely, Steps
    <2>2. /\ c.sid = s /\ c.pc \in {"claim", "update"}
          /\ c.fresh = IF w \notin visited[s] THEN call[p].fresh \cup {w} ELSE call[p].fresh
      BY <1>a DEF Call, ClaimNew
    <2> HIDE DEF c
    <2>3. call'[p] = c /\ \A q \in Phones \ {p} : call'[q] = call[q]
      BY <1>0, ContinueEffect DEF c
    <2>4. opened' = opened
      BY <1>2 DEF PingClaim, topics
    <2>5. /\ visited'[s] = visited[s] \cup {w}
          /\ \A o \in Sessions \ {s} : visited'[o] = visited[o]
      BY <1>a, <2>1
    <2> HIDE DEF s
    <2>6. \A o \in Sessions : opened'[o] \subseteq visited'[o]
      BY <1>0, <2>1, <2>4, <2>5 DEF EdgeInv
    <2>7. ASSUME NEW q \in Phones, call'[q].fresh # {}
          PROVE  /\ call'[q].pc \in {"claim", "update", "voucher", "announce"}
                 /\ call'[q].fresh \subseteq visited'[call'[q].sid] \ opened'[call'[q].sid]
      <3>1. CASE q = p
        <4>1. call[p].fresh \subseteq visited[s] \ opened[s]
          BY <1>0 DEF EdgeInv, s
        <4>2. w \notin visited[s] => w \notin opened[s]
          BY <1>0, <2>1 DEF EdgeInv
        <4> QED BY <2>2, <2>3, <2>4, <2>5, <3>1, <4>1, <4>2
      <3>2. CASE q # p
        <4>1. /\ call'[q] = call[q]
              /\ call[q].pc \in {"claim", "update", "voucher", "announce"}
              /\ call[q].fresh \subseteq visited[call[q].sid] \ opened[call[q].sid]
          BY <1>0, <2>3, <2>7, <3>2 DEF EdgeInv
        <4>2. call[q].sid \in Sessions
          BY <1>0, <4>1 DEF TypeInv, CallShape, Shapely, Steps
        <4> QED BY <2>4, <2>5, <4>1, <4>2
      <3> QED BY <3>1, <3>2
    <2>8. ASSUME NEW q \in Phones, q # p, call[q].sid = s
          PROVE  call'[p].fresh \cap call'[q].fresh = {}
      <3>1. call'[q] = call[q] /\ call[p].fresh \cap call[q].fresh = {}
        BY <1>0, <2>3, <2>8 DEF EdgeInv, s
      <3>2. call[q].fresh \subseteq visited[s]
        BY <1>0, <2>8 DEF EdgeInv
      <3> QED BY <2>2, <2>3, <3>1, <3>2
    <2>9. ASSUME NEW q \in Phones, NEW r \in Phones, q # r, call'[q].sid = call'[r].sid
          PROVE  call'[q].fresh \cap call'[r].fresh = {}
      <3>1. CASE q = p
        BY <2>2, <2>3, <2>8, <2>9, <3>1
      <3>2. CASE r = p
        BY <2>2, <2>3, <2>8, <2>9, <3>2
      <3>3. CASE q # p /\ r # p
        BY <1>0, <2>3, <2>9, <3>3 DEF EdgeInv
      <3> QED BY <3>1, <3>2, <3>3
    <2> QED BY <2>6, <2>7, <2>9 DEF EdgeInv
  <1>3. ASSUME NEW p \in Phones, UpdateSession(p) \/ IssueVoucher(p)
        PROVE  EdgeInv'
    <2>1. UNCHANGED <<visited, opened>>
      BY <1>3 DEF UpdateSession, IssueVoucher, topics
    <2>2. CASE Respond(p, "error")
      BY <1>0, <1>1, <2>1, <2>2, RespondEffect
    <2>3. CASE \E step \in {"voucher", "announce"} : Continue(p, [call[p] EXCEPT !.pc = step])
      <3> PICK step \in {"voucher", "announce"} : Continue(p, [call[p] EXCEPT !.pc = step])
        BY <2>3
      <3> DEFINE c == [call[p] EXCEPT !.pc = step]
      <3>1. c.pc = step /\ c.sid = call[p].sid /\ c.fresh = call[p].fresh
        BY <1>a DEF Call
      <3> HIDE DEF c
      <3>2. call'[p] = c /\ \A q \in Phones \ {p} : call'[q] = call[q]
        BY <1>0, ContinueEffect DEF c
      <3> QED BY <1>0, <2>1, <3>1, <3>2 DEF EdgeInv
    <2> QED BY <1>3, <2>2, <2>3 DEF UpdateSession, IssueVoucher, AfterUpdate
  <1>4. ASSUME NEW p \in Phones, Announce(p)
        PROVE  EdgeInv'
    <2>1. call[p].sid \in Sessions
      BY <1>0, <1>4 DEF Announce, TypeInv, CallShape, Shapely, Steps
    <2>2. call'[p].fresh = {} /\ \A q \in Phones \ {p} : call'[q] = call[q]
      BY <1>0, <1>4, RespondEffect DEF Announce
    <2>3. visited' = visited
      BY <1>4 DEF Announce, tables
    <2>4. /\ opened'[call[p].sid] = opened[call[p].sid] \cup call[p].fresh
          /\ \A o \in Sessions \ {call[p].sid} : opened'[o] = opened[o]
      BY <1>a, <1>4, <2>1 DEF Announce, Kept
    <2>5. call[p].fresh \subseteq visited[call[p].sid]
      BY <1>0 DEF EdgeInv
    <2>6. \A o \in Sessions : opened'[o] \subseteq visited'[o]
      BY <1>0, <2>3, <2>4, <2>5 DEF EdgeInv
    <2>7. ASSUME NEW q \in Phones, call'[q].fresh # {}
          PROVE  /\ call'[q].pc \in {"claim", "update", "voucher", "announce"}
                 /\ call'[q].fresh \subseteq visited'[call'[q].sid] \ opened'[call'[q].sid]
      <3>1. /\ q # p /\ call'[q] = call[q]
            /\ call[q].pc \in {"claim", "update", "voucher", "announce"}
            /\ call[q].fresh \subseteq visited[call[q].sid] \ opened[call[q].sid]
        BY <1>0, <2>2, <2>7 DEF EdgeInv
      <3>2. call[q].sid \in Sessions
        BY <1>0, <3>1 DEF TypeInv, CallShape, Shapely, Steps
      <3>3. call[q].sid = call[p].sid => call[p].fresh \cap call[q].fresh = {}
        BY <1>0, <3>1 DEF EdgeInv
      <3> QED BY <2>3, <2>4, <3>1, <3>2, <3>3
    <2>8. ASSUME NEW q \in Phones, NEW r \in Phones, q # r, call'[q].sid = call'[r].sid
          PROVE  call'[q].fresh \cap call'[r].fresh = {}
      BY <1>0, <2>2, <2>8 DEF EdgeInv
    <2> QED BY <2>6, <2>7, <2>8 DEF EdgeInv
  <1>5. CASE UNCHANGED vars
    BY <1>0, <1>5 DEF vars, EdgeInv
  <1> QED BY <1>1, <1>2, <1>3, <1>4, <1>5, FreshAfterStep DEF Next, Step

-----------------------------------------------------------------------------
(* Only stored answers are credited *)

\* An answer, once stored, stays.
LEMMA AnswersStay ==
  ASSUME IInv, [Next]_vars, NEW s \in Sessions, NEW t \in Tasks, answer[s][t] # None
  PROVE  answer'[s][t] = answer[s][t]
  <1>1. CASE UNCHANGED answer
    BY <1>1
  <1>2. ASSUME NEW p \in Phones, SaveSubmission(p)
        PROVE  answer'[s][t] = answer[s][t]
    <2> DEFINE o == call[p].sid
               u == call[p].task
    <2>1. o \in Sessions /\ u \in Tasks
      BY <1>2 DEF SaveSubmission, At, IInv, TypeInv, CallShape, Shapely, Steps
    <2>2. answer \in [Sessions -> [Tasks -> Phones \cup {None}]]
      BY DEF IInv, TypeInv, TypeOK
    <2>3. CASE answer[o][u] = None /\ answer' = [answer EXCEPT ![o][u] = p]
      BY <2>1, <2>2, <2>3
    <2> QED BY <1>1, <1>2, <2>3 DEF SaveSubmission, Claimed
  <1>3. CASE UNCHANGED vars
    BY <1>1, <1>3 DEF vars
  <1>4. ASSUME NEW p \in Phones,
               \/ Request(p) \/ Abort(p) \/ JoinFind(p) \/ JoinCreate(p) \/ JoinRefind(p)
               \/ JoinDevice(p) \/ PingClaim(p) \/ UpdateSession(p) \/ IssueVoucher(p)
               \/ Announce(p) \/ PublishScore(p) \/ Return(p)
        PROVE  UNCHANGED answer
    BY <1>4 DEF Request, JoinStart, PingStart, FinishStart, SubmitStart, Abort, JoinFind,
                JoinCreate, JoinRefind, JoinDevice, PingClaim, UpdateSession, IssueVoucher,
                Announce, PublishScore, Return, tables
  <1> QED BY <1>1, <1>2, <1>3, <1>4 DEF Next, Step

\* The tasks a session has answered only grow.
LEMMA AnsweredGrows ==
  ASSUME IInv, [Next]_vars, NEW s \in Sessions
  PROVE  Answered(s) \subseteq Answered(s)'
  <1>1. None \notin Phones
    BY ConstantsAssumption
  <1> QED BY <1>1, AnswersStay DEF Answered

\* What the phones hold, when only p's call moved and what it holds now counts
\* stored answers.
LEMMA CreditFrame ==
  ASSUME IInv, [Next]_vars, NEW p \in Phones,
         \A q \in Phones \ {p} : call'[q] = call[q],
         Credited(call[p])'
  PROVE  \A q \in Phones : Credited(call[q])'
  <1> SUFFICES ASSUME NEW q \in Phones \ {p}
               PROVE  Credited(call[q])'
    OBVIOUS
  <1> DEFINE c == call[q]
  <1>1. call'[q] = c
    OBVIOUS
  <1>2. Credited(c)
    BY DEF IInv, CreditInv
  <1>3. c.pc \in {"claim", "update", "publish"} => c.sid \in Sessions
    BY DEF IInv, TypeInv, CallShape, Shapely, Steps, JoinSteps
  <1>4. ASSUME NEW o \in Sessions
        PROVE  Answered(o) \subseteq Answered(o)'
    BY AnsweredGrows
  <1>5. PICK o : o = c.sid
    OBVIOUS
  <1>6. /\ c.pc \in {"claim", "update"} => c.held.total \subseteq Answered(o)'
        /\ c.pc = "publish" => c.total \subseteq Answered(o)'
    BY <1>2, <1>3, <1>4, <1>5 DEF Credited
  <1>7. Answered(call[q].sid)' = Answered(o)'
    BY <1>1, <1>5 DEF Answered
  <1> QED BY <1>1, <1>6, <1>7 DEF Credited

\* Steps after which p is not about to write, store, announce or publish.
LEMMA PcElsewhere ==
  ASSUME IInv, NEW p \in Phones,
         \/ JoinStart(p) \/ JoinFind(p) \/ JoinCreate(p) \/ JoinRefind(p) \/ JoinDevice(p)
         \/ Announce(p) \/ PublishScore(p) \/ Abort(p) \/ Return(p)
  PROVE  /\ call'[p].pc \notin {"claim", "update", "save", "publish", "announce"}
         /\ \A q \in Phones \ {p} : call'[q] = call[q]
  <1>0. TypeInv /\ call[p] \in Call
    BY DEF IInv, TypeInv, TypeOK
  <1>1. ASSUME NEW r, Respond(p, r)
        PROVE  /\ call'[p].pc \notin {"claim", "update", "save", "publish", "announce"}
               /\ \A q \in Phones \ {p} : call'[q] = call[q]
    BY <1>0, <1>1, RespondEffect
  <1>2. ASSUME NEW c, Continue(p, c), c.pc \notin {"claim", "update", "save", "publish", "announce"}
        PROVE  /\ call'[p].pc \notin {"claim", "update", "save", "publish", "announce"}
               /\ \A q \in Phones \ {p} : call'[q] = call[q]
    BY <1>0, <1>2, ContinueEffect
  <1>3. [NoCall EXCEPT !.pc = "find"].pc = "find" /\ NoCall.pc = "idle"
    BY DEF NoCall
  <1>4. ASSUME NEW s, NEW step
        PROVE  /\ [call[p] EXCEPT !.pc = step, !.sid = s].pc = step
               /\ [call[p] EXCEPT !.pc = step].pc = step
    BY <1>0 DEF Call
  <1>5. CASE JoinStart(p) \/ Return(p)
    BY <1>1, <1>2, <1>3, <1>5 DEF JoinStart, Return
  <1>6. CASE JoinFind(p) \/ JoinCreate(p) \/ JoinRefind(p)
    <2>1. ASSUME NEW s \in Sessions,
                 Continue(p, [call[p] EXCEPT !.pc = "device", !.sid = s])
          PROVE  /\ call'[p].pc \notin {"claim", "update", "save", "publish", "announce"}
                 /\ \A q \in Phones \ {p} : call'[q] = call[q]
      <3> DEFINE c == [call[p] EXCEPT !.pc = "device", !.sid = s]
      <3>1. c.pc = "device"
        BY <1>4
      <3>2. Continue(p, c)
        BY <2>1
      <3> HIDE DEF c
      <3> QED BY <1>2, <3>1, <3>2
    <2>2. ASSUME NEW step \in {"create", "refind"},
                 Continue(p, [call[p] EXCEPT !.pc = step])
          PROVE  /\ call'[p].pc \notin {"claim", "update", "save", "publish", "announce"}
                 /\ \A q \in Phones \ {p} : call'[q] = call[q]
      BY <1>2, <1>4, <2>2
    <2> QED BY <1>1, <1>6, <2>1, <2>2
            DEF JoinFind, JoinCreate, JoinRefind, LiveSessions, Unused
  <1>7. CASE JoinDevice(p) \/ Announce(p) \/ PublishScore(p) \/ Abort(p)
    BY <1>1, <1>7 DEF JoinDevice, Announce, PublishScore, Abort
  <1> QED BY <1>5, <1>6, <1>7

\* SubmitTask's first reads either answer or go on to store the attempt.
LEMMA SubmitEffect ==
  ASSUME IInv, NEW p \in Phones, NEW t \in Tasks, SubmitStart(p, t)
  PROVE  /\ \A q \in Phones \ {p} : call'[q] = call[q]
         /\ \/ call'[p].pc = "reply"
            \/ /\ call'[p].pc = "save" /\ call'[p].task = t
               /\ call'[p].sid = token[p] /\ token[p] \in Sessions
               /\ Reachable(token[p], t)
  <1> DEFINE s == token[p]
             c == [NoCall EXCEPT !.pc = "save", !.sid = s, !.task = t]
  <1>0. TypeInv /\ s \in Sessions
    BY DEF IInv, TypeInv, TypeOK, SubmitStart
  <1>1. \/ \E r \in {"finished", "locked", "error"} : Respond(p, r)
        \/ Continue(p, c) /\ Reachable(s, t)
    BY DEF SubmitStart
  <1>2. c.pc = "save" /\ c.task = t /\ c.sid = s
    BY DEF NoCall
  <1> HIDE DEF c
  <1> QED BY <1>0, <1>1, <1>2, RespondEffect, ContinueEffect

\* No step makes a stored, held or published total count an answer that is not
\* stored.
LEMMA CreditNext == IInv /\ [Next]_vars => CreditInv'
  <1> SUFFICES ASSUME IInv, [Next]_vars
               PROVE  CreditInv'
    OBVIOUS
  <1> USE DEF At
  <1>0. TypeInv /\ CreditInv
    BY DEF IInv
  <1>a. /\ call \in [Phones -> Call] /\ row \in [Sessions -> Row]
        /\ published \in [Sessions -> SUBSET Tasks]
    BY <1>0 DEF TypeInv, TypeOK
  <1>b. \A s \in Sessions : Answered(s) \subseteq Answered(s)'
    BY AnsweredGrows
  \* What is stored and published.
  <1>1. NeverOverCredited'
    <2>1. ASSUME NEW s \in Sessions, row'[s].total \subseteq Answered(s)',
                 \A o \in Sessions \ {s} : row'[o].total = row[o].total,
                 UNCHANGED published
          PROVE  NeverOverCredited'
      BY <1>0, <1>b, <2>1 DEF CreditInv, NeverOverCredited
    <2>2. CASE UNCHANGED <<row, published>>
      BY <1>0, <1>b, <2>2 DEF CreditInv, NeverOverCredited
    <2>3. ASSUME NEW p \in Phones, JoinCreate(p)
          PROVE  NeverOverCredited'
      <3>1. published' = published
        BY <2>3 DEF JoinCreate, topics
      <3>2. Bound.total = {}
        BY DEF Bound, NoRow
      <3> QED BY <1>a, <2>1, <2>2, <2>3, <3>1, <3>2 DEF JoinCreate, Unused
    <2>4. ASSUME NEW p \in Phones, UpdateSession(p)
          PROVE  NeverOverCredited'
      <3> DEFINE c == call[p]
      <3>1. c \in Call /\ c.sid \in Sessions
        BY <1>0, <1>a, <2>4 DEF UpdateSession, TypeInv, CallShape, Shapely, Steps
      <3>2. ToWrite(c).total = c.held.total
        BY <3>1 DEF ToWrite, Call, Row
      <3>3. c.held.total \subseteq Answered(c.sid)
        BY <1>0, <2>4 DEF UpdateSession, CreditInv, Credited
      <3>4. published' = published
        BY <2>4 DEF UpdateSession, topics
      <3>5. CASE row' = [row EXCEPT ![c.sid] = ToWrite(c)]
        <4>1. row'[c.sid].total = c.held.total
          BY <1>a, <3>1, <3>2, <3>5
        <4>2. \A o \in Sessions \ {c.sid} : row'[o] = row[o]
          BY <1>a, <3>5
        <4>3. PICK s \in Sessions : s = c.sid
          BY <3>1
        <4> HIDE DEF c
        <4>4. row'[s].total \subseteq Answered(s)'
          BY <1>b, <3>3, <4>1, <4>3
        <4> QED BY <2>1, <3>4, <4>2, <4>3, <4>4
      <3> QED BY <2>2, <2>4, <3>4, <3>5 DEF UpdateSession
    <2>5. ASSUME NEW p \in Phones, SaveSubmission(p)
          PROVE  NeverOverCredited'
      <3>1. PICK s \in Sessions, t \in Tasks : s = call[p].sid /\ t = call[p].task
        BY <1>0, <2>5 DEF SaveSubmission, TypeInv, CallShape, Shapely, Steps
      <3>2. published' = published
        BY <2>5 DEF SaveSubmission, topics
      <3>3. CASE /\ answer' = [answer EXCEPT ![s][t] = p]
                 /\ row' = [row EXCEPT ![s].total = SumOf(s, t)]
        <4>1. row'[s].total = Answered(s) \cup {t}
          BY <1>a, <3>3 DEF SumOf, Row
        <4>2. \A o \in Sessions \ {s} : row'[o].total = row[o].total
          BY <1>a, <3>3
        <4>3. t \in Answered(s)'
          BY <1>0, <3>3, ConstantsAssumption DEF Answered, TypeInv, TypeOK
        <4> QED BY <1>b, <2>1, <3>2, <4>1, <4>2, <4>3
      <3> QED BY <2>2, <2>5, <3>1, <3>2, <3>3 DEF SaveSubmission
    <2>6. ASSUME NEW p \in Phones, PublishScore(p)
          PROVE  NeverOverCredited'
      <3>1. PICK s \in Sessions : s = call[p].sid
        BY <1>0, <2>6 DEF PublishScore, TypeInv, CallShape, Shapely, Steps, JoinSteps
      <3>2. call[p].total \subseteq Answered(s)
        BY <1>0, <2>6, <3>1 DEF PublishScore, CreditInv, Credited
      <3>3. row' = row /\ published' = [published EXCEPT ![s] = call[p].total]
        BY <2>6, <3>1 DEF PublishScore, tables
      <3> QED BY <1>0, <1>a, <1>b, <3>2, <3>3 DEF CreditInv, NeverOverCredited
    <2>7. ASSUME NEW p \in Phones,
                 \/ Request(p) \/ Abort(p) \/ JoinFind(p) \/ JoinRefind(p) \/ JoinDevice(p)
                 \/ PingClaim(p) \/ IssueVoucher(p) \/ Announce(p) \/ Return(p)
          PROVE  UNCHANGED <<row, published>>
      BY <2>7 DEF Request, JoinStart, PingStart, FinishStart, SubmitStart, Abort, JoinFind,
                  JoinRefind, JoinDevice, PingClaim, IssueVoucher, Announce, Return,
                  tables, topics
    <2>8. CASE UNCHANGED vars
      BY <2>2, <2>8 DEF vars
    <2> QED BY <2>2, <2>3, <2>4, <2>5, <2>6, <2>7, <2>8 DEF Next, Step
  \* What the calls hold.
  <1>2. \A p \in Phones : Credited(call[p])'
    <2>1. ASSUME NEW p \in Phones, \A q \in Phones \ {p} : call'[q] = call[q],
                 NEW s \in Sessions, call'[p].sid = s,
                 \/ call'[p].pc \in {"claim", "update"} /\ call'[p].held.total \subseteq Answered(s)
                 \/ call'[p].pc = "publish" /\ call'[p].total \subseteq Answered(s)'
          PROVE  \A q \in Phones : Credited(call[q])'
      <3>1. Answered(call[p].sid)' = Answered(s)'
        BY <2>1 DEF Answered
      <3>2. Credited(call[p])'
        BY <1>b, <2>1, <3>1 DEF Credited
      <3> QED BY <2>1, <3>2, CreditFrame
    <2>2. ASSUME NEW p \in Phones, \A q \in Phones \ {p} : call'[q] = call[q],
                 call'[p].pc \notin {"claim", "update", "publish"}
          PROVE  \A q \in Phones : Credited(call[q])'
      <3>1. Credited(call[p])'
        BY <2>2 DEF Credited
      <3> QED BY <2>2, <3>1, CreditFrame
    <2>3. ASSUME NEW p \in Phones, NEW place \in Places, PingStart(p, place)
          PROVE  \A q \in Phones : Credited(call[q])'
      <3> DEFINE s == token[p]
      <3>1. CASE Respond(p, "finished")
        BY <1>0, <2>2, <3>1, RespondEffect
      <3>2. CASE ~Respond(p, "finished")
        <4>1. s \in Sessions
          BY <1>0, <2>3 DEF PingStart, TypeInv, TypeOK
        <4>2. PICK plausible \in Plausibility(row[s], place) :
                \E waypoint \in CurrentWaypoint(row[s], place, plausible) :
                  Continue(p, PingCall(s, place, plausible, waypoint))
          BY <2>3, <3>2 DEF PingStart
        <4>3. PICK waypoint \in CurrentWaypoint(row[s], place, plausible) :
                Continue(p, PingCall(s, place, plausible, waypoint))
          BY <4>2
        <4>4. /\ call'[p].sid = s /\ call'[p].pc \in {"claim", "update"}
              /\ call'[p].held = Moved(row[s], place, plausible, waypoint)
              /\ \A q \in Phones \ {p} : call'[q] = call[q]
          BY <1>0, <4>3, ContinueEffect, PingCallFields
        <4>5. call'[p].held.total = row[s].total
          BY <1>a, <4>1, <4>4 DEF Moved, Row
        <4>6. row[s].total \subseteq Answered(s)
          BY <1>0, <4>1 DEF CreditInv, NeverOverCredited
        <4> HIDE DEF s
        <4> QED BY <2>1, <4>1, <4>4, <4>5, <4>6
      <3> QED BY <3>1, <3>2
    <2>4. ASSUME NEW p \in Phones, FinishStart(p)
          PROVE  \A q \in Phones : Credited(call[q])'
      <3> DEFINE s == token[p]
                 c == [NoCall EXCEPT !.pc = "update", !.sid = s, !.held = row[s], !.arrived = TRUE]
      <3>1. CASE Respond(p, "ok")
        BY <1>0, <2>2, <3>1, RespondEffect
      <3>2. CASE ~Respond(p, "ok")
        <4>1. s \in Sessions
          BY <1>0, <2>4 DEF FinishStart, TypeInv, TypeOK
        <4>2. Continue(p, c)
          BY <2>4, <3>2 DEF FinishStart
        <4>3. c.pc = "update" /\ c.sid = s /\ c.held = row[s]
          BY DEF NoCall
        <4> HIDE DEF c
        <4>4. call'[p] = c /\ \A q \in Phones \ {p} : call'[q] = call[q]
          BY <1>0, <4>2, ContinueEffect
        <4>5. row[s].total \subseteq Answered(s)
          BY <1>0, <4>1 DEF CreditInv, NeverOverCredited
        <4> HIDE DEF s
        <4> QED BY <2>1, <4>1, <4>3, <4>4, <4>5
      <3> QED BY <3>1, <3>2
    <2>5. ASSUME NEW p \in Phones, PingClaim(p)
          PROVE  \A q \in Phones : Credited(call[q])'
      <3> PICK w \in call[p].entered :
            Continue(p, [call[p] EXCEPT
              !.pc = IF call[p].entered = {w} THEN "update" ELSE "claim",
              !.entered = @ \ {w},
              !.fresh = IF ClaimNew(call[p].sid, w) THEN @ \cup {w} ELSE @])
        BY <2>5 DEF PingClaim
      <3> DEFINE c == [call[p] EXCEPT
              !.pc = IF call[p].entered = {w} THEN "update" ELSE "claim",
              !.entered = @ \ {w},
              !.fresh = IF ClaimNew(call[p].sid, w) THEN @ \cup {w} ELSE @]
      <3>1. c.pc \in {"claim", "update"} /\ c.sid = call[p].sid /\ c.held = call[p].held
        BY <1>a DEF Call
      <3> HIDE DEF c
      <3>2. call'[p] = c /\ \A q \in Phones \ {p} : call'[q] = call[q]
        BY <1>0, ContinueEffect DEF c
      <3>3. PICK s \in Sessions : s = call[p].sid
        BY <1>0, <2>5 DEF PingClaim, TypeInv, CallShape, Shapely, Steps
      <3>4. call[p].held.total \subseteq Answered(s)
        BY <1>0, <2>5, <3>3 DEF PingClaim, CreditInv, Credited
      <3> QED BY <2>1, <3>1, <3>2, <3>3, <3>4
    <2>6. ASSUME NEW p \in Phones, UpdateSession(p) \/ IssueVoucher(p)
          PROVE  \A q \in Phones : Credited(call[q])'
      <3>1. CASE Respond(p, "error")
        BY <1>0, <2>2, <3>1, RespondEffect
      <3>2. ASSUME NEW step \in {"voucher", "announce"}, Continue(p, [call[p] EXCEPT !.pc = step])
            PROVE  \A q \in Phones : Credited(call[q])'
        <4> DEFINE c == [call[p] EXCEPT !.pc = step]
        <4>1. c.pc = step
          BY <1>a DEF Call
        <4> HIDE DEF c
        <4>2. call'[p] = c /\ \A q \in Phones \ {p} : call'[q] = call[q]
          BY <1>0, <3>2, ContinueEffect DEF c
        <4> QED BY <2>2, <4>1, <4>2
      <3> QED BY <2>6, <3>1, <3>2 DEF UpdateSession, IssueVoucher, AfterUpdate
    <2>7. ASSUME NEW p \in Phones, SaveSubmission(p)
          PROVE  \A q \in Phones : Credited(call[q])'
      <3>1. PICK s \in Sessions, t \in Tasks : s = call[p].sid /\ t = call[p].task
        BY <1>0, <2>7 DEF SaveSubmission, TypeInv, CallShape, Shapely, Steps
      <3>2. CASE Respond(p, "claimed")
        BY <1>0, <2>2, <3>2, RespondEffect
      <3>3. CASE /\ answer' = [answer EXCEPT ![s][t] = p]
                 /\ Continue(p, [call[p] EXCEPT !.pc = "publish", !.total = SumOf(s, t)])
        <4> DEFINE c == [call[p] EXCEPT !.pc = "publish", !.total = SumOf(s, t)]
        <4>1. c.pc = "publish" /\ c.sid = s /\ c.total = SumOf(s, t)
          BY <1>a, <3>1 DEF Call
        <4> HIDE DEF c
        <4>2. call'[p] = c /\ \A q \in Phones \ {p} : call'[q] = call[q]
          BY <1>0, <3>3, ContinueEffect DEF c
        <4>3. t \in Answered(s)'
          BY <1>0, <3>3, ConstantsAssumption DEF Answered, TypeInv, TypeOK
        <4>4. SumOf(s, t) \subseteq Answered(s)'
          BY <1>b, <4>3 DEF SumOf
        <4> QED BY <2>1, <4>1, <4>2, <4>4
      <3> QED BY <2>7, <3>1, <3>2, <3>3 DEF SaveSubmission
    <2>8. CASE UNCHANGED vars
      <3>1. \A p \in Phones : Credited(call[p])' = Credited(call[p])
        BY <2>8 DEF vars, Credited, Answered
      <3> QED BY <1>0, <3>1 DEF CreditInv
    <2> QED BY <2>2, <2>3, <2>4, <2>5, <2>6, <2>7, <2>8, PcElsewhere, SubmitEffect
            DEF Next, Step, Request
  <1> QED BY <1>1, <1>2 DEF CreditInv

-----------------------------------------------------------------------------
(* The voucher comes before the announcement *)

\* No step announces an arrival, or gets ready to, without a voucher.
LEMMA VoucherNext == IInv /\ [Next]_vars => VoucherInv'
  <1> SUFFICES ASSUME IInv, [Next]_vars
               PROVE  VoucherInv'
    OBVIOUS
  <1> USE DEF At
  <1>0. TypeInv /\ VoucherInv
    BY DEF IInv
  <1>a. call \in [Phones -> Call]
    BY <1>0 DEF TypeInv, TypeOK
  <1>1. ASSUME NEW p \in Phones, \A q \in Phones \ {p} : call'[q] = call[q],
               told' = told, voucher \subseteq voucher',
               call'[p].pc = "announce" /\ call'[p].arrived => call'[p].sid \in voucher'
        PROVE  VoucherInv'
    BY <1>0, <1>1 DEF VoucherInv, ArrivalAfterVoucher
  <1>2. ASSUME NEW p \in Phones,
               \/ JoinStart(p) \/ \E t \in Tasks : SubmitStart(p, t)
               \/ JoinFind(p) \/ JoinCreate(p) \/ JoinRefind(p) \/ JoinDevice(p)
               \/ PublishScore(p) \/ Abort(p) \/ Return(p)
        PROVE  VoucherInv'
    <2>1. told' = told /\ voucher' = voucher
      BY <1>2 DEF JoinStart, SubmitStart, JoinFind, JoinCreate, JoinRefind, JoinDevice,
                  PublishScore, Abort, Return, tables, topics
    <2> QED BY <1>1, <1>2, <2>1, PcElsewhere, SubmitEffect
  <1>3. ASSUME NEW p \in Phones, NEW r, Respond(p, r), UNCHANGED <<told, voucher>>
        PROVE  VoucherInv'
    BY <1>0, <1>1, <1>3, RespondEffect
  <1>4. ASSUME NEW p \in Phones, NEW c, Continue(p, c), c.pc # "announce",
               UNCHANGED <<told, voucher>>
        PROVE  VoucherInv'
    BY <1>0, <1>1, <1>4, ContinueEffect
  <1>5. ASSUME NEW p \in Phones, NEW place \in Places, PingStart(p, place)
        PROVE  VoucherInv'
    <2>1. UNCHANGED <<told, voucher>>
      BY <1>5 DEF PingStart, tables, topics
    <2>2. ASSUME NEW s, NEW plausible, NEW waypoint,
                 Continue(p, PingCall(s, place, plausible, waypoint))
          PROVE  VoucherInv'
      BY <1>4, <2>1, <2>2, PingCallFields
    <2> QED BY <1>3, <1>5, <2>1, <2>2 DEF PingStart
  <1>6. ASSUME NEW p \in Phones, FinishStart(p)
        PROVE  VoucherInv'
    <2> DEFINE c == [NoCall EXCEPT
                      !.pc = "update", !.sid = token[p], !.held = row[token[p]], !.arrived = TRUE]
    <2>1. UNCHANGED <<told, voucher>>
      BY <1>6 DEF FinishStart, tables, topics
    <2>2. c.pc = "update"
      BY DEF NoCall
    <2>3. Respond(p, "ok") \/ Continue(p, c)
      BY <1>6 DEF FinishStart
    <2> HIDE DEF c
    <2> QED BY <1>3, <1>4, <2>1, <2>2, <2>3
  <1>7. ASSUME NEW p \in Phones, PingClaim(p)
        PROVE  VoucherInv'
    <2>1. UNCHANGED <<told, voucher>>
      BY <1>7 DEF PingClaim, topics
    <2> PICK w \in call[p].entered :
          Continue(p, [call[p] EXCEPT
            !.pc = IF call[p].entered = {w} THEN "update" ELSE "claim",
            !.entered = @ \ {w},
            !.fresh = IF ClaimNew(call[p].sid, w) THEN @ \cup {w} ELSE @])
      BY <1>7 DEF PingClaim
    <2> DEFINE c == [call[p] EXCEPT
            !.pc = IF call[p].entered = {w} THEN "update" ELSE "claim",
            !.entered = @ \ {w},
            !.fresh = IF ClaimNew(call[p].sid, w) THEN @ \cup {w} ELSE @]
    <2>2. c.pc # "announce"
      BY <1>a DEF Call
    <2>3. Continue(p, c)
      OBVIOUS
    <2> HIDE DEF c
    <2> QED BY <1>4, <2>1, <2>2, <2>3
  <1>8. ASSUME NEW p \in Phones, UpdateSession(p)
        PROVE  VoucherInv'
    <2> DEFINE c == [call[p] EXCEPT !.pc = AfterUpdate(call[p].arrived)]
    <2>1. UNCHANGED <<told, voucher>>
      BY <1>8 DEF UpdateSession, topics
    <2>2. c.pc = "announce" => ~c.arrived
      BY <1>a DEF Call, AfterUpdate
    <2>3. Respond(p, "error") \/ Continue(p, c)
      BY <1>8 DEF UpdateSession
    <2> HIDE DEF c
    <2>4. CASE Continue(p, c)
      BY <1>0, <1>1, <2>1, <2>2, <2>4, ContinueEffect
    <2> QED BY <1>3, <2>1, <2>3, <2>4
  <1>9. ASSUME NEW p \in Phones, IssueVoucher(p)
        PROVE  VoucherInv'
    <2> DEFINE c == [call[p] EXCEPT !.pc = "announce"]
    <2>1. c.sid = call[p].sid
      BY <1>a DEF Call
    <2>2. Continue(p, c) /\ told' = told /\ voucher' = voucher \cup {call[p].sid}
      BY <1>9 DEF IssueVoucher, topics
    <2> HIDE DEF c
    <2> QED BY <1>0, <1>1, <2>1, <2>2, ContinueEffect
  <1>10. ASSUME NEW p \in Phones, Announce(p)
        PROVE  VoucherInv'
    <2>1. told' \subseteq voucher' /\ voucher' = voucher
      BY <1>0, <1>10 DEF Announce, VoucherInv, ArrivalAfterVoucher, tables
    <2>2. call'[p].pc # "announce" /\ \A q \in Phones \ {p} : call'[q] = call[q]
      BY <1>10, PcElsewhere, SubmitEffect
    <2> QED BY <1>0, <2>1, <2>2 DEF VoucherInv, ArrivalAfterVoucher
  <1>11. ASSUME NEW p \in Phones, SaveSubmission(p)
        PROVE  VoucherInv'
    <2> DEFINE c == [call[p] EXCEPT
                      !.pc = "publish", !.total = SumOf(call[p].sid, call[p].task)]
    <2>1. UNCHANGED <<told, voucher>>
      BY <1>11 DEF SaveSubmission, topics
    <2>2. c.pc # "announce"
      BY <1>a DEF Call
    <2>3. Respond(p, "claimed") \/ Continue(p, c)
      BY <1>11 DEF SaveSubmission
    <2> HIDE DEF c
    <2> QED BY <1>3, <1>4, <2>1, <2>2, <2>3
  <1>12. CASE UNCHANGED vars
    BY <1>0, <1>12 DEF vars, VoucherInv, ArrivalAfterVoucher
  <1> QED BY <1>2, <1>5, <1>6, <1>7, <1>8, <1>9, <1>10, <1>11, <1>12 DEF Next, Step, Request

-----------------------------------------------------------------------------
(* Off the grid for good *)

\* A ping on a bound session counts as plausible, for there is no fix to
\* compare it with, so the struct it writes is no longer bound.
LEMMA PingLeavesGrid ==
  ASSUME IInv, NEW s \in Sessions, NEW place \in Places,
         NEW plausible \in Plausibility(row[s], place), NEW waypoint
  PROVE  Moved(row[s], place, plausible, waypoint).status # "bound"
  <1>1. row[s] \in Row
    BY DEF IInv, TypeInv, TypeOK
  <1>2. row[s].status = "bound" => plausible
    BY DEF IInv, GridInv, Plausibility
  <1> QED BY <1>1, <1>2 DEF Moved, Row

\* No step leaves a car on the grid with a fix, or gets ready to.
LEMMA GridNext == IInv /\ [Next]_vars => GridInv'
  <1> SUFFICES ASSUME IInv, [Next]_vars
               PROVE  GridInv'
    OBVIOUS
  <1> USE DEF At
  <1>0. TypeInv /\ GridInv
    BY DEF IInv
  <1>a. call \in [Phones -> Call] /\ row \in [Sessions -> Row]
    BY <1>0 DEF TypeInv, TypeOK
  \* The stored rows.
  <1>1. \A s \in Sessions : row'[s].status = "bound" => row'[s].fix = None
    <2>1. CASE UNCHANGED row
      BY <1>0, <2>1 DEF GridInv
    <2>2. ASSUME NEW s \in Sessions, NEW r, row' = [row EXCEPT ![s] = r],
                 r.status = "bound" => r.fix = None
          PROVE  \A o \in Sessions : row'[o].status = "bound" => row'[o].fix = None
      BY <1>0, <1>a, <2>2 DEF GridInv
    <2>3. ASSUME NEW p \in Phones, JoinCreate(p)
          PROVE  \A o \in Sessions : row'[o].status = "bound" => row'[o].fix = None
      <3>1. Bound.fix = None
        BY DEF Bound, NoRow
      <3> QED BY <2>1, <2>2, <2>3, <3>1 DEF JoinCreate, Unused
    <2>4. ASSUME NEW p \in Phones, UpdateSession(p)
          PROVE  \A o \in Sessions : row'[o].status = "bound" => row'[o].fix = None
      <3>1. call[p].sid \in Sessions /\ ToWrite(call[p]).status # "bound"
        BY <1>0, <2>4 DEF UpdateSession, GridInv, TypeInv, CallShape, Shapely, Steps
      <3> QED BY <2>1, <2>2, <2>4, <3>1 DEF UpdateSession
    <2>5. ASSUME NEW p \in Phones, SaveSubmission(p)
          PROVE  \A o \in Sessions : row'[o].status = "bound" => row'[o].fix = None
      <3>1. CASE row' = [row EXCEPT ![call[p].sid].total = SumOf(call[p].sid, call[p].task)]
        <4>1. \A o \in Sessions : row'[o].status = row[o].status /\ row'[o].fix = row[o].fix
          BY <1>a, <3>1 DEF Row
        <4> QED BY <1>0, <4>1 DEF GridInv
      <3> QED BY <2>1, <2>5, <3>1 DEF SaveSubmission
    <2>6. ASSUME NEW p \in Phones,
                 \/ Request(p) \/ Abort(p) \/ JoinFind(p) \/ JoinRefind(p) \/ JoinDevice(p)
                 \/ PingClaim(p) \/ IssueVoucher(p) \/ Announce(p) \/ PublishScore(p)
                 \/ Return(p)
          PROVE  UNCHANGED row
      BY <2>6 DEF Request, JoinStart, PingStart, FinishStart, SubmitStart, Abort, JoinFind,
                  JoinRefind, JoinDevice, PingClaim, IssueVoucher, Announce, PublishScore,
                  Return, tables
    <2>7. CASE UNCHANGED vars
      BY <2>1, <2>7 DEF vars
    <2> QED BY <2>1, <2>3, <2>4, <2>5, <2>6, <2>7 DEF Next, Step
  \* What the calls would write.
  <1>2. \A p \in Phones : call'[p].pc \in {"claim", "update"} => ToWrite(call'[p]).status # "bound"
    <2>1. ASSUME NEW p \in Phones, \A q \in Phones \ {p} : call'[q] = call[q],
                 call'[p].pc \in {"claim", "update"} => ToWrite(call'[p]).status # "bound"
          PROVE  \A q \in Phones :
                   call'[q].pc \in {"claim", "update"} => ToWrite(call'[q]).status # "bound"
      <3> SUFFICES ASSUME NEW q \in Phones \ {p}, call'[q].pc \in {"claim", "update"}
                   PROVE  ToWrite(call'[q]).status # "bound"
        BY <2>1
      <3>1. call'[q] = call[q]
        BY <2>1
      <3>2. ToWrite(call[q]).status # "bound"
        BY <1>0, <3>1 DEF GridInv
      <3> QED BY <3>1, <3>2
    <2>2. ASSUME NEW p \in Phones, NEW r, Respond(p, r)
          PROVE  \A q \in Phones :
                   call'[q].pc \in {"claim", "update"} => ToWrite(call'[q]).status # "bound"
      BY <1>0, <2>1, <2>2, RespondEffect
    <2>3. ASSUME NEW p \in Phones, NEW c, Continue(p, c),
                 c.pc \in {"claim", "update"} => ToWrite(c).status # "bound"
          PROVE  \A q \in Phones :
                   call'[q].pc \in {"claim", "update"} => ToWrite(call'[q]).status # "bound"
      <3>1. call'[p] = c /\ \A q \in Phones \ {p} : call'[q] = call[q]
        BY <1>0, <2>3, ContinueEffect
      <3> QED BY <2>1, <2>3, <3>1
    <2>4. ASSUME NEW p \in Phones, NEW place \in Places, PingStart(p, place)
          PROVE  \A q \in Phones :
                   call'[q].pc \in {"claim", "update"} => ToWrite(call'[q]).status # "bound"
      <3> DEFINE s == token[p]
      <3>1. CASE ~Respond(p, "finished")
        <4>1. s \in Sessions
          BY <1>0, <2>4 DEF PingStart, TypeInv, TypeOK
        <4>2. PICK plausible \in Plausibility(row[s], place) :
                \E waypoint \in CurrentWaypoint(row[s], place, plausible) :
                  Continue(p, PingCall(s, place, plausible, waypoint))
          BY <2>4, <3>1 DEF PingStart
        <4>3. PICK waypoint \in CurrentWaypoint(row[s], place, plausible) :
                Continue(p, PingCall(s, place, plausible, waypoint))
          BY <4>2
        <4> DEFINE c == PingCall(s, place, plausible, waypoint)
        <4>4. c.held.status # "bound"
          BY <4>1, PingCallFields, PingLeavesGrid
        <4>5. c.held = Moved(row[s], place, plausible, waypoint)
          BY PingCallFields
        <4>6. c.held.status # "bound" /\ "status" \in DOMAIN c.held
          BY <1>a, <4>1, <4>4, <4>5 DEF Moved, Row
        <4> HIDE DEF c
        <4>7. ToWrite(c).status # "bound"
          BY <4>6 DEF ToWrite, Finished
        <4> QED BY <2>3, <4>3, <4>7 DEF c
      <3> QED BY <2>2, <3>1
    <2>5. ASSUME NEW p \in Phones, FinishStart(p)
          PROVE  \A q \in Phones :
                   call'[q].pc \in {"claim", "update"} => ToWrite(call'[q]).status # "bound"
      <3> DEFINE s == token[p]
                 c == [NoCall EXCEPT !.pc = "update", !.sid = s, !.held = row[s], !.arrived = TRUE]
      <3>1. s \in Sessions /\ (Respond(p, "ok") \/ Continue(p, c))
        BY <1>0, <2>5 DEF FinishStart, TypeInv, TypeOK
      <3>2. c.arrived /\ c.held \in Row
        BY <1>a, <3>1 DEF NoCall
      <3> HIDE DEF c
      <3>3. ToWrite(c).status # "bound"
        BY <3>2 DEF ToWrite, Row, Finished
      <3> QED BY <2>2, <2>3, <3>1, <3>3
    <2>6. ASSUME NEW p \in Phones, PingClaim(p)
          PROVE  \A q \in Phones :
                   call'[q].pc \in {"claim", "update"} => ToWrite(call'[q]).status # "bound"
      <3> PICK w \in call[p].entered :
            Continue(p, [call[p] EXCEPT
              !.pc = IF call[p].entered = {w} THEN "update" ELSE "claim",
              !.entered = @ \ {w},
              !.fresh = IF ClaimNew(call[p].sid, w) THEN @ \cup {w} ELSE @])
        BY <2>6 DEF PingClaim
      <3> DEFINE c == [call[p] EXCEPT
              !.pc = IF call[p].entered = {w} THEN "update" ELSE "claim",
              !.entered = @ \ {w},
              !.fresh = IF ClaimNew(call[p].sid, w) THEN @ \cup {w} ELSE @]
      <3>1. c.held = call[p].held /\ c.arrived = call[p].arrived
        BY <1>a DEF Call
      <3>2. Continue(p, c)
        OBVIOUS
      <3> HIDE DEF c
      <3>3. ToWrite(c) = ToWrite(call[p])
        BY <3>1 DEF ToWrite
      <3>4. ToWrite(call[p]).status # "bound"
        BY <1>0, <2>6 DEF PingClaim, GridInv
      <3> QED BY <2>3, <3>2, <3>3, <3>4
    <2>7. ASSUME NEW p \in Phones, UpdateSession(p) \/ IssueVoucher(p)
          PROVE  \A q \in Phones :
                   call'[q].pc \in {"claim", "update"} => ToWrite(call'[q]).status # "bound"
      <3>1. ASSUME NEW step \in {"voucher", "announce"}, Continue(p, [call[p] EXCEPT !.pc = step])
            PROVE  \A q \in Phones :
                     call'[q].pc \in {"claim", "update"} => ToWrite(call'[q]).status # "bound"
        <4> DEFINE c == [call[p] EXCEPT !.pc = step]
        <4>1. c.pc = step /\ Continue(p, c)
          BY <1>a, <3>1 DEF Call
        <4> HIDE DEF c
        <4> QED BY <2>3, <4>1
      <3> QED BY <2>2, <2>7, <3>1 DEF UpdateSession, IssueVoucher, AfterUpdate
    <2>8. ASSUME NEW p \in Phones, SaveSubmission(p)
          PROVE  \A q \in Phones :
                   call'[q].pc \in {"claim", "update"} => ToWrite(call'[q]).status # "bound"
      <3> DEFINE c == [call[p] EXCEPT
                        !.pc = "publish", !.total = SumOf(call[p].sid, call[p].task)]
      <3>1. Respond(p, "claimed") \/ Continue(p, c)
        BY <2>8 DEF SaveSubmission
      <3>2. c.pc = "publish"
        BY <1>a DEF Call
      <3> HIDE DEF c
      <3> QED BY <2>2, <2>3, <3>1, <3>2
    <2>9. CASE UNCHANGED vars
      BY <1>0, <2>9 DEF vars, GridInv
    <2> QED BY <2>1, <2>4, <2>5, <2>6, <2>7, <2>8, <2>9, PcElsewhere, SubmitEffect
            DEF Next, Step, Request
  <1> QED BY <1>1, <1>2 DEF GridInv

-----------------------------------------------------------------------------
(* A car is shown only where it has been *)

\* A visit row, once stored, stays.
LEMMA VisitsStay ==
  ASSUME IInv, [Next]_vars, NEW s \in Sessions
  PROVE  visited[s] \subseteq visited'[s]
  <1>1. CASE UNCHANGED visited
    BY <1>1
  <1>2. ASSUME NEW p \in Phones, PingClaim(p)
        PROVE  visited[s] \subseteq visited'[s]
    <2>1. visited \in [Sessions -> SUBSET Waypoints]
      BY DEF IInv, TypeInv, TypeOK
    <2>2. PICK o, w : visited' = [visited EXCEPT ![o] = @ \cup {w}]
      BY <1>2 DEF PingClaim
    <2> QED BY <2>1, <2>2
  <1>3. CASE UNCHANGED vars
    BY <1>1, <1>3 DEF vars
  <1>4. ASSUME NEW p \in Phones,
               \/ Request(p) \/ Abort(p) \/ JoinFind(p) \/ JoinCreate(p) \/ JoinRefind(p)
               \/ JoinDevice(p) \/ UpdateSession(p) \/ IssueVoucher(p) \/ Announce(p)
               \/ SaveSubmission(p) \/ PublishScore(p) \/ Return(p)
        PROVE  UNCHANGED visited
    BY <1>4 DEF Request, JoinStart, PingStart, FinishStart, SubmitStart, Abort, JoinFind,
                JoinCreate, JoinRefind, JoinDevice, UpdateSession, IssueVoucher, Announce,
                SaveSubmission, PublishScore, Return, tables
  <1> QED BY <1>1, <1>2, <1>3, <1>4 DEF Next, Step

\* What the phones hold, when only p's call moved and what it holds now is where
\* the car has been or is about to be put down.
LEMMA PlaceFrame ==
  ASSUME IInv, [Next]_vars, NEW p \in Phones,
         \A q \in Phones \ {p} : call'[q] = call[q],
         Placed(call[p])'
  PROVE  \A q \in Phones : Placed(call[q])'
  <1> SUFFICES ASSUME NEW q \in Phones \ {p}
               PROVE  Placed(call[q])'
    OBVIOUS
  <1> DEFINE c == call[q]
  <1>1. call'[q] = c
    OBVIOUS
  <1>2. Placed(c)
    BY DEF IInv, PlaceInv
  <1>3. c.pc \in {"claim", "update", "save"} => c.sid \in Sessions
    BY DEF IInv, TypeInv, CallShape, Shapely, Steps, JoinSteps
  <1>4. ASSUME NEW o \in Sessions
        PROVE  visited[o] \subseteq visited'[o]
    BY VisitsStay
  <1> HIDE DEF c
  <1>5. /\ c.pc = "claim" => c.held.waypoint \in visited'[c.sid] \cup c.entered \cup {None}
        /\ c.pc = "update" => c.held.waypoint \in visited'[c.sid] \cup {None}
        /\ c.pc = "save" /\ c.task \in SensorTasks => visited'[c.sid] # {}
    BY <1>2, <1>3, <1>4 DEF Placed
  <1> QED BY <1>1, <1>5 DEF Placed

\* The waypoint a ping is about to write is one it claims first, or the one the
\* row already had.
LEMMA PingPlaced ==
  ASSUME IInv, NEW s \in Sessions, NEW place \in Places, NEW plausible \in BOOLEAN,
         NEW waypoint \in CurrentWaypoint(row[s], place, plausible)
  PROVE  Placed(PingCall(s, place, plausible, waypoint))
  <1> DEFINE c == PingCall(s, place, plausible, waypoint)
             entered == IF plausible THEN Inside[place] ELSE {}
  <1>1. row[s] \in Row
    BY DEF IInv, TypeInv, TypeOK
  <1>2. row[s].waypoint \in visited[s] \cup {None}
    BY DEF IInv, PlaceInv, WaypointWasVisited
  <1>3. waypoint \in entered \/ (entered = {} /\ waypoint = row[s].waypoint)
    BY DEF CurrentWaypoint
  <1>4. /\ c.sid = s /\ c.entered = entered
        /\ c.pc = IF entered = {} THEN "update" ELSE "claim"
        /\ c.held = Moved(row[s], place, plausible, waypoint)
    BY DEF PingCall, NoCall
  <1> HIDE DEF c, entered
  <1>5. c.held.waypoint = waypoint
    BY <1>1, <1>4 DEF Moved, Row
  <1> QED BY <1>2, <1>3, <1>4, <1>5 DEF Placed, c

\* No step stores a waypoint without its visit row, or a sensor task's answer of
\* a car without any, or gets ready to.
LEMMA PlaceNext == IInv /\ [Next]_vars => PlaceInv'
  <1> SUFFICES ASSUME IInv, [Next]_vars
               PROVE  PlaceInv'
    OBVIOUS
  <1> USE DEF At
  <1>0. TypeInv /\ PlaceInv
    BY DEF IInv
  <1>a. /\ call \in [Phones -> Call] /\ row \in [Sessions -> Row]
        /\ visited \in [Sessions -> SUBSET Waypoints]
    BY <1>0 DEF TypeInv, TypeOK
  <1>b. \A s \in Sessions : visited[s] \subseteq visited'[s]
    BY VisitsStay
  \* The stored rows.
  <1>1. WaypointWasVisited'
    <2>1. CASE \A s \in Sessions : row'[s].waypoint = row[s].waypoint
      BY <1>0, <1>b, <2>1 DEF PlaceInv, WaypointWasVisited
    <2>2. ASSUME NEW s \in Sessions, NEW r, row' = [row EXCEPT ![s] = r],
                 r.waypoint \in visited[s] \cup {None}
          PROVE  WaypointWasVisited'
      <3> SUFFICES ASSUME NEW o \in Sessions, row'[o].waypoint # None
                   PROVE  row'[o].waypoint \in visited'[o]
        BY DEF WaypointWasVisited
      <3>1. CASE o = s
        BY <1>a, <1>b, <2>2, <3>1
      <3>2. CASE o # s
        BY <1>0, <1>a, <1>b, <2>2, <3>2 DEF PlaceInv, WaypointWasVisited
      <3> QED BY <3>1, <3>2
    <2>3. ASSUME NEW p \in Phones, JoinCreate(p)
          PROVE  WaypointWasVisited'
      <3>1. Bound.waypoint = None
        BY DEF Bound, NoRow
      <3> QED BY <2>1, <2>2, <2>3, <3>1 DEF JoinCreate, Unused
    <2>4. ASSUME NEW p \in Phones, UpdateSession(p)
          PROVE  WaypointWasVisited'
      <3>1. PICK c : c = call[p]
        OBVIOUS
      <3>2. c \in Call /\ c.sid \in Sessions /\ c.pc = "update"
        BY <1>0, <1>a, <2>4, <3>1 DEF UpdateSession, TypeInv, CallShape, Shapely, Steps
      <3>3. ToWrite(c).waypoint = c.held.waypoint
        BY <3>2 DEF ToWrite, Call, Row
      <3>4. c.held.waypoint \in visited[c.sid] \cup {None}
        BY <1>0, <3>1, <3>2 DEF PlaceInv, Placed
      <3> QED BY <2>1, <2>2, <2>4, <3>1, <3>2, <3>3, <3>4 DEF UpdateSession
    <2>5. ASSUME NEW p \in Phones, SaveSubmission(p)
          PROVE  WaypointWasVisited'
      <3>1. CASE row' = [row EXCEPT ![call[p].sid].total = SumOf(call[p].sid, call[p].task)]
        BY <1>a, <2>1, <3>1 DEF Row
      <3> QED BY <2>1, <2>5, <3>1 DEF SaveSubmission
    <2>6. ASSUME NEW p \in Phones,
                 \/ Request(p) \/ Abort(p) \/ JoinFind(p) \/ JoinRefind(p) \/ JoinDevice(p)
                 \/ PingClaim(p) \/ IssueVoucher(p) \/ Announce(p) \/ PublishScore(p)
                 \/ Return(p)
          PROVE  UNCHANGED row
      BY <2>6 DEF Request, JoinStart, PingStart, FinishStart, SubmitStart, Abort, JoinFind,
                  JoinRefind, JoinDevice, PingClaim, IssueVoucher, Announce, PublishScore,
                  Return, tables
    <2>7. CASE UNCHANGED vars
      BY <2>1, <2>7 DEF vars
    <2> QED BY <2>1, <2>3, <2>4, <2>5, <2>6, <2>7 DEF Next, Step
  \* The stored answers.
  <1>2. SensorsEarned'
    <2>1. CASE UNCHANGED answer
      BY <1>0, <1>b, <2>1 DEF PlaceInv, SensorsEarned
    <2>2. ASSUME NEW p \in Phones, SaveSubmission(p)
          PROVE  SensorsEarned'
      <3>1. PICK s \in Sessions, t \in Tasks : s = call[p].sid /\ t = call[p].task
        BY <1>0, <2>2 DEF SaveSubmission, TypeInv, CallShape, Shapely, Steps
      <3>2. t \in SensorTasks => visited[s] # {}
        BY <1>0, <2>2, <3>1 DEF SaveSubmission, PlaceInv, Placed
      <3>3. CASE answer' = [answer EXCEPT ![s][t] = p]
        <4> SUFFICES ASSUME NEW o \in Sessions, NEW u \in SensorTasks, answer'[o][u] # None
                     PROVE  visited'[o] # {}
          BY DEF SensorsEarned
        <4>1. answer[o][u] # None \/ (o = s /\ u = t)
          BY <1>0, <3>3, ConstantsAssumption DEF TypeInv, TypeOK
        <4> QED BY <1>0, <1>b, <3>2, <4>1 DEF PlaceInv, SensorsEarned
      <3> QED BY <2>1, <2>2, <3>1, <3>3 DEF SaveSubmission
    <2>3. ASSUME NEW p \in Phones,
                 \/ Request(p) \/ Abort(p) \/ JoinFind(p) \/ JoinCreate(p) \/ JoinRefind(p)
                 \/ JoinDevice(p) \/ PingClaim(p) \/ UpdateSession(p) \/ IssueVoucher(p)
                 \/ Announce(p) \/ PublishScore(p) \/ Return(p)
          PROVE  UNCHANGED answer
      BY <2>3 DEF Request, JoinStart, PingStart, FinishStart, SubmitStart, Abort, JoinFind,
                  JoinCreate, JoinRefind, JoinDevice, PingClaim, UpdateSession, IssueVoucher,
                  Announce, PublishScore, Return, tables
    <2>4. CASE UNCHANGED vars
      BY <2>1, <2>4 DEF vars
    <2> QED BY <2>1, <2>2, <2>3, <2>4 DEF Next, Step
  \* What the calls hold.
  <1>3. \A p \in Phones : Placed(call[p])'
    <2>1. ASSUME NEW p \in Phones, \A q \in Phones \ {p} : call'[q] = call[q],
                 call'[p].pc \notin {"claim", "update", "save"}
          PROVE  \A q \in Phones : Placed(call[q])'
      <3>1. Placed(call[p])'
        BY <2>1 DEF Placed
      <3> QED BY <2>1, <3>1, PlaceFrame
    <2>2. ASSUME NEW p \in Phones, NEW r, Respond(p, r)
          PROVE  \A q \in Phones : Placed(call[q])'
      BY <1>0, <2>1, <2>2, RespondEffect
    <2>3. ASSUME NEW p \in Phones, NEW c, Continue(p, c),
                 c.pc \notin {"claim", "update", "save"}
          PROVE  \A q \in Phones : Placed(call[q])'
      BY <1>0, <2>1, <2>3, ContinueEffect
    <2>4. ASSUME NEW p \in Phones, NEW c, Continue(p, c), Placed(c),
                 c.pc \in {"claim", "update", "save"}, c.sid \in Sessions
          PROVE  \A q \in Phones : Placed(call[q])'
      <3>1. call'[p] = c /\ \A q \in Phones \ {p} : call'[q] = call[q]
        BY <1>0, <2>4, ContinueEffect
      <3>2. visited[c.sid] \subseteq visited'[c.sid]
        BY <1>b, <2>4
      <3>3. Placed(call[p])'
        BY <2>4, <3>1, <3>2 DEF Placed
      <3> QED BY <3>1, <3>3, PlaceFrame
    <2>5. ASSUME NEW p \in Phones, NEW place \in Places, PingStart(p, place)
          PROVE  \A q \in Phones : Placed(call[q])'
      <3> DEFINE s == token[p]
      <3>1. CASE ~Respond(p, "finished")
        <4>1. s \in Sessions
          BY <1>0, <2>5 DEF PingStart, TypeInv, TypeOK
        <4>2. PICK plausible \in Plausibility(row[s], place) :
                \E waypoint \in CurrentWaypoint(row[s], place, plausible) :
                  Continue(p, PingCall(s, place, plausible, waypoint))
          BY <2>5, <3>1 DEF PingStart
        <4>3. PICK waypoint \in CurrentWaypoint(row[s], place, plausible) :
                Continue(p, PingCall(s, place, plausible, waypoint))
          BY <4>2
        <4>4. plausible \in BOOLEAN
          BY DEF Plausibility
        <4> DEFINE c == PingCall(s, place, plausible, waypoint)
        <4>5. Placed(c) /\ c.sid = s /\ c.pc \in {"claim", "update"}
          BY <4>1, <4>4, PingPlaced, PingCallFields
        <4> HIDE DEF c
        <4> QED BY <2>4, <4>1, <4>3, <4>5 DEF c
      <3> QED BY <2>2, <3>1
    <2>6. ASSUME NEW p \in Phones, FinishStart(p)
          PROVE  \A q \in Phones : Placed(call[q])'
      <3> DEFINE s == token[p]
                 c == [NoCall EXCEPT !.pc = "update", !.sid = s, !.held = row[s], !.arrived = TRUE]
      <3>1. s \in Sessions /\ (Respond(p, "ok") \/ Continue(p, c))
        BY <1>0, <2>6 DEF FinishStart, TypeInv, TypeOK
      <3>2. c.pc = "update" /\ c.sid = s /\ c.held = row[s]
        BY DEF NoCall
      <3>3. row[s].waypoint \in visited[s] \cup {None}
        BY <1>0, <3>1 DEF PlaceInv, WaypointWasVisited
      <3> HIDE DEF c
      <3>4. Placed(c)
        BY <3>2, <3>3 DEF Placed
      <3> QED BY <2>2, <2>4, <3>1, <3>2, <3>4
    <2>7. ASSUME NEW p \in Phones, PingClaim(p)
          PROVE  \A q \in Phones : Placed(call[q])'
      <3>0. PICK old : old = call[p]
        OBVIOUS
      <3>1. PICK w \in old.entered :
              /\ visited' = [visited EXCEPT ![old.sid] = @ \cup {w}]
              /\ Continue(p, [old EXCEPT
                   !.pc = IF old.entered = {w} THEN "update" ELSE "claim",
                   !.entered = @ \ {w},
                   !.fresh = IF ClaimNew(old.sid, w) THEN @ \cup {w} ELSE @])
        BY <2>7, <3>0 DEF PingClaim
      <3>2. old \in Call /\ old.pc = "claim" /\ old.sid \in Sessions
        BY <1>0, <1>a, <2>7, <3>0 DEF PingClaim, TypeInv, CallShape, Shapely, Steps
      <3> DEFINE c == [old EXCEPT
                   !.pc = IF old.entered = {w} THEN "update" ELSE "claim",
                   !.entered = @ \ {w},
                   !.fresh = IF ClaimNew(old.sid, w) THEN @ \cup {w} ELSE @]
      <3>3. /\ c.pc = IF old.entered = {w} THEN "update" ELSE "claim"
            /\ c.sid = old.sid /\ c.held = old.held /\ c.entered = old.entered \ {w}
        BY <3>2 DEF Call
      <3> HIDE DEF c
      <3>4. call'[p] = c /\ \A q \in Phones \ {p} : call'[q] = call[q]
        BY <1>0, <3>1, ContinueEffect DEF c
      <3>5. visited'[c.sid] = visited[old.sid] \cup {w}
        BY <1>a, <3>1, <3>2, <3>3
      <3>6. old.held.waypoint \in visited[old.sid] \cup old.entered \cup {None}
        BY <1>0, <3>0, <3>2 DEF PlaceInv, Placed
      <3>7. Placed(call[p])'
        BY <3>3, <3>4, <3>5, <3>6 DEF Placed
      <3> QED BY <3>4, <3>7, PlaceFrame
    <2>8. ASSUME NEW p \in Phones, NEW t \in Tasks, SubmitStart(p, t)
          PROVE  \A q \in Phones : Placed(call[q])'
      <3> DEFINE s == token[p]
      <3>1. /\ \A q \in Phones \ {p} : call'[q] = call[q]
            /\ \/ call'[p].pc = "reply"
               \/ /\ call'[p].pc = "save" /\ call'[p].task = t
                  /\ call'[p].sid = s /\ s \in Sessions
                  /\ Reachable(s, t)
        BY <2>8, SubmitEffect
      <3> HIDE DEF s
      <3>2. CASE Reachable(s, t) /\ call'[p].pc = "save" /\ call'[p].task = t
                 /\ call'[p].sid = s /\ s \in Sessions
        <4>1. t \in SensorTasks => visited'[s] # {}
          BY <1>0, <1>b, <3>2 DEF Reachable, PlaceInv, WaypointWasVisited
        <4>2. Placed(call[p])'
          BY <3>2, <4>1 DEF Placed
        <4> QED BY <3>1, <4>2, PlaceFrame
      <3> QED BY <2>1, <3>1, <3>2
    <2>9. ASSUME NEW p \in Phones, UpdateSession(p) \/ IssueVoucher(p) \/ SaveSubmission(p)
          PROVE  \A q \in Phones : Placed(call[q])'
      <3>1. ASSUME NEW step \in {"voucher", "announce"}, Continue(p, [call[p] EXCEPT !.pc = step])
            PROVE  \A q \in Phones : Placed(call[q])'
        <4> DEFINE c == [call[p] EXCEPT !.pc = step]
        <4>1. c.pc = step /\ Continue(p, c)
          BY <1>a, <3>1 DEF Call
        <4> HIDE DEF c
        <4> QED BY <2>3, <4>1
      <3>2. CASE SaveSubmission(p)
        <4> DEFINE c == [call[p] EXCEPT
                          !.pc = "publish", !.total = SumOf(call[p].sid, call[p].task)]
        <4>1. Respond(p, "claimed") \/ Continue(p, c)
          BY <3>2 DEF SaveSubmission
        <4>2. c.pc = "publish"
          BY <1>a DEF Call
        <4> HIDE DEF c
        <4> QED BY <2>2, <2>3, <4>1, <4>2
      <3> QED BY <2>2, <2>9, <3>1, <3>2 DEF UpdateSession, IssueVoucher, AfterUpdate
    <2>10. CASE UNCHANGED vars
      <3>1. \A p \in Phones : Placed(call[p])' = Placed(call[p])
        BY <2>10 DEF vars, Placed
      <3> QED BY <1>0, <3>1 DEF PlaceInv
    <2>11. ASSUME NEW p \in Phones,
                  \/ JoinStart(p) \/ JoinFind(p) \/ JoinCreate(p) \/ JoinRefind(p)
                  \/ JoinDevice(p) \/ Announce(p) \/ PublishScore(p) \/ Abort(p) \/ Return(p)
           PROVE  \A q \in Phones : Placed(call[q])'
      BY <2>1, <2>11, PcElsewhere
    <2> QED BY <2>5, <2>6, <2>7, <2>8, <2>9, <2>10, <2>11 DEF Next, Step, Request
  <1> QED BY <1>1, <1>2, <1>3 DEF PlaceInv

-----------------------------------------------------------------------------
(* The invariant and what follows from it *)

\* The invariant holds of an empty database.
LEMMA InvInit == Init => IInv
  <1> SUFFICES ASSUME Init
               PROVE  IInv
    OBVIOUS
  <1>1. TypeInv
    BY TypeInit
  <1>2. /\ \A p \in Phones : call[p].pc = "idle" /\ call[p].fresh = {}
        /\ \A s \in Sessions : row[s].status = "none" /\ row[s].total = {}
        /\ \A s \in Sessions : row[s].waypoint = None
    BY DEF Init, NoCall, NoRow
  <1>3. OneLive
    BY <1>2 DEF OneLive, Live
  <1>4. EdgeInv
    BY <1>2 DEF Init, EdgeInv
  <1>5. CreditInv
    BY <1>2 DEF Init, CreditInv, NeverOverCredited, Credited
  <1>6. VoucherInv
    BY <1>2 DEF Init, VoucherInv, ArrivalAfterVoucher
  <1>7. GridInv
    BY <1>2 DEF GridInv
  <1>8. PlaceInv
    BY <1>2, ConstantsAssumption DEF Init, PlaceInv, WaypointWasVisited, SensorsEarned, Placed
  <1> QED BY <1>1, <1>3, <1>4, <1>5, <1>6, <1>7, <1>8 DEF IInv

\* Every step of every phone's call preserves it.
LEMMA InvNext == IInv /\ [Next]_vars => IInv'
  <1> SUFFICES ASSUME IInv, [Next]_vars
               PROVE  IInv'
    OBVIOUS
  <1>1. TypeInv'
    BY TypeNext DEF IInv
  <1> QED BY <1>1, OneLiveNext, EdgeNext, CreditNext, VoucherNext, GridNext, PlaceNext DEF IInv

\* The invariant holds in every reachable state.
THEOREM Invariance == Spec => []IInv
  BY InvInit, InvNext, PTL DEF Spec

\* Two phones of a car that hold tokens of a run under way hold the same run:
\* the unique index allows one live row per vehicle, so the crew is not split.
THEOREM CrewIsNotSplit == Spec => []CrewNotSplit
  <1>1. IInv => CrewNotSplit
    BY DEF IInv, OneLive, CrewNotSplit, LiveSessions
  <1> QED BY <1>1, Invariance, PTL

\* However many phones report the same crossing at once, one call finds the
\* boundary fresh, and none does after it has been announced.
THEOREM BoundariesUnlockOnce == Spec => []UnlockedOnce
  <1>1. IInv => UnlockedOnce
    BY DEF IInv, EdgeInv, UnlockedOnce
  <1> QED BY <1>1, Invariance, PTL

\* No interleaving of stale row writes, submissions and broadcasts credits a car
\* with points of an answer that is not stored.
THEOREM CreditIsBacked == Spec => []NeverOverCredited
  <1>1. IInv => NeverOverCredited
    BY DEF IInv, CreditInv
  <1> QED BY <1>1, Invariance, PTL

\* The crew hears that it arrived only once its voucher exists.
THEOREM VoucherFirst == Spec => []ArrivalAfterVoucher
  <1>1. IInv => ArrivalAfterVoucher
    BY DEF IInv, VoucherInv
  <1> QED BY <1>1, Invariance, PTL

\* The waypoint a car is shown at is one it has a visit row for, whichever of
\* its phones' writes came last.
THEOREM WaypointIsVisited == Spec => []WaypointWasVisited
  <1>1. IInv => WaypointWasVisited
    BY DEF IInv, PlaceInv
  <1> QED BY <1>1, Invariance, PTL

\* A sensor task's answer belongs to a car that has been inside a boundary.
THEOREM SensorsAreEarned == Spec => []SensorsEarned
  <1>1. IInv => SensorsEarned
    BY DEF IInv, PlaceInv
  <1> QED BY <1>1, Invariance, PTL

\* No late write puts a car that has left the start grid back on it.
THEOREM OffTheGrid == Spec => GridLeftForGood
  <1> DEFINE Stays == \A s \in Sessions :
                        row[s].status \in {"active", "finished"} => row'[s].status # "bound"
  <1>1. IInv /\ [Next]_vars => Stays \/ UNCHANGED row
    <2> SUFFICES ASSUME IInv, [Next]_vars, row' # row
                 PROVE  Stays
      OBVIOUS
    <2> USE DEF At
    <2>a. row \in [Sessions -> Row]
      BY DEF IInv, TypeInv, TypeOK
    <2>1. ASSUME NEW p \in Phones, JoinCreate(p)
          PROVE  Stays
      BY <2>a, <2>1 DEF JoinCreate, Unused
    <2>2. ASSUME NEW p \in Phones, UpdateSession(p)
          PROVE  Stays
      <3>1. call[p].sid \in Sessions /\ ToWrite(call[p]).status # "bound"
        BY <2>2 DEF UpdateSession, IInv, GridInv, TypeInv, CallShape, Shapely, Steps
      <3> QED BY <2>a, <2>2, <3>1 DEF UpdateSession
    <2>3. ASSUME NEW p \in Phones, SaveSubmission(p)
          PROVE  Stays
      <3>1. CASE row' = [row EXCEPT ![call[p].sid].total = SumOf(call[p].sid, call[p].task)]
        <4>1. \A s \in Sessions : row'[s].status = row[s].status
          BY <2>a, <3>1 DEF Row
        <4> QED BY <4>1
      <3> QED BY <2>3, <3>1 DEF SaveSubmission
    <2>4. ASSUME NEW p \in Phones,
                 \/ Request(p) \/ Abort(p) \/ JoinFind(p) \/ JoinRefind(p) \/ JoinDevice(p)
                 \/ PingClaim(p) \/ IssueVoucher(p) \/ Announce(p) \/ PublishScore(p)
                 \/ Return(p)
          PROVE  UNCHANGED row
      BY <2>4 DEF Request, JoinStart, PingStart, FinishStart, SubmitStart, Abort, JoinFind,
                  JoinRefind, JoinDevice, PingClaim, IssueVoucher, Announce, PublishScore,
                  Return, tables
    <2>5. CASE UNCHANGED vars
      BY <2>5 DEF vars
    <2> QED BY <2>1, <2>2, <2>3, <2>4, <2>5 DEF Next, Step
  <1>2. IInv /\ [Next]_vars => [Stays]_row
    BY <1>1
  <1> HIDE DEF Stays
  <1>3. Spec => [][Stays]_row
    BY <1>2, Invariance, PTL DEF Spec
  <1> QED BY <1>3 DEF GridLeftForGood, Stays

-----------------------------------------------------------------------------
(* Refinement of RallyLedger *)

\* A stored answer is a phone's first answer to an open task.
LEMMA SaveWins ==
  ASSUME IInv, NEW p \in Phones, SaveSubmission(p)
  PROVE  Ledger!Next \/ UNCHANGED Ledger!ledger
  <1> DEFINE s == call[p].sid
             t == call[p].task
  <1>1. s \in Sessions /\ t \in Tasks
    BY DEF SaveSubmission, At, IInv, TypeInv, CallShape, Shapely, Steps
  <1>2. UNCHANGED <<visited, opened, voucher, told>>
    BY DEF SaveSubmission, topics
  <1>3. CASE UNCHANGED answer
    BY <1>2, <1>3 DEF Ledger!ledger
  <1>4. CASE ~Claimed(s, t) /\ answer' = [answer EXCEPT ![s][t] = p]
    <2>1. Ledger!Win(p, s, t)
      BY <1>2, <1>4 DEF Claimed, Ledger!Win
    <2> HIDE DEF s, t
    <2> QED BY <1>1, <2>1 DEF Ledger!Next
  <1> QED BY <1>3, <1>4 DEF SaveSubmission

\* A claim crosses a boundary, or repeats a crossing the ledger has.
LEMMA ClaimCrosses ==
  ASSUME IInv, NEW p \in Phones, PingClaim(p)
  PROVE  Ledger!Next \/ UNCHANGED Ledger!ledger
  <1> DEFINE s == call[p].sid
  <1>1. s \in Sessions /\ call[p] \in Call
    BY DEF PingClaim, At, IInv, TypeInv, TypeOK, CallShape, Shapely, Steps
  <1>2. PICK w \in call[p].entered : visited' = [visited EXCEPT ![s] = @ \cup {w}]
    BY DEF PingClaim
  <1>3. w \in Waypoints
    BY <1>1 DEF Call
  <1>4. UNCHANGED <<answer, opened, voucher, told>>
    BY DEF PingClaim, topics
  <1>5. visited \in [Sessions -> SUBSET Waypoints]
    BY DEF IInv, TypeInv, TypeOK
  <1> HIDE DEF s
  <1>6. CASE w \in visited[s]
    <2>1. visited[s] \cup {w} = visited[s]
      BY <1>6
    <2>2. visited' = visited
      BY <1>1, <1>2, <1>5, <2>1
    <2> QED BY <1>4, <2>2 DEF Ledger!ledger
  <1>7. CASE w \notin visited[s]
    <2>1. Ledger!Cross(s, w)
      BY <1>2, <1>4, <1>7 DEF Ledger!Cross
    <2> QED BY <1>1, <1>3, <2>1 DEF Ledger!Next
  <1> QED BY <1>6, <1>7

\* A voucher is issued once; issuing it again changes nothing.
LEMMA VoucherIssues ==
  ASSUME IInv, NEW p \in Phones, IssueVoucher(p)
  PROVE  Ledger!Next \/ UNCHANGED Ledger!ledger
  <1> DEFINE s == call[p].sid
  <1>1. s \in Sessions /\ voucher' = voucher \cup {s}
    BY DEF IssueVoucher, At, IInv, TypeInv, CallShape, Shapely, Steps
  <1>2. UNCHANGED <<answer, visited, opened, told>>
    BY DEF IssueVoucher, topics
  <1> HIDE DEF s
  <1>3. CASE s \in voucher
    <2>1. voucher' = voucher
      BY <1>1, <1>3
    <2> QED BY <1>2, <2>1 DEF Ledger!ledger
  <1>4. CASE s \notin voucher
    <2>1. Ledger!Issue(s)
      BY <1>1, <1>2, <1>4 DEF Ledger!Issue
    <2> QED BY <1>1, <2>1 DEF Ledger!Next
  <1> QED BY <1>3, <1>4

\* An announcement tells the crew of boundaries nobody told it of, and of an
\* arrival whose voucher exists.
LEMMA AnnounceTells ==
  ASSUME IInv, NEW p \in Phones, Announce(p)
  PROVE  Ledger!Next
  <1> DEFINE s == call[p].sid
             boundaries == call[p].fresh
             arrived == call[p].arrived
  <1>1. s \in Sessions /\ call[p] \in Call
    BY DEF Announce, At, IInv, TypeInv, TypeOK, CallShape, Shapely, Steps
  <1>2. boundaries \in SUBSET Waypoints /\ arrived \in BOOLEAN
    BY <1>1 DEF Call
  <1>3. boundaries \subseteq visited[s] \ opened[s]
    BY DEF IInv, EdgeInv
  <1>4. arrived => s \in voucher
    BY DEF Announce, At, IInv, VoucherInv
  <1>5. /\ opened' = [opened EXCEPT ![s] = @ \cup boundaries]
        /\ told' = IF arrived THEN told \cup {s} ELSE told
        /\ UNCHANGED <<answer, visited, voucher>>
    BY DEF Announce, Kept, tables
  <1> HIDE DEF s, boundaries, arrived
  <1>6. Ledger!Tell(s, boundaries, arrived)
    BY <1>3, <1>4, <1>5 DEF Ledger!Tell
  <1> QED BY <1>1, <1>2, <1>6 DEF Ledger!Next

\* The run keeps the ledger's promise: answers, visits, announcements and
\* vouchers are written once, in the ledger's order, whatever the calls do.
THEOREM KeepsLedger == Spec => LedgerSpec
  <1>1. Init => Ledger!Init
    BY DEF Init, Ledger!Init
  <1>2. IInv /\ [Next]_vars => [Ledger!Next]_(Ledger!ledger)
    <2> SUFFICES ASSUME IInv, [Next]_vars
                 PROVE  Ledger!Next \/ UNCHANGED Ledger!ledger
      OBVIOUS
    <2>1. ASSUME NEW p \in Phones,
                 \/ Request(p) \/ Abort(p) \/ JoinFind(p) \/ JoinCreate(p) \/ JoinRefind(p)
                 \/ JoinDevice(p) \/ UpdateSession(p) \/ PublishScore(p) \/ Return(p)
          PROVE  UNCHANGED Ledger!ledger
      BY <2>1 DEF Request, JoinStart, PingStart, FinishStart, SubmitStart, Abort, JoinFind,
                  JoinCreate, JoinRefind, JoinDevice, UpdateSession, PublishScore, Return,
                  tables, topics, Ledger!ledger
    <2>2. CASE UNCHANGED vars
      BY <2>2 DEF vars, Ledger!ledger
    <2> QED BY <2>1, <2>2, SaveWins, ClaimCrosses, VoucherIssues, AnnounceTells DEF Next, Step
  <1> QED BY <1>1, <1>2, Invariance, PTL DEF Spec, LedgerSpec, Ledger!Spec

-----------------------------------------------------------------------------
(* Calls that come one at a time *)

\* A call past its first read is about one of the sessions.
LEMMA CallSessions ==
  ASSUME IInv, NEW p \in Phones, call[p].pc \in Steps \ {"find", "create", "refind"}
  PROVE  call[p].sid \in Sessions /\ call[p] \in Call
  BY DEF IInv, TypeInv, TypeOK, CallShape, Shapely

\* A run that was made stays.
LEMMA RunsStay ==
  ASSUME IInv, MadeInv, [Next]_vars, NEW s \in Sessions, row[s].status # "none"
  PROVE  row'[s].status # "none"
  <1> USE DEF At
  <1>1. row \in [Sessions -> Row]
    BY DEF IInv, TypeInv, TypeOK
  <1>2. CASE UNCHANGED row
    BY <1>2
  <1>3. ASSUME NEW p \in Phones, JoinCreate(p)
        PROVE  row'[s].status # "none"
    BY <1>1, <1>3 DEF JoinCreate, Bound, NoRow
  <1>4. ASSUME NEW p \in Phones, UpdateSession(p)
        PROVE  row'[s].status # "none"
    <2>1. call[p].sid \in Sessions /\ call[p] \in Call /\ call[p].held.status # "none"
      BY <1>4, CallSessions DEF UpdateSession, MadeInv, Named, Steps
    <2>2. ToWrite(call[p]).status # "none"
      BY <2>1 DEF ToWrite, Finished, Call, Row
    <2> QED BY <1>1, <1>4, <2>1, <2>2 DEF UpdateSession
  <1>5. ASSUME NEW p \in Phones, SaveSubmission(p)
        PROVE  row'[s].status # "none"
    <2>1. CASE row' = [row EXCEPT ![call[p].sid].total = SumOf(call[p].sid, call[p].task)]
      BY <1>1, <2>1 DEF Row
    <2> QED BY <1>2, <1>5, <2>1 DEF SaveSubmission
  <1>6. ASSUME NEW p \in Phones,
               \/ Request(p) \/ Abort(p) \/ JoinFind(p) \/ JoinRefind(p) \/ JoinDevice(p)
               \/ PingClaim(p) \/ IssueVoucher(p) \/ Announce(p) \/ PublishScore(p)
               \/ Return(p)
        PROVE  UNCHANGED row
    BY <1>6 DEF Request, JoinStart, PingStart, FinishStart, SubmitStart, Abort, JoinFind,
                JoinRefind, JoinDevice, PingClaim, IssueVoucher, Announce, PublishScore,
                Return, tables
  <1>7. CASE UNCHANGED vars
    BY <1>2, <1>7 DEF vars
  <1> QED BY <1>2, <1>3, <1>4, <1>5, <1>6, <1>7 DEF Next, Step

\* What p's own call is about after a step of it.
LEMMA NamedAfter ==
  ASSUME IInv, MadeInv, [Next]_vars, NEW p \in Phones, Request(p) \/ Step(p) \/ Abort(p)
  PROVE  Named(call[p])' /\ \A q \in Phones \ {p} : call'[q] = call[q]
  <1> USE DEF At
  <1>0. TypeInv /\ call[p] \in Call /\ row \in [Sessions -> Row]
    BY DEF IInv, TypeInv, TypeOK
  <1> DEFINE After == Named(call[p])' /\ \A q \in Phones \ {p} : call'[q] = call[q]
  <1>1. ASSUME NEW c, Continue(p, c), c.pc \notin Steps \ {"find", "create", "refind"}
        PROVE  After
    BY <1>0, <1>1, ContinueEffect DEF Named, Steps, JoinSteps
  <1>2. ASSUME NEW c, Continue(p, c), c.sid \in Sessions, row[c.sid].status # "none",
               c.pc \in {"claim", "update"} => c.held.status # "none"
        PROVE  After
    <2>1. row'[c.sid].status # "none"
      BY <1>2, RunsStay
    <2> QED BY <1>0, <1>2, <2>1, ContinueEffect DEF Named
  <1>3. ASSUME NEW r, Respond(p, r)
        PROVE  After
    BY <1>0, <1>3, RespondEffect DEF Named, Steps, JoinSteps
  <1>4. ASSUME NEW s \in Sessions,
               Continue(p, [call[p] EXCEPT !.pc = "device", !.sid = s]), row'[s].status # "none"
        PROVE  After
    <2> DEFINE c == [call[p] EXCEPT !.pc = "device", !.sid = s]
    <2>1. c.pc = "device" /\ c.sid = s
      BY <1>0 DEF Call
    <2>2. Continue(p, c)
      BY <1>4
    <2> HIDE DEF c
    <2> QED BY <1>0, <1>4, <2>1, <2>2, ContinueEffect DEF Named
  <1>5. ASSUME NEW step, Continue(p, [call[p] EXCEPT !.pc = step]),
               call[p].pc \in Steps \ {"find", "create", "refind"},
               step \notin {"claim", "update"}
        PROVE  After
    <2> DEFINE c == [call[p] EXCEPT !.pc = step]
    <2>1. c.pc = step /\ c.sid = call[p].sid
      BY <1>0 DEF Call
    <2>2. call[p].sid \in Sessions /\ row[call[p].sid].status # "none"
      BY <1>5, CallSessions DEF MadeInv, Named
    <2>3. Continue(p, c)
      BY <1>5
    <2> HIDE DEF c
    <2> QED BY <1>2, <1>5, <2>1, <2>2, <2>3
  <1> SUFFICES After
    OBVIOUS
  <1> HIDE DEF After
  <1>6. CASE JoinStart(p) \/ Return(p)
    <2>1. [NoCall EXCEPT !.pc = "find"].pc = "find" /\ NoCall.pc = "idle"
      BY DEF NoCall
    <2>2. "idle" \notin Steps
      BY DEF Steps, JoinSteps
    <2> QED BY <1>1, <1>6, <2>1, <2>2 DEF JoinStart, Return
  <1>7. CASE JoinDevice(p) \/ Announce(p) \/ PublishScore(p) \/ Abort(p)
    BY <1>3, <1>7 DEF JoinDevice, Announce, PublishScore, Abort
  <1>8. CASE JoinFind(p) \/ JoinRefind(p)
    <2>1. \A s \in LiveSessions : s \in Sessions /\ row[s].status # "none"
      BY DEF LiveSessions, Live
    <2>2. \A s \in LiveSessions : row'[s].status # "none"
      BY <2>1, RunsStay
    <2>3. [call[p] EXCEPT !.pc = "create"].pc = "create"
      BY <1>0 DEF Call
    <2> QED BY <1>1, <1>3, <1>4, <1>8, <2>1, <2>2, <2>3 DEF JoinFind, JoinRefind
  <1>9. CASE JoinCreate(p)
    <2>1. \A s \in Unused : row' = [row EXCEPT ![s] = Bound] => row'[s].status # "none"
      BY <1>0 DEF Bound, NoRow, Unused
    <2>2. [call[p] EXCEPT !.pc = "refind"].pc = "refind"
      BY <1>0 DEF Call
    <2> QED BY <1>1, <1>3, <1>4, <1>9, <2>1, <2>2 DEF JoinCreate, Unused
  <1>10. ASSUME NEW place \in Places, PingStart(p, place)
         PROVE  After
    <2>1. token[p] \in Sessions /\ row[token[p]].status # "none"
      BY <1>10 DEF PingStart, MadeInv, IInv, TypeInv, TypeOK
    <2>2. ASSUME NEW plausible, NEW waypoint,
                 Continue(p, PingCall(token[p], place, plausible, waypoint))
          PROVE  After
      <3>1. PICK c : c = PingCall(token[p], place, plausible, waypoint)
        OBVIOUS
      <3>2. c.sid = token[p] /\ c.held = Moved(row[token[p]], place, plausible, waypoint)
        BY <3>1, PingCallFields
      <3>3. c.held.status # "none"
        BY <1>0, <2>1, <3>2 DEF Moved, Row
      <3> QED BY <1>2, <2>1, <2>2, <3>1, <3>2, <3>3
    <2> QED BY <1>3, <1>10, <2>2 DEF PingStart
  <1>11. CASE FinishStart(p)
    <2>1. token[p] \in Sessions /\ row[token[p]].status # "none"
      BY <1>11 DEF FinishStart, MadeInv, IInv, TypeInv, TypeOK
    <2> DEFINE c == [NoCall EXCEPT !.pc = "update", !.sid = token[p], !.held = row[token[p]],
                                   !.arrived = TRUE]
    <2>2. c.sid = token[p] /\ c.held = row[token[p]]
      BY DEF NoCall
    <2>3. (\E r : Respond(p, r)) \/ Continue(p, c)
      BY <1>11 DEF FinishStart
    <2> HIDE DEF c
    <2> QED BY <1>2, <1>3, <2>1, <2>2, <2>3
  <1>12. ASSUME NEW t \in Tasks, SubmitStart(p, t)
         PROVE  After
    <2>1. token[p] \in Sessions /\ row[token[p]].status # "none"
      BY <1>12 DEF SubmitStart, MadeInv, IInv, TypeInv, TypeOK
    <2> DEFINE c == [NoCall EXCEPT !.pc = "save", !.sid = token[p], !.task = t]
    <2>2. c.sid = token[p] /\ c.pc = "save"
      BY DEF NoCall
    <2>3. (\E r : Respond(p, r)) \/ Continue(p, c)
      BY <1>12 DEF SubmitStart
    <2> HIDE DEF c
    <2> QED BY <1>2, <1>3, <2>1, <2>2, <2>3
  <1>13. CASE PingClaim(p)
    <2>1. /\ call[p].sid \in Sessions /\ row[call[p].sid].status # "none"
          /\ call[p].held.status # "none"
      BY <1>13, CallSessions DEF PingClaim, MadeInv, Named, Steps, JoinSteps
    <2>2. ASSUME NEW step, NEW entered, NEW fresh,
                 Continue(p, [call[p] EXCEPT !.pc = step, !.entered = entered, !.fresh = fresh])
          PROVE  After
      <3> DEFINE c == [call[p] EXCEPT !.pc = step, !.entered = entered, !.fresh = fresh]
      <3>1. c.sid = call[p].sid /\ c.held = call[p].held
        BY <1>0 DEF Call
      <3>2. Continue(p, c)
        BY <2>2
      <3> HIDE DEF c
      <3> QED BY <1>2, <2>1, <3>1, <3>2
    <2> QED BY <1>13, <2>2 DEF PingClaim
  <1>14. CASE UpdateSession(p)
    <2>1. AfterUpdate(call[p].arrived) \notin {"claim", "update"}
      BY DEF AfterUpdate
    <2> QED BY <1>3, <1>5, <1>14, <2>1 DEF UpdateSession, Steps, JoinSteps
  <1>15. CASE IssueVoucher(p)
    BY <1>5, <1>15 DEF IssueVoucher, Steps, JoinSteps
  <1>16. CASE SaveSubmission(p)
    <2>1. call[p].sid \in Sessions /\ row[call[p].sid].status # "none"
      BY <1>16, CallSessions DEF SaveSubmission, MadeInv, Named, Steps, JoinSteps
    <2> DEFINE c == [call[p] EXCEPT !.pc = "publish",
                                    !.total = SumOf(call[p].sid, call[p].task)]
    <2>2. c.sid = call[p].sid /\ c.pc = "publish"
      BY <1>0 DEF Call
    <2>3. (\E r : Respond(p, r)) \/ Continue(p, c)
      BY <1>16 DEF SaveSubmission
    <2> HIDE DEF c
    <2> QED BY <1>2, <1>3, <2>1, <2>2, <2>3
  <1> QED
    BY <1>6, <1>7, <1>8, <1>9, <1>10, <1>11, <1>12, <1>13, <1>14, <1>15, <1>16
       DEF Request, Step

\* Answers are stored for runs that were made, and tokens minted for them.
LEMMA MadeNext == IInv /\ MadeInv /\ [Next]_vars => MadeInv'
  <1> SUFFICES ASSUME IInv, MadeInv, [Next]_vars
               PROVE  MadeInv'
    OBVIOUS
  <1> USE DEF At
  <1>0. /\ row \in [Sessions -> Row] /\ token \in [Phones -> Sessions \cup {None}]
        /\ answer \in [Sessions -> [Tasks -> Phones \cup {None}]]
    BY DEF IInv, TypeInv, TypeOK
  <1>1. CASE UNCHANGED vars
    BY <1>1 DEF vars, MadeInv, Named, Answered
  <1>2. ASSUME NEW p \in Phones, Request(p) \/ Step(p) \/ Abort(p)
        PROVE  MadeInv'
    <2>1. \A q \in Phones : Named(call[q])'
      <3>1. Named(call[p])' /\ \A q \in Phones \ {p} : call'[q] = call[q]
        BY <1>2, NamedAfter
      <3>2. ASSUME NEW q \in Phones \ {p}
            PROVE  Named(call[q])'
        <4> DEFINE c == call[q]
        <4>1. Named(c) /\ call'[q] = c
          BY <3>1 DEF MadeInv
        <4>2. c.pc \in Steps \ {"find", "create", "refind"} => c.sid \in Sessions
          BY CallSessions
        <4>3. PICK s : s = c.sid
          OBVIOUS
        <4>4. c.pc \in Steps \ {"find", "create", "refind"} => row'[s].status # "none"
          BY <4>1, <4>2, <4>3, RunsStay DEF Named
        <4> QED BY <4>1, <4>3, <4>4 DEF Named
      <3> QED BY <3>1, <3>2
    <2>2. ASSUME NEW q \in Phones, token'[q] # None
          PROVE  row'[token'[q]].status # "none"
      <3>1. CASE token'[q] = token[q]
        <4>1. token[q] \in Sessions /\ row[token[q]].status # "none"
          BY <1>0, <2>2, <3>1 DEF MadeInv
        <4> QED BY <3>1, <4>1, RunsStay
      <3>2. CASE JoinDevice(p) /\ token'[q] = call[p].sid
        <4>1. call[p].sid \in Sessions /\ row[call[p].sid].status # "none"
          BY <3>2, CallSessions DEF JoinDevice, MadeInv, Named, Steps, JoinSteps
        <4> QED BY <3>2, <4>1, RunsStay
      <3>3. JoinDevice(p) => token'[q] = token[q] \/ token'[q] = call[p].sid
        BY <1>0 DEF JoinDevice
      <3>4. JoinDevice(p) \/ UNCHANGED token
        BY <1>2 DEF Request, Step, JoinStart, PingStart, FinishStart, SubmitStart, Abort,
                    JoinFind, JoinCreate, JoinRefind, PingClaim, UpdateSession, IssueVoucher,
                    Announce, SaveSubmission, PublishScore, Return
      <3> QED BY <3>1, <3>2, <3>3, <3>4
    <2>3. ASSUME NEW s \in Sessions, row'[s].status = "none"
          PROVE  Answered(s)' = {}
      <3>1. row[s].status = "none" /\ Answered(s) = {}
        BY <2>3, RunsStay DEF MadeInv
      <3>2. answer'[s] = answer[s]
        <4>1. CASE SaveSubmission(p)
          <5>1. call[p].sid \in Sessions /\ row[call[p].sid].status # "none"
            BY <4>1, CallSessions DEF SaveSubmission, MadeInv, Named, Steps, JoinSteps
          <5>2. call[p].sid # s
            BY <3>1, <5>1
          <5> QED BY <1>0, <4>1, <5>2 DEF SaveSubmission
        <4>2. SaveSubmission(p) \/ UNCHANGED answer
          BY <1>2 DEF Request, Step, JoinStart, PingStart, FinishStart, SubmitStart, Abort,
                      JoinFind, JoinCreate, JoinRefind, JoinDevice, PingClaim, UpdateSession,
                      IssueVoucher, Announce, PublishScore, Return, tables
        <4> QED BY <4>1, <4>2
      <3> QED BY <3>1, <3>2 DEF Answered
    <2> QED BY <2>1, <2>2, <2>3 DEF MadeInv
  <1> QED BY <1>1, <1>2 DEF Next

\* What p's own call holds after a step of it, when nobody else was at work.
LEMMA AloneAfter ==
  ASSUME IInv, MadeInv, TotalIsExact, NEW p \in Phones, Alone(call[p]),
         Request(p) \/ Step(p) \/ Abort(p)
  PROVE  Alone(call[p])' /\ TotalIsExact'
  <1> USE DEF At
  <1>0. TypeInv /\ call[p] \in Call /\ row \in [Sessions -> Row]
    BY DEF IInv, TypeInv, TypeOK
  <1>a. UNCHANGED <<row, answer>> => TotalIsExact'
    BY DEF TotalIsExact, Answered
  <1> DEFINE After == Alone(call[p])'
  <1>1. ASSUME NEW c, Continue(p, c), c.pc \notin {"claim", "update", "save"}
        PROVE  After
    BY <1>0, <1>1, ContinueEffect DEF Alone
  <1>2. ASSUME NEW c, Continue(p, c), UNCHANGED row, row[c.sid].status # Finished,
               c.pc \in {"claim", "update"} => c.held.total = row[c.sid].total
        PROVE  After
    BY <1>0, <1>2, ContinueEffect DEF Alone
  <1>3. ASSUME NEW r, Respond(p, r)
        PROVE  After
    BY <1>0, <1>3, RespondEffect DEF Alone
  <1> HIDE DEF After
  <1>4. CASE \/ JoinStart(p) \/ JoinFind(p) \/ JoinRefind(p) \/ JoinDevice(p)
             \/ Announce(p) \/ PublishScore(p) \/ Abort(p) \/ Return(p)
    <2>1. UNCHANGED <<row, answer>>
      BY <1>4 DEF JoinStart, JoinFind, JoinRefind, JoinDevice, Announce, PublishScore, Abort,
                  Return, tables
    <2>2. call'[p].pc \notin {"claim", "update", "save"}
      BY <1>4, PcElsewhere
    <2> QED BY <1>a, <2>1, <2>2 DEF After, Alone
  <1>5. CASE JoinCreate(p)
    <2>1. call'[p].pc \notin {"claim", "update", "save"}
      BY <1>5, PcElsewhere
    <2>2. TotalIsExact'
      <3>1. UNCHANGED answer
        BY <1>5 DEF JoinCreate
      <3>2. ASSUME NEW s \in Unused, row' = [row EXCEPT ![s] = Bound]
            PROVE  TotalIsExact'
        <4>1. Answered(s) = {} /\ Bound.total = {}
          BY DEF Unused, MadeInv, Bound, NoRow
        <4>2. \A o \in Sessions : row'[o].total = Answered(o)
          BY <1>0, <3>2, <4>1 DEF TotalIsExact, Unused
        <4> QED BY <3>1, <4>2 DEF TotalIsExact, Answered
      <3> QED BY <1>5, <1>a, <3>1, <3>2 DEF JoinCreate
    <2> QED BY <2>1, <2>2 DEF After, Alone
  <1>6. ASSUME NEW place \in Places, PingStart(p, place)
        PROVE  After /\ TotalIsExact'
    <2>1. UNCHANGED <<row, answer>>
      BY <1>6 DEF PingStart, tables
    <2>2. token[p] \in Sessions
      BY <1>6 DEF PingStart, IInv, TypeInv, TypeOK
    <2>3. ASSUME NEW plausible, NEW waypoint, Open(token[p]),
                 Continue(p, PingCall(token[p], place, plausible, waypoint))
          PROVE  After
      <3>1. PICK c : c = PingCall(token[p], place, plausible, waypoint)
        OBVIOUS
      <3>2. c.sid = token[p] /\ c.held = Moved(row[token[p]], place, plausible, waypoint)
        BY <3>1, PingCallFields
      <3>3. c.held.total = row[token[p]].total
        BY <1>0, <2>2, <3>2 DEF Moved, Row
      <3> QED BY <1>2, <2>1, <2>3, <3>1, <3>2, <3>3 DEF Open
    <2>4. After
      BY <1>3, <1>6, <2>3 DEF PingStart
    <2> QED BY <1>a, <2>1, <2>4
  <1>7. CASE FinishStart(p)
    <2>1. UNCHANGED <<row, answer>>
      BY <1>7 DEF FinishStart, tables
    <2> DEFINE c == [NoCall EXCEPT !.pc = "update", !.sid = token[p], !.held = row[token[p]],
                                   !.arrived = TRUE]
    <2>2. c.sid = token[p] /\ c.held = row[token[p]]
      BY DEF NoCall
    <2>3. (\E r : Respond(p, r)) \/ (Open(token[p]) /\ Continue(p, c))
      BY <1>7 DEF FinishStart
    <2> HIDE DEF c
    <2>4. After
      BY <1>2, <1>3, <2>1, <2>2, <2>3 DEF Open
    <2> QED BY <1>a, <2>1, <2>4 DEF After
  <1>8. ASSUME NEW t \in Tasks, SubmitStart(p, t)
        PROVE  After /\ TotalIsExact'
    <2>1. UNCHANGED <<row, answer>>
      BY <1>8 DEF SubmitStart, tables
    <2> DEFINE c == [NoCall EXCEPT !.pc = "save", !.sid = token[p], !.task = t]
    <2>2. c.sid = token[p] /\ c.pc = "save"
      BY DEF NoCall
    <2>3. (\E r : Respond(p, r)) \/ (Open(token[p]) /\ Continue(p, c))
      BY <1>8 DEF SubmitStart
    <2> HIDE DEF c
    <2>4. After
      BY <1>2, <1>3, <2>1, <2>2, <2>3 DEF Open
    <2> QED BY <1>a, <2>1, <2>4
  <1>9. CASE PingClaim(p)
    <2>1. UNCHANGED <<row, answer>>
      BY <1>9 DEF PingClaim
    <2>2. /\ row[call[p].sid].status # Finished
          /\ call[p].held.total = row[call[p].sid].total
      BY <1>9 DEF PingClaim, Alone
    <2>3. ASSUME NEW step, NEW entered, NEW fresh,
                 Continue(p, [call[p] EXCEPT !.pc = step, !.entered = entered, !.fresh = fresh])
          PROVE  After
      <3> DEFINE c == [call[p] EXCEPT !.pc = step, !.entered = entered, !.fresh = fresh]
      <3>1. c.sid = call[p].sid /\ c.held = call[p].held
        BY <1>0 DEF Call
      <3>2. Continue(p, c)
        BY <2>3
      <3> HIDE DEF c
      <3> QED BY <1>2, <2>1, <2>2, <3>1, <3>2
    <2>4. After
      BY <1>9, <2>3 DEF PingClaim
    <2> QED BY <1>a, <2>1, <2>4 DEF After
  <1>10. CASE UpdateSession(p)
    <2>1. call[p].sid \in Sessions /\ call[p].held.total = row[call[p].sid].total
      BY <1>10, CallSessions DEF UpdateSession, Alone, Steps
    <2>2. ToWrite(call[p]).total = row[call[p].sid].total
      BY <1>0, <2>1 DEF ToWrite, Call, Row
    <2>3. \A s \in Sessions : row'[s].total = row[s].total
      BY <1>0, <1>10, <2>1, <2>2 DEF UpdateSession
    <2>4. TotalIsExact'
      <3>1. UNCHANGED answer
        BY <1>10 DEF UpdateSession
      <3> QED BY <2>3, <3>1 DEF TotalIsExact, Answered
    <2>5. ASSUME NEW step, Continue(p, [call[p] EXCEPT !.pc = step]),
                 step \notin {"claim", "update", "save"}
          PROVE  After
      <3>1. [call[p] EXCEPT !.pc = step].pc = step
        BY <1>0 DEF Call
      <3> QED BY <1>1, <2>5, <3>1
    <2>6. AfterUpdate(call[p].arrived) \notin {"claim", "update", "save"}
      BY DEF AfterUpdate
    <2>7. After
      BY <1>3, <1>10, <2>5, <2>6 DEF UpdateSession
    <2> QED BY <2>4, <2>7 DEF After
  <1>11. CASE IssueVoucher(p)
    <2>1. UNCHANGED <<row, answer>>
      BY <1>11 DEF IssueVoucher
    <2>2. [call[p] EXCEPT !.pc = "announce"].pc = "announce"
      BY <1>0 DEF Call
    <2>3. After
      BY <1>1, <1>11, <2>2 DEF IssueVoucher
    <2> QED BY <1>a, <2>1, <2>3 DEF After
  <1>12. CASE SaveSubmission(p)
    <2> DEFINE s == call[p].sid
               t == call[p].task
               c == [call[p] EXCEPT !.pc = "publish", !.total = SumOf(s, t)]
    <2>1. s \in Sessions /\ t \in Tasks
      BY <1>12, CallSessions
      DEF SaveSubmission, IInv, TypeInv, CallShape, Shapely, Steps, JoinSteps
    <2>2. c.pc = "publish"
      BY <1>0 DEF Call
    <2>3. (\E r : Respond(p, r)) \/ Continue(p, c)
      BY <1>12 DEF SaveSubmission
    <2>4. After
      <3> HIDE DEF c
      <3> QED BY <1>1, <1>3, <2>2, <2>3
    <2>5. CASE UNCHANGED <<row, answer>>
      BY <1>a, <2>4, <2>5 DEF After
    <2>6. CASE /\ answer' = [answer EXCEPT ![s][t] = p]
               /\ row' = [row EXCEPT ![s].total = SumOf(s, t)]
      <3>1. answer \in [Sessions -> [Tasks -> Phones \cup {None}]] /\ None \notin Phones
        BY ConstantsAssumption DEF IInv, TypeInv, TypeOK
      <3> HIDE DEF s, t
      <3>2. ASSUME NEW o \in Sessions
            PROVE  row'[o].total = Answered(o)'
        <4>1. CASE o = s
          <5>1. row'[o].total = Answered(s) \cup {t}
            BY <1>0, <2>6, <4>1 DEF Row, SumOf
          <5>2. Answered(o)' = Answered(s) \cup {t}
            BY <2>1, <2>6, <3>1, <4>1 DEF Answered
          <5> QED BY <5>1, <5>2
        <4>2. CASE o # s
          <5>1. row'[o] = row[o] /\ answer'[o] = answer[o]
            BY <1>0, <2>6, <3>1, <4>2
          <5> QED BY <5>1 DEF TotalIsExact, Answered
        <4> QED BY <4>1, <4>2
      <3> QED BY <2>4, <3>2 DEF TotalIsExact, After
    <2> QED BY <1>12, <2>5, <2>6 DEF SaveSubmission
  <1> QED
    BY <1>4, <1>5, <1>6, <1>7, <1>8, <1>9, <1>10, <1>11, <1>12 DEF Request, Step, After

\* The history starts calm, with nothing stored.
LEMMA CalmInit == MCInit => CalmInv
  <1> SUFFICES ASSUME MCInit
               PROVE  CalmInv
    OBVIOUS
  <1>1. /\ \A p \in Phones : call[p].pc = "idle" /\ token[p] = None
        /\ \A s \in Sessions : row[s].total = {} /\ Answered(s) = {}
    BY DEF MCInit, Init, NoCall, NoRow, Answered
  <1>2. "idle" \notin Steps
    BY DEF Steps, JoinSteps
  <1> QED BY <1>1, <1>2 DEF CalmInv, MadeInv, Named, OneAtATime, TotalIsExact, Alone

\* A step of the history is a step of the run.
LEMMA CalmIsRun == [MCNext]_<<vars, calm>> => [Next]_vars
  BY DEF MCNext

\* A phone that is not answered in between finds what it read unchanged.
LEMMA CalmNext == IInv /\ CalmInv /\ [MCNext]_<<vars, calm>> => CalmInv'
  <1> SUFFICES ASSUME IInv, CalmInv, [MCNext]_<<vars, calm>>
               PROVE  CalmInv'
    OBVIOUS
  <1>1. [Next]_vars /\ MadeInv'
    BY CalmIsRun, MadeNext DEF CalmInv
  <1>2. CASE UNCHANGED <<vars, calm>>
    BY <1>1, <1>2 DEF vars, CalmInv, OneAtATime, TotalIsExact, Alone, Answered
  <1>3. CASE MCNext
    <2> SUFFICES ASSUME calm'
                 PROVE  OneAtATime' /\ TotalIsExact' /\ \A p \in Phones : Alone(call[p])'
      BY <1>1 DEF CalmInv
    <2>1. calm /\ OneAtATime'
      BY <1>3 DEF MCNext
    <2>2. MadeInv /\ OneAtATime /\ TotalIsExact /\ \A q \in Phones : Alone(call[q])
      BY <2>1 DEF CalmInv
    <2>3. PICK p \in Phones : Request(p) \/ Step(p) \/ Abort(p)
      BY <1>3 DEF MCNext, Next
    <2>4. Alone(call[p])' /\ TotalIsExact'
      BY <2>2, <2>3, AloneAfter
    <2>5. ASSUME NEW q \in Phones \ {p}
          PROVE  Alone(call[q])'
      <3>1. call'[q] = call[q]
        BY <1>1, <2>2, <2>3, NamedAfter
      <3>2. CASE call[q].pc = "idle"
        BY <3>1, <3>2 DEF Alone
      <3>3. CASE call[q].pc # "idle"
        <4>1. call[p].pc = "idle"
          BY <2>2, <3>3 DEF OneAtATime
        <4>2. UNCHANGED row
          BY <2>3, <4>1
          DEF Request, Step, JoinStart, PingStart, FinishStart, SubmitStart, Abort, JoinFind,
              JoinCreate, JoinRefind, JoinDevice, PingClaim, UpdateSession, IssueVoucher,
              Announce, SaveSubmission, PublishScore, Return, tables, At, Steps, JoinSteps
        <4> QED BY <2>2, <3>1, <4>2 DEF Alone
      <3> QED BY <3>2, <3>3
    <2> QED BY <2>1, <2>4, <2>5
  <1> QED BY <1>2, <1>3

\* The invariant holds along every history.
LEMMA CalmInvariance == MCSpec => [](IInv /\ CalmInv)
  <1>1. MCInit => IInv /\ CalmInv
    BY InvInit, CalmInit DEF MCInit
  <1>2. IInv /\ CalmInv /\ [MCNext]_<<vars, calm>> => IInv' /\ CalmInv'
    BY InvNext, CalmNext, CalmIsRun
  <1> QED BY <1>1, <1>2, PTL DEF MCSpec

\* While the car's phones take turns the stored total is the sum over the stored
\* answers after every step, those of a Ping or a Finish that dies halfway included.
THEOREM CalmTotalsAreExact == MCSpec => []CalmTotalIsExact
  <1>1. CalmInv => CalmTotalIsExact
    BY DEF CalmInv, CalmTotalIsExact
  <1> QED BY CalmInvariance, <1>1, PTL

\* While the car's phones take turns the row and the answers of a finished run never
\* change again: what a call does to them it read while the run was open, and nobody
\* finished it since.
THEOREM CalmFinishStands == MCSpec => CalmFinishIsFinal
  <1> DEFINE Stands == calm' => \A s \in Sessions :
        row[s].status = "finished" => row'[s] = row[s] /\ answer'[s] = answer[s]
  <1>1. IInv /\ CalmInv /\ [MCNext]_<<vars, calm>> => [Stands]_<<row, answer>>
    <2> SUFFICES ASSUME IInv, CalmInv, [MCNext]_<<vars, calm>>,
                        ~(UNCHANGED <<row, answer>>), calm',
                        NEW s \in Sessions, row[s].status = "finished"
                 PROVE  row'[s] = row[s] /\ answer'[s] = answer[s]
      OBVIOUS
    <2> USE DEF At
    <2>1. MCNext
      BY DEF vars
    <2>2. calm /\ \A q \in Phones : Alone(call[q])
      BY <2>1 DEF MCNext, CalmInv
    <2>3. /\ row \in [Sessions -> Row]
          /\ answer \in [Sessions -> [Tasks -> Phones \cup {None}]]
      BY DEF IInv, TypeInv, TypeOK
    <2>4. PICK p \in Phones : Request(p) \/ Step(p) \/ Abort(p)
      BY <2>1 DEF MCNext, Next
    <2>5. JoinCreate(p) \/ UpdateSession(p) \/ SaveSubmission(p)
      BY <2>4 DEF Request, Step, JoinStart, PingStart, FinishStart, SubmitStart, Abort,
                  JoinFind, JoinRefind, JoinDevice, PingClaim, IssueVoucher, Announce,
                  PublishScore, Return, tables
    <2>6. CASE JoinCreate(p)
      BY <2>3, <2>6 DEF JoinCreate, Unused
    <2>7. CASE UpdateSession(p) \/ SaveSubmission(p)
      <3>1. call[p].sid \in Sessions /\ row[call[p].sid].status # "finished"
        BY <2>2, <2>7, CallSessions
        DEF UpdateSession, SaveSubmission, Alone, Finished, Steps, JoinSteps
      <3> QED BY <2>3, <2>7, <3>1 DEF UpdateSession, SaveSubmission
    <2> QED BY <2>5, <2>6, <2>7
  <1> HIDE DEF Stands
  <1>2. MCSpec => [][Stands]_<<row, answer>>
    BY CalmInvariance, <1>1, PTL DEF MCSpec
  <1> QED BY <1>2 DEF CalmFinishIsFinal, Stands

-----------------------------------------------------------------------------
(* Nothing is forgotten: the safety half of what the crew is eventually     *)
(* given and told                                                           *)

\* The boundaries a call has before it are those around the fix it carries, and it
\* writes a run finished only to pay it out.
LEMMA CarriedAfter ==
  ASSUME IInv, CarriedInv, NEW p \in Phones, Request(p) \/ Step(p) \/ Abort(p)
  PROVE  Carried(call'[p]) /\ \A q \in Phones \ {p} : call'[q] = call[q]
  <1> USE DEF At
  <1>0. TypeInv /\ call[p] \in Call /\ Carried(call[p]) /\ row \in [Sessions -> Row]
    BY DEF IInv, TypeInv, TypeOK, CarriedInv
  <1> DEFINE After == Carried(call'[p]) /\ \A q \in Phones \ {p} : call'[q] = call[q]
  <1>1. ASSUME NEW c, Continue(p, c), Carried(c)
        PROVE  After
    BY <1>0, <1>1, ContinueEffect
  <1>2. ASSUME NEW r, Respond(p, r)
        PROVE  After
    <2> DEFINE c == [NoCall EXCEPT !.pc = "reply", !.reply = r]
    <2>1. c.pc = "reply" /\ c.fresh = {} /\ c.entered = {}
      BY DEF NoCall
    <2>2. Continue(p, c)
      BY <1>2 DEF Respond
    <2> HIDE DEF c
    <2>3. Carried(c)
      BY <2>1 DEF Carried
    <2> QED BY <1>1, <2>2, <2>3
  \* A call that goes on with the boundaries and the fix it had.
  <1>3. ASSUME NEW c, Continue(p, c), c.held = call[p].held,
               c.entered \cup c.fresh \subseteq call[p].entered \cup call[p].fresh,
               \/ c.pc \notin {"claim", "update", "voucher"}
               \/ c.pc \in {"claim", "update"} /\ call[p].held.status # Finished
               \/ c.pc = "voucher" /\ c.arrived
        PROVE  After
    <2>1. Carried(c)
      BY <1>0, <1>3 DEF Carried
    <2> QED BY <1>1, <1>3, <2>1
  <1>4. ASSUME NEW s, NEW step, step \notin {"claim", "update", "voucher"}, NEW c, Continue(p, c),
               \/ c = [call[p] EXCEPT !.pc = step, !.sid = s]
               \/ c = [call[p] EXCEPT !.pc = step]
        PROVE  After
    <2>1. /\ c.pc = step /\ c.held = call[p].held
          /\ c.entered = call[p].entered /\ c.fresh = call[p].fresh
      BY <1>0, <1>4 DEF Call
    <2> QED BY <1>3, <1>4, <2>1
  <1> SUFFICES After
    OBVIOUS
  <1> HIDE DEF After
  <1>5. CASE JoinStart(p) \/ Return(p)
    <2>1. Carried([NoCall EXCEPT !.pc = "find"]) /\ Carried(NoCall)
      BY DEF Carried, NoCall
    <2> QED BY <1>1, <1>5, <2>1 DEF JoinStart, Return
  <1>6. CASE JoinDevice(p) \/ Announce(p) \/ PublishScore(p) \/ Abort(p)
    BY <1>2, <1>6 DEF JoinDevice, Announce, PublishScore, Abort
  <1>7. CASE JoinFind(p) \/ JoinCreate(p) \/ JoinRefind(p)
    <2>1. ASSUME NEW s, Continue(p, [call[p] EXCEPT !.pc = "device", !.sid = s])
          PROVE  After
      <3>1. PICK c : Continue(p, c) /\ c = [call[p] EXCEPT !.pc = "device", !.sid = s]
        BY <2>1
      <3> QED BY <1>4, <3>1
    <2>2. ASSUME NEW step \in {"create", "refind"}, Continue(p, [call[p] EXCEPT !.pc = step])
          PROVE  After
      <3>1. PICK c : Continue(p, c) /\ c = [call[p] EXCEPT !.pc = step]
        BY <2>2
      <3> QED BY <1>4, <3>1
    <2>3. JoinFind(p) \/ JoinCreate(p) \/ JoinRefind(p) =>
            \/ \E s : Continue(p, [call[p] EXCEPT !.pc = "device", !.sid = s])
            \/ \E step \in {"create", "refind"} : Continue(p, [call[p] EXCEPT !.pc = step])
            \/ \E r : Respond(p, r)
      BY DEF JoinFind, JoinCreate, JoinRefind
    <2> QED BY <1>2, <1>7, <2>1, <2>2, <2>3
  <1>8. ASSUME NEW place \in Places, PingStart(p, place)
        PROVE  After
    <2>1. token[p] \in Sessions /\ (Respond(p, "finished") \/ Open(token[p]))
      BY <1>8 DEF PingStart, IInv, TypeInv, TypeOK
    <2>2. ASSUME NEW plausible, NEW waypoint, Open(token[p]),
                 Continue(p, PingCall(token[p], place, plausible, waypoint))
          PROVE  After
      <3>1. PICK c : c = PingCall(token[p], place, plausible, waypoint)
        OBVIOUS
      <3>2. /\ c.held = Moved(row[token[p]], place, plausible, waypoint)
            /\ c.fresh = {} /\ c.entered \subseteq Inside[place] /\ c.pc \in {"claim", "update"}
        BY <3>1 DEF PingCall, NoCall
      <3>3. c.held.fix = place /\ c.held.status # Finished
        BY <1>0, <2>1, <2>2, <3>2 DEF Moved, Row, Open, Finished
      <3>4. Carried(c)
        BY <3>2, <3>3 DEF Carried
      <3> QED BY <1>1, <2>2, <3>1, <3>4
    <2> QED BY <1>2, <1>8, <2>1, <2>2 DEF PingStart
  <1>9. CASE FinishStart(p)
    <2> DEFINE c == [NoCall EXCEPT !.pc = "update", !.sid = token[p], !.held = row[token[p]],
                                   !.arrived = TRUE]
    <2>1. /\ c.pc = "update" /\ c.held = row[token[p]]
          /\ c.entered = {} /\ c.fresh = {}
      BY DEF NoCall
    <2>2. (\E r : Respond(p, r)) \/ (Open(token[p]) /\ Continue(p, c))
      BY <1>9 DEF FinishStart
    <2> HIDE DEF c
    <2>3. Open(token[p]) => Carried(c)
      BY <2>1 DEF Carried, Open
    <2> QED BY <1>1, <1>2, <2>2, <2>3
  <1>10. ASSUME NEW t \in Tasks, SubmitStart(p, t)
         PROVE  After
    <2> DEFINE c == [NoCall EXCEPT !.pc = "save", !.sid = token[p], !.task = t]
    <2>1. c.pc = "save" /\ c.entered = {} /\ c.fresh = {}
      BY DEF NoCall
    <2>2. (\E r : Respond(p, r)) \/ Continue(p, c)
      BY <1>10 DEF SubmitStart
    <2> HIDE DEF c
    <2>3. Carried(c)
      BY <2>1 DEF Carried
    <2> QED BY <1>1, <1>2, <2>2, <2>3
  <1>11. CASE PingClaim(p)
    <2>1. PICK w \in call[p].entered : \E step \in {"claim", "update"} : \E fresh :
            /\ fresh \subseteq call[p].fresh \cup {w}
            /\ Continue(p, [call[p] EXCEPT !.pc = step, !.entered = @ \ {w}, !.fresh = fresh])
      BY <1>11 DEF PingClaim
    <2>2. PICK step \in {"claim", "update"} : \E fresh :
            /\ fresh \subseteq call[p].fresh \cup {w}
            /\ Continue(p, [call[p] EXCEPT !.pc = step, !.entered = @ \ {w}, !.fresh = fresh])
      BY <2>1
    <2>3. PICK fresh :
            /\ fresh \subseteq call[p].fresh \cup {w}
            /\ Continue(p, [call[p] EXCEPT !.pc = step, !.entered = @ \ {w}, !.fresh = fresh])
      BY <2>2
    <2> DEFINE c == [call[p] EXCEPT !.pc = step, !.entered = @ \ {w}, !.fresh = fresh]
    <2>4. /\ c.pc = step /\ c.held = call[p].held
          /\ c.entered = call[p].entered \ {w} /\ c.fresh = fresh
      BY <1>0 DEF Call
    <2>5. Continue(p, c) /\ call[p].held.status # Finished
      BY <1>0, <1>11, <2>3 DEF PingClaim, Carried
    <2> HIDE DEF c
    <2>6. c.entered \cup c.fresh \subseteq call[p].entered \cup call[p].fresh
      BY <2>4, <2>3
    <2> QED BY <1>3, <2>4, <2>5, <2>6
  <1>12. CASE UpdateSession(p)
    <2> DEFINE c == [call[p] EXCEPT !.pc = AfterUpdate(call[p].arrived)]
    <2>1. /\ c.pc = AfterUpdate(call[p].arrived) /\ c.held = call[p].held
          /\ c.entered = call[p].entered /\ c.fresh = call[p].fresh
          /\ c.arrived = call[p].arrived
      BY <1>0 DEF Call
    <2>2. Respond(p, "error") \/ Continue(p, c)
      BY <1>12 DEF UpdateSession
    <2> HIDE DEF c
    <2>3. c.pc \notin {"claim", "update", "voucher"} \/ (c.pc = "voucher" /\ c.arrived)
      BY <2>1 DEF AfterUpdate
    <2> QED BY <1>2, <1>3, <2>1, <2>2, <2>3
  <1>13. CASE IssueVoucher(p)
    BY <1>4, <1>13 DEF IssueVoucher
  <1>14. CASE SaveSubmission(p)
    <2> DEFINE c == [call[p] EXCEPT !.pc = "publish",
                                    !.total = SumOf(call[p].sid, call[p].task)]
    <2>1. /\ c.pc = "publish" /\ c.held = call[p].held
          /\ c.entered = call[p].entered /\ c.fresh = call[p].fresh
      BY <1>0 DEF Call
    <2>2. (\E r : Respond(p, r)) \/ Continue(p, c)
      BY <1>14 DEF SaveSubmission
    <2> HIDE DEF c
    <2> QED BY <1>2, <1>3, <2>1, <2>2
  <1> QED
    BY <1>5, <1>6, <1>7, <1>8, <1>9, <1>10, <1>11, <1>12, <1>13, <1>14
       DEF Request, Step

\* So it is with every call after every step.
LEMMA CarriedNext == IInv /\ CarriedInv /\ [Next]_vars => CarriedInv'
  <1> SUFFICES ASSUME IInv, CarriedInv, [Next]_vars
               PROVE  CarriedInv'
    OBVIOUS
  <1>1. CASE UNCHANGED vars
    BY <1>1 DEF vars, CarriedInv
  <1>2. ASSUME NEW p \in Phones, Request(p) \/ Step(p) \/ Abort(p)
        PROVE  CarriedInv'
    <2>1. \A q \in Phones : Carried(call'[q])
      BY <1>2, CarriedAfter DEF CarriedInv
    <2> QED BY <2>1 DEF CarriedInv, Carried
  <1> QED BY <1>1, <1>2 DEF Next

\* A call on its way to the announcement takes its next statement, or dies.
LEMMA OnItsWay ==
  ASSUME NEW p \in Phones, Request(p) \/ Step(p) \/ Abort(p), ~Faults
  PROVE  /\ call[p].pc = "claim" => PingClaim(p)
         /\ call[p].pc = "update" => UpdateSession(p)
         /\ call[p].pc = "voucher" => IssueVoucher(p)
         /\ call[p].pc = "announce" => Announce(p)
  <1>1. ~Abort(p)
    BY DEF Abort
  <1>2. Request(p) => call[p].pc = "idle"
    BY DEF Request, JoinStart, PingStart, FinishStart, SubmitStart, At
  <1>3. Step(p) =>
          \/ call[p].pc \in {"find", "create", "refind", "device", "save", "publish", "reply"}
          \/ PingClaim(p) \/ UpdateSession(p) \/ IssueVoucher(p) \/ Announce(p)
    <2>1. JoinFind(p) \/ JoinCreate(p) \/ JoinRefind(p) \/ JoinDevice(p)
            => call[p].pc \in {"find", "create", "refind", "device"}
      BY DEF JoinFind, JoinCreate, JoinRefind, JoinDevice, At
    <2>2. SaveSubmission(p) \/ PublishScore(p) \/ Return(p)
            => call[p].pc \in {"save", "publish", "reply"}
      BY DEF SaveSubmission, PublishScore, Return, At
    <2> QED BY <2>1, <2>2 DEF Step
  <1>4. /\ PingClaim(p) => call[p].pc = "claim"
        /\ UpdateSession(p) => call[p].pc = "update"
        /\ IssueVoucher(p) => call[p].pc = "voucher"
        /\ Announce(p) => call[p].pc = "announce"
    BY DEF PingClaim, UpdateSession, IssueVoucher, Announce, At
  <1> QED BY <1>1, <1>2, <1>3, <1>4

\* What was announced or issued stays so.
LEMMA TopicsGrow ==
  ASSUME IInv, NEW p \in Phones, Request(p) \/ Step(p) \/ Abort(p)
  PROVE  /\ voucher \subseteq voucher' /\ told \subseteq told'
         /\ \A s \in Sessions : opened[s] \subseteq opened'[s] /\ unlocked[s] \subseteq unlocked'[s]
  <1>1. /\ opened \in [Sessions -> SUBSET Waypoints]
        /\ unlocked \in [Sessions -> SUBSET Waypoints]
    BY DEF IInv, TypeInv, TypeOK
  <1>2. CASE Announce(p)
    BY <1>1, <1>2 DEF Announce, tables
  <1>3. CASE IssueVoucher(p)
    BY <1>3 DEF IssueVoucher, topics
  <1>4. CASE UNCHANGED <<voucher, told, opened, unlocked>>
    BY <1>4
  <1>5. Announce(p) \/ IssueVoucher(p) \/ UNCHANGED <<voucher, told, opened, unlocked>>
    BY DEF Request, Step, JoinStart, PingStart, FinishStart, SubmitStart, Abort, JoinFind,
           JoinCreate, JoinRefind, JoinDevice, PingClaim, UpdateSession, SaveSubmission,
           PublishScore, Return, tables, topics
  <1> QED BY <1>2, <1>3, <1>4, <1>5

\* A run becomes finished only by the write of a call that then goes on to pay it out.
LEMMA WhoFinishes ==
  ASSUME IInv, CarriedInv, NEW p \in Phones, Request(p) \/ Step(p) \/ Abort(p),
         NEW s \in Sessions, row'[s].status = "finished", row[s].status # "finished"
  PROVE  call'[p].pc = "voucher" /\ Arriving(call'[p], s)
  <1> USE DEF At
  <1>0. TypeInv /\ call[p] \in Call /\ row \in [Sessions -> Row]
    BY DEF IInv, TypeInv, TypeOK
  <1>1. CASE UpdateSession(p)
    <2>1. call[p].sid \in Sessions /\ call[p].held.status # "finished"
      BY <1>1, CallSessions DEF UpdateSession, Steps, CarriedInv, Carried, Finished
    <2>2. /\ row' = [row EXCEPT ![call[p].sid] = ToWrite(call[p])]
          /\ Continue(p, [call[p] EXCEPT !.pc = AfterUpdate(call[p].arrived)])
      BY <1>1 DEF UpdateSession
    <2>3. s = call[p].sid /\ ToWrite(call[p]).status = "finished"
      BY <1>0, <2>1, <2>2
    <2>4. call[p].arrived
      BY <2>1, <2>3 DEF ToWrite
    <2> DEFINE c == [call[p] EXCEPT !.pc = AfterUpdate(call[p].arrived)]
    <2>5. c.pc = "voucher" /\ c.sid = s /\ c.arrived
      BY <1>0, <2>3, <2>4 DEF Call, AfterUpdate
    <2>6. Continue(p, c)
      BY <2>2
    <2> HIDE DEF c
    <2> QED BY <1>0, <2>5, <2>6, ContinueEffect DEF Arriving
  <1>2. CASE JoinCreate(p)
    <2>1. UNCHANGED row \/ \E o \in Unused : row' = [row EXCEPT ![o] = Bound]
      BY <1>2 DEF JoinCreate
    <2>2. Bound.status = "bound"
      BY DEF Bound, NoRow
    <2> QED BY <1>0, <2>1, <2>2 DEF Unused
  <1>3. CASE SaveSubmission(p)
    <2>1. CASE row' = [row EXCEPT ![call[p].sid].total = SumOf(call[p].sid, call[p].task)]
      BY <1>0, <2>1 DEF Row
    <2> QED BY <1>3, <2>1 DEF SaveSubmission
  <1>4. CASE UNCHANGED row
    BY <1>4
  <1>5. UpdateSession(p) \/ JoinCreate(p) \/ SaveSubmission(p) \/ UNCHANGED row
    BY DEF Request, Step, JoinStart, PingStart, FinishStart, SubmitStart, Abort, JoinFind,
           JoinRefind, JoinDevice, PingClaim, IssueVoucher, Announce, PublishScore,
           Return, tables
  <1> QED BY <1>1, <1>2, <1>3, <1>4, <1>5

\* The call that pays a run out takes the voucher with it to the announcement, and
\* then the crew has been told.
LEMMA PayingOut ==
  ASSUME IInv, NEW p \in Phones, NEW s \in Sessions, Arriving(call[p], s)
  PROVE  /\ IssueVoucher(p) => s \in voucher' /\ Arriving(call'[p], s)
         /\ Announce(p) => s \in told'
  <1>0. TypeInv /\ call[p] \in Call /\ call[p].sid = s /\ call[p].arrived
    BY DEF IInv, TypeInv, TypeOK, Arriving
  <1>1. ASSUME IssueVoucher(p)
        PROVE  s \in voucher' /\ Arriving(call'[p], s)
    <2> DEFINE c == [call[p] EXCEPT !.pc = "announce"]
    <2>1. c.pc = "announce" /\ c.sid = s /\ c.arrived
      BY <1>0 DEF Call
    <2>2. Continue(p, c)
      BY <1>1 DEF IssueVoucher
    <2> HIDE DEF c
    <2>3. Arriving(call'[p], s)
      BY <1>0, <2>1, <2>2, ContinueEffect DEF Arriving
    <2> QED BY <1>0, <1>1, <2>3 DEF IssueVoucher
  <1>2. Announce(p) => s \in told'
    BY <1>0 DEF Announce
  <1> QED BY <1>1, <1>2

\* A call that holds a boundary as fresh keeps it until the announcement names the
\* boundary and its tasks, unless the index refuses its write beside another run.
LEMMA FreshIsAnnounced ==
  ASSUME IInv, CarriedInv, ~Faults, NEW p \in Phones, Request(p) \/ Step(p) \/ Abort(p),
         NEW s \in Sessions, OnlyRun(s), call[p].sid = s, NEW w \in call[p].fresh
  PROVE  \/ w \in opened'[s] \cap unlocked'[s]
         \/ call'[p].sid = s /\ w \in call'[p].fresh
  <1> USE DEF At
  <1>0. TypeInv /\ call[p] \in Call
    BY DEF IInv, TypeInv, TypeOK
  <1>1. call[p].pc \in {"claim", "update", "voucher", "announce"}
    BY DEF IInv, EdgeInv
  <1>2. ASSUME NEW c, Continue(p, c), c.sid = s, w \in c.fresh
        PROVE  call'[p].sid = s /\ w \in call'[p].fresh
    BY <1>0, <1>2, ContinueEffect
  <1>3. CASE PingClaim(p)
    <2>1. PICK step, entered, fresh :
            /\ call[p].fresh \subseteq fresh
            /\ Continue(p, [call[p] EXCEPT !.pc = step, !.entered = entered, !.fresh = fresh])
      <3>1. PICK v \in call[p].entered :
              Continue(p, [call[p] EXCEPT
                !.pc = IF call[p].entered = {v} THEN "update" ELSE "claim",
                !.entered = @ \ {v},
                !.fresh = IF ClaimNew(call[p].sid, v) THEN @ \cup {v} ELSE @])
        BY <1>3 DEF PingClaim
      <3> QED BY <3>1
    <2> DEFINE c == [call[p] EXCEPT !.pc = step, !.entered = entered, !.fresh = fresh]
    <2>2. c.sid = s /\ c.fresh = fresh
      BY <1>0 DEF Call
    <2>3. Continue(p, c)
      BY <2>1
    <2> HIDE DEF c
    <2> QED BY <1>2, <2>1, <2>2, <2>3
  <1>4. ASSUME NEW step, Continue(p, [call[p] EXCEPT !.pc = step])
        PROVE  call'[p].sid = s /\ w \in call'[p].fresh
    <2> DEFINE c == [call[p] EXCEPT !.pc = step]
    <2>1. c.sid = s /\ c.fresh = call[p].fresh
      BY <1>0 DEF Call
    <2>2. Continue(p, c)
      BY <1>4
    <2> HIDE DEF c
    <2> QED BY <1>2, <2>1, <2>2
  <1>5. CASE UpdateSession(p)
    <2>1. ~Collides(s, ToWrite(call[p]))
      BY DEF OnlyRun, Collides, Live
    <2> QED BY <1>4, <1>5, <2>1 DEF UpdateSession
  <1>6. CASE IssueVoucher(p)
    BY <1>4, <1>6 DEF IssueVoucher
  <1>7. CASE Announce(p)
    <2>1. w \in Inside[call[p].held.fix]
      BY DEF CarriedInv, Carried
    <2>2. w \in Kept(call[p]) /\ w \in Unlocked(call[p])
      BY <2>1 DEF Kept, Unlocked
    <2>3. /\ opened \in [Sessions -> SUBSET Waypoints]
          /\ unlocked \in [Sessions -> SUBSET Waypoints]
      BY <1>0 DEF TypeInv, TypeOK
    <2> QED BY <1>7, <2>2, <2>3 DEF Announce
  <1> QED BY <1>1, <1>3, <1>5, <1>6, <1>7, OnItsWay

\* A boundary is visited by the claim of the call that then holds it as fresh.
LEMMA WhoVisits ==
  ASSUME IInv, NEW p \in Phones, Request(p) \/ Step(p) \/ Abort(p),
         NEW s \in Sessions, NEW w \in visited'[s] \ visited[s]
  PROVE  call'[p].sid = s /\ w \in call'[p].fresh
  <1>0. TypeInv /\ call[p] \in Call /\ visited \in [Sessions -> SUBSET Waypoints]
    BY DEF IInv, TypeInv, TypeOK
  <1>1. PingClaim(p)
    <2>1. PingClaim(p) \/ UNCHANGED visited
      BY DEF Request, Step, JoinStart, PingStart, FinishStart, SubmitStart, Abort, JoinFind,
             JoinCreate, JoinRefind, JoinDevice, UpdateSession, IssueVoucher, Announce,
             SaveSubmission, PublishScore, Return, tables
    <2> QED BY <2>1
  <1>2. PICK v \in call[p].entered :
          /\ visited' = [visited EXCEPT ![call[p].sid] = @ \cup {v}]
          /\ Continue(p, [call[p] EXCEPT
                !.pc = IF call[p].entered = {v} THEN "update" ELSE "claim",
                !.entered = @ \ {v},
                !.fresh = IF ClaimNew(call[p].sid, v) THEN @ \cup {v} ELSE @])
    BY <1>1 DEF PingClaim
  <1>3. call[p].sid = s /\ v = w /\ ClaimNew(call[p].sid, v)
    BY <1>0, <1>2 DEF ClaimNew
  <1> DEFINE c == [call[p] EXCEPT
                !.pc = IF call[p].entered = {v} THEN "update" ELSE "claim",
                !.entered = @ \ {v},
                !.fresh = IF ClaimNew(call[p].sid, v) THEN @ \cup {v} ELSE @]
  <1>4. c.sid = s /\ w \in c.fresh
    BY <1>0, <1>3 DEF Call
  <1>5. Continue(p, c)
    BY <1>2
  <1> HIDE DEF c
  <1> QED BY <1>0, <1>4, <1>5, ContinueEffect

\* No step forgets a finished run's voucher and announcement, or a boundary.
LEMMA ForgottenNext ==
  IInv /\ MadeInv /\ CarriedInv /\ NothingForgotten /\ [Next]_vars => NothingForgotten'
  <1> SUFFICES ASSUME IInv, MadeInv, CarriedInv, NothingForgotten, [Next]_vars
               PROVE  NothingForgotten'
    OBVIOUS
  <1>1. CASE UNCHANGED vars
    BY <1>1 DEF vars, NothingForgotten, OnlyRun, At
  <1>2. ASSUME NEW p \in Phones, Request(p) \/ Step(p) \/ Abort(p), ~Faults, NEW s \in Sessions
        PROVE  /\ row'[s].status = "finished" =>
                    /\ s \in voucher'
                       \/ \E q \in Phones : At(q, "voucher")' /\ Arriving(call'[q], s)
                    /\ s \in told' \/ \E q \in Phones : Arriving(call'[q], s)
               /\ OnlyRun(s)' =>
                    \A w \in visited'[s] \ (opened'[s] \cap unlocked'[s]) :
                      \E q \in Phones : call'[q].sid = s /\ w \in call'[q].fresh
    <2>1. \A q \in Phones \ {p} : call'[q] = call[q]
      BY <1>2, CarriedAfter
    <2>2. /\ voucher \subseteq voucher' /\ told \subseteq told'
          /\ opened[s] \subseteq opened'[s] /\ unlocked[s] \subseteq unlocked'[s]
      BY <1>2, TopicsGrow
    <2>3. ASSUME row'[s].status = "finished"
          PROVE  s \in voucher' \/ \E q \in Phones : At(q, "voucher")' /\ Arriving(call'[q], s)
      <3>1. CASE row[s].status # "finished"
        BY <1>2, <2>3, <3>1, WhoFinishes DEF At
      <3>2. CASE s \in voucher
        BY <2>2, <3>2
      <3>3. ASSUME NEW q \in Phones, At(q, "voucher"), Arriving(call[q], s)
            PROVE  s \in voucher' \/ (At(q, "voucher")' /\ Arriving(call'[q], s))
        <4>1. CASE q = p
          BY <1>2, <3>3, <4>1, OnItsWay, PayingOut DEF At
        <4>2. CASE q # p
          BY <2>1, <3>3, <4>2 DEF At
        <4> QED BY <4>1, <4>2
      <3> QED BY <1>2, <3>1, <3>2, <3>3 DEF NothingForgotten
    <2>4. ASSUME row'[s].status = "finished"
          PROVE  s \in told' \/ \E q \in Phones : Arriving(call'[q], s)
      <3>1. CASE row[s].status # "finished"
        BY <1>2, <2>4, <3>1, WhoFinishes
      <3>2. CASE s \in told
        BY <2>2, <3>2
      <3>3. ASSUME NEW q \in Phones, Arriving(call[q], s)
            PROVE  s \in told' \/ Arriving(call'[q], s)
        <4>1. CASE q = p
          <5>1. call[q].pc \in {"voucher", "announce"}
            BY <3>3 DEF Arriving
          <5> QED BY <1>2, <3>3, <4>1, <5>1, OnItsWay, PayingOut
        <4>2. CASE q # p
          BY <2>1, <3>3, <4>2
        <4> QED BY <4>1, <4>2
      <3> QED BY <1>2, <3>1, <3>2, <3>3 DEF NothingForgotten
    <2>5. ASSUME OnlyRun(s)', NEW w \in visited'[s] \ (opened'[s] \cap unlocked'[s])
          PROVE  \E q \in Phones : call'[q].sid = s /\ w \in call'[q].fresh
      <3>1. OnlyRun(s)
        BY <2>5, RunsStay DEF OnlyRun
      <3>2. CASE w \notin visited[s]
        BY <1>2, <2>5, <3>2, WhoVisits
      <3>3. CASE w \in visited[s]
        <4>1. w \notin opened[s] \cap unlocked[s]
          BY <2>2, <2>5
        <4>2. PICK q \in Phones : call[q].sid = s /\ w \in call[q].fresh
          BY <1>2, <3>1, <3>3, <4>1 DEF NothingForgotten
        <4>3. CASE q = p
          BY <1>2, <2>5, <3>1, <4>2, <4>3, FreshIsAnnounced
        <4>4. CASE q # p
          BY <2>1, <4>2, <4>4
        <4> QED BY <4>3, <4>4
      <3> QED BY <3>2, <3>3
    <2> QED BY <2>3, <2>4, <2>5
  <1>3. CASE Next
    BY <1>2, <1>3 DEF Next, NothingForgotten, OnlyRun, Arriving, At
  <1> QED BY <1>1, <1>3

\* In the empty database nothing is owed.
LEMMA ForgottenInit == Init => MadeInv /\ CarriedInv /\ NothingForgotten
  <1> SUFFICES ASSUME Init
               PROVE  MadeInv /\ CarriedInv /\ NothingForgotten
    OBVIOUS
  <1>1. \A p \in Phones : call[p].pc = "idle" /\ call[p].entered = {} /\ call[p].fresh = {}
    BY DEF Init, NoCall
  <1>2. CarriedInv
    BY <1>1 DEF CarriedInv, Carried
  <1>3. MadeInv
    BY <1>1 DEF Init, MadeInv, Named, Answered, Steps, JoinSteps
  <1>4. \A s \in Sessions : row[s].status = "none" /\ visited[s] = {}
    BY DEF Init, NoRow
  <1> QED BY <1>2, <1>3, <1>4 DEF NothingForgotten

\* Where no statement fails, whatever order the phones' calls come in, a finished run
\* has its voucher and its announcement or a call on its way to them, and a boundary
\* of the car's only run has its tasks announced or a call that holds it as fresh.
THEOREM NothingIsForgotten == Spec => []NothingForgotten
  <1>1. Init => IInv /\ MadeInv /\ CarriedInv /\ NothingForgotten
    BY InvInit, ForgottenInit
  <1>2. IInv /\ MadeInv /\ CarriedInv /\ NothingForgotten /\ [Next]_vars
          => (IInv /\ MadeInv /\ CarriedInv /\ NothingForgotten)'
    BY InvNext, MadeNext, CarriedNext, ForgottenNext
  <1> QED BY <1>1, <1>2, PTL DEF Spec

=============================================================================
