------------------------ MODULE RallyAlerts_proofs -------------------------
(***************************************************************************)
(* Theorems of RallyAlerts, for any number of callers and alerts.          *)
(***************************************************************************)
EXTENDS MCRallyAlerts, TLAPS

\* The records the handlers start from and end with.
LEMMA BlankCalls ==
  /\ NoCall \in Call
  /\ \A outcome \in {"none", "ok", "error"} : [NoCall EXCEPT !.outcome = outcome] \in Call
  /\ \A outcome : [NoCall EXCEPT !.outcome = outcome].pc = "idle"
  BY DEF NoCall, Call, Stages, Statuses, Steps

\* A step that only moves one caller's record keeps the invariant if the new
\* record is well formed and backed.
LEMMA Frames ==
  ASSUME AlertInv, NEW c \in Callers, NEW r \in Call, Continue(c, r), Backed(r),
         UNCHANGED <<alert, status, shown>>
  PROVE  AlertInv'
  <1>1. call' = [call EXCEPT ![c] = r] /\ call \in [Callers -> Call]
    BY DEF AlertInv, TypeOK, Continue
  <1>2. TypeOK' /\ ShownWasStored'
    BY <1>1 DEF AlertInv, TypeOK, ShownWasStored
  <1>3. ASSUME NEW d \in Callers
        PROVE  Backed(call[d])'
    <2>1. CASE d = c
      BY <1>1, <2>1 DEF Backed
    <2>2. CASE d # c
      BY <1>1, <2>2 DEF AlertInv, Backed
    <2> QED BY <2>1, <2>2
  <1> QED BY <1>2, <1>3 DEF AlertInv

\* A car nobody has reported anything about satisfies the invariant.
LEMMA AlertInit == Init => AlertInv
  <1> SUFFICES ASSUME Init
               PROVE  AlertInv
    OBVIOUS
  <1>1. TypeOK /\ ShownWasStored
    BY BlankCalls DEF Init, TypeOK, ShownWasStored, Types, Stages, Statuses
  <1>2. \A c \in Callers : Backed(call[c])
    BY DEF Init, Backed, NoCall
  <1> QED BY <1>1, <1>2 DEF AlertInv

\* Every step of every Raise and Resolve preserves the invariant.
LEMMA AlertNext == AlertInv /\ [Next]_vars => AlertInv'
  <1> SUFFICES ASSUME AlertInv, [Next]_vars
               PROVE  AlertInv'
    OBVIOUS
  <1> USE DEF At
  <1>a. /\ alert \in [Alerts -> [type : Types, stage : Stages]]
        /\ shown \in [Alerts -> Stages]
        /\ status \in Statuses
        /\ call \in [Callers -> Call]
    BY DEF AlertInv, TypeOK
  <1>1. ASSUME NEW c \in Callers, NEW outcome \in {"none", "ok", "error"}, Answer(c, outcome),
               UNCHANGED <<alert, status, shown>>
        PROVE  AlertInv'
    <2> DEFINE r == [NoCall EXCEPT !.outcome = outcome]
    <2>1. r \in Call /\ r.pc = "idle" /\ Continue(c, r)
      BY <1>1, BlankCalls DEF Answer
    <2> HIDE DEF r
    <2>2. Backed(r)
      BY <2>1 DEF Backed
    <2> QED BY <1>1, <2>1, <2>2, Frames
  <1>2. ASSUME NEW c \in Callers, NEW a \in Alerts, NEW t \in Types, Raise(c, a, t)
        PROVE  AlertInv'
    <2> DEFINE r == [NoCall EXCEPT !.pc = IF Blocking(t) THEN "set" ELSE "publish",
                                   !.id = a, !.stage = "open",
                                   !.next = IF Blocking(t) THEN t ELSE "ok"]
    <2>1. /\ r \in Call /\ r.pc \in {"set", "publish"} /\ r.id = a /\ r.stage = "open"
      BY BlankCalls DEF NoCall, Call, Steps, Stages, Statuses, Blocking
    <2>2. call' = [call EXCEPT ![c] = r]
      BY <1>2 DEF Raise, Continue
    <2> HIDE DEF r
    <2>3. /\ alert[a].stage = "none"
          /\ alert' = [alert EXCEPT ![a] = [type |-> t, stage |-> "open"]]
          /\ UNCHANGED <<status, shown>>
      BY <1>2 DEF Raise
    <2>4. TypeOK'
      BY <1>a, <2>1, <2>2, <2>3 DEF TypeOK, Stages
    <2>5. ShownWasStored'
      BY <1>a, <2>3 DEF AlertInv, ShownWasStored
    <2>6. ASSUME NEW d \in Callers
          PROVE  Backed(call[d])'
      <3>1. CASE d = c
        BY <1>a, <2>1, <2>2, <2>3, <3>1 DEF Backed
      <3>2. CASE d # c
        BY <1>a, <2>2, <2>3, <3>2 DEF AlertInv, Backed
      <3> QED BY <3>1, <3>2
    <2> QED BY <2>4, <2>5, <2>6 DEF AlertInv
  <1>3. ASSUME NEW c \in Callers, NEW a \in Alerts, Resolve(c, a)
        PROVE  AlertInv'
    <2> DEFINE r == [NoCall EXCEPT !.pc = "resolve", !.id = a, !.stage = "resolved"]
    <2>1. r \in Call /\ r.pc = "resolve" /\ r.id = a /\ r.stage = "resolved"
      BY BlankCalls DEF NoCall, Call, Steps, Stages
    <2>2. \/ alert[a].stage = "open" /\ Continue(c, r)
          \/ Answer(c, "ok")
      BY <1>3 DEF Resolve
    <2>3. UNCHANGED <<alert, status, shown>>
      BY <1>3 DEF Resolve
    <2> HIDE DEF r
    <2>4. alert[a].stage = "open" => Backed(r)
      BY <2>1 DEF Backed
    <2> QED BY <1>1, <2>1, <2>2, <2>3, <2>4, Frames
  <1>4. ASSUME NEW c \in Callers, ResolveRow(c)
        PROVE  AlertInv'
    <2> DEFINE a == call[c].id
               r == [call[c] EXCEPT !.pc = "reread"]
    <2>1. a \in Alerts /\ call[c].stage = "resolved" /\ alert[a].stage # "none"
      BY <1>4 DEF ResolveRow, AlertInv, Backed
    <2>2. r \in Call /\ r.pc = "reread" /\ r.id = a /\ r.stage = "resolved"
      BY <1>a, <2>1 DEF Call, Steps
    <2>3. call' = [call EXCEPT ![c] = r]
      BY <1>4 DEF ResolveRow, Continue
    <2>4. /\ alert' = [alert EXCEPT ![a].stage = "resolved"]
          /\ UNCHANGED <<status, shown>>
      BY <1>4 DEF ResolveRow
    <2> HIDE DEF a, r
    <2>5. alert' \in [Alerts -> [type : Types, stage : Stages]]
      BY <1>a, <2>1, <2>4 DEF Stages
    <2>6. alert'[a].stage = "resolved" /\ \A b \in Alerts \ {a} : alert'[b] = alert[b]
      BY <1>a, <2>1, <2>4
    <2>7. TypeOK'
      BY <1>a, <2>2, <2>3, <2>4, <2>5 DEF TypeOK
    <2>8. ShownWasStored'
      BY <2>4, <2>6, <1>a DEF AlertInv, ShownWasStored, Stages
    <2>9. ASSUME NEW d \in Callers
          PROVE  Backed(call[d])'
      <3>1. CASE d = c
        BY <1>a, <2>1, <2>2, <2>3, <2>6, <3>1 DEF Backed
      <3>2. CASE d # c
        BY <1>a, <2>3, <2>6, <3>2 DEF AlertInv, Backed
      <3> QED BY <3>1, <3>2
    <2> QED BY <2>7, <2>8, <2>9 DEF AlertInv
  <1>5. ASSUME NEW c \in Callers, Reread(c)
        PROVE  AlertInv'
    <2> DEFINE r == [call[c] EXCEPT !.pc = "set", !.next = Restored(OpenTypes)]
    <2>1. Restored(OpenTypes) \in Statuses
      BY DEF Restored, Statuses
    <2>2. r \in Call /\ r.pc = "set" /\ r.id = call[c].id /\ r.stage = call[c].stage
      BY <1>a, <2>1 DEF Call, Steps
    <2>3. Continue(c, r) /\ UNCHANGED <<alert, status, shown>>
      BY <1>5 DEF Reread
    <2> HIDE DEF r
    <2>4. Backed(r)
      BY <1>5, <2>2 DEF Reread, AlertInv, Backed
    <2> QED BY <2>2, <2>3, <2>4, Frames
  <1>6. ASSUME NEW c \in Callers, SetStatus(c)
        PROVE  AlertInv'
    <2> DEFINE r == [call[c] EXCEPT !.pc = "publish"]
    <2>1. r \in Call /\ r.pc = "publish" /\ r.id = call[c].id /\ r.stage = call[c].stage
      BY <1>a DEF Call, Steps
    <2>2. call' = [call EXCEPT ![c] = r] /\ status' = call[c].next /\ UNCHANGED <<alert, shown>>
      BY <1>6 DEF SetStatus, Continue
    <2> HIDE DEF r
    <2>3. TypeOK'
      BY <1>a, <2>1, <2>2 DEF TypeOK, Call
    <2>4. ShownWasStored'
      BY <2>2 DEF AlertInv, ShownWasStored
    <2>5. ASSUME NEW d \in Callers
          PROVE  Backed(call[d])'
      <3>1. CASE d = c
        BY <1>6, <1>a, <2>1, <2>2, <3>1 DEF SetStatus, AlertInv, Backed
      <3>2. CASE d # c
        BY <1>a, <2>2, <3>2 DEF AlertInv, Backed
      <3> QED BY <3>1, <3>2
    <2> QED BY <2>3, <2>4, <2>5 DEF AlertInv
  <1>7. ASSUME NEW c \in Callers, Publish(c)
        PROVE  AlertInv'
    <2> DEFINE a == call[c].id
               r == [NoCall EXCEPT !.outcome = "ok"]
    <2>1. r \in Call /\ r.pc = "idle"
      BY BlankCalls
    <2>2. call' = [call EXCEPT ![c] = r]
      BY <1>7 DEF Publish, Answer, Continue
    <2>3. shown' = [shown EXCEPT ![a] = call[c].stage] /\ UNCHANGED <<alert, status>>
      BY <1>7 DEF Publish, Frame
    <2>4. /\ a \in Alerts
          /\ \/ call[c].stage = "open" /\ alert[a].stage # "none"
             \/ call[c].stage = "resolved" /\ alert[a].stage = "resolved"
      BY <1>7 DEF Publish, AlertInv, Backed
    <2> HIDE DEF a, r
    <2>5. TypeOK'
      BY <1>a, <2>1, <2>2, <2>3, <2>4 DEF TypeOK, Call
    <2>6. ShownWasStored'
      BY <1>a, <2>3, <2>4 DEF AlertInv, ShownWasStored
    <2>7. ASSUME NEW d \in Callers
          PROVE  Backed(call[d])'
      <3>1. CASE d = c
        BY <1>a, <2>1, <2>2, <3>1 DEF Backed
      <3>2. CASE d # c
        BY <1>a, <2>2, <2>3, <3>2 DEF AlertInv, Backed
      <3> QED BY <3>1, <3>2
    <2> QED BY <2>5, <2>6, <2>7 DEF AlertInv
  <1>8. ASSUME NEW c \in Callers, Abort(c)
        PROVE  AlertInv'
    BY <1>1, <1>8 DEF Abort
  <1>9. CASE UNCHANGED vars
    BY <1>9 DEF vars, AlertInv, TypeOK, ShownWasStored, Backed
  <1> QED BY <1>2, <1>3, <1>4, <1>5, <1>6, <1>7, <1>8, <1>9 DEF Next, Request, Step

\* Rows, health, frames and locals keep their types.
THEOREM AlertTypes == Spec => []TypeOK
  <1>1. AlertInv => TypeOK
    BY DEF AlertInv
  <1> QED BY <1>1, AlertInit, AlertNext, PTL DEF Spec

\* Whichever raises and resolves race or die halfway, the monitor was never told
\* of a state an alert had not reached, and no alert reopens behind its back.
THEOREM NoFrameAhead == Spec => []ShownWasStored
  <1>1. AlertInv => ShownWasStored
    BY DEF AlertInv
  <1> QED BY <1>1, AlertInit, AlertNext, PTL DEF Spec

-----------------------------------------------------------------------------
(* The status: nobody made it up *)

\* A row once inserted stays, with its type.
LEMMA RowsStand ==
  ASSUME AlertInv, [Next]_vars, NEW a \in Alerts, alert[a].stage # "none"
  PROVE  alert'[a].stage # "none" /\ alert'[a].type = alert[a].type
  <1>a. alert \in [Alerts -> [type : Types, stage : Stages]]
    BY DEF AlertInv, TypeOK
  <1>1. ASSUME NEW c \in Callers, NEW b \in Alerts, NEW t \in Types, Raise(c, b, t)
        PROVE  alert'[a] = alert[a]
    BY <1>a, <1>1 DEF Raise
  <1>2. ASSUME NEW c \in Callers, ResolveRow(c)
        PROVE  alert'[a].stage # "none" /\ alert'[a].type = alert[a].type
    BY <1>a, <1>2 DEF ResolveRow
  <1>3. CASE UNCHANGED alert
    BY <1>3
  <1> QED
    BY <1>1, <1>2, <1>3
    DEF Next, Request, Step, Resolve, Reread, SetStatus, Publish, Abort, vars

\* Hence what was reported stays reported.
LEMMA ReportsStand ==
  ASSUME AlertInv, [Next]_vars, NEW s, Reported(s)
  PROVE  Reported(s)'
  BY RowsStand DEF Reported

\* restoreVehicleStatus decides on a kind of trouble only for an open alert of it.
LEMMA RestoredIsReported == Reported(Restored(OpenTypes))
  <1>1. ASSUME NEW s, s \in OpenTypes
        PROVE  Reported(s)
    BY <1>1 DEF OpenTypes, OpenAlerts, Reported
  <1>2. Restored(OpenTypes) = "ok" \/ Restored(OpenTypes) \in OpenTypes
    BY DEF Restored
  <1>3. Reported("ok")
    BY DEF Reported
  <1> QED BY <1>1, <1>2, <1>3

\* Every step keeps the vehicle's status, and each one about to be written, reported.
LEMMA TroubleNext == AlertInv /\ TroubleInv /\ [Next]_vars => TroubleInv'
  <1> SUFFICES ASSUME AlertInv, TroubleInv, [Next]_vars
               PROVE  TroubleInv'
    OBVIOUS
  <1> USE DEF At
  <1>a. call \in [Callers -> Call]
    BY DEF AlertInv, TypeOK
  <1>b. Reported(status)' \/ status' # status
    BY ReportsStand DEF TroubleInv
  <1>1. \A d \in Callers : call'[d] = call[d] /\ At(d, "set") => Reported(call[d].next)'
    BY ReportsStand DEF TroubleInv
  <1>2. ASSUME NEW c \in Callers, NEW r, Continue(c, r), status' = status,
               r.pc = "set" => Reported(r.next)'
        PROVE  TroubleInv'
    <2>1. ASSUME NEW d \in Callers, call'[d].pc = "set"
          PROVE  Reported(call[d].next)'
      <3>1. CASE d = c
        BY <1>a, <1>2, <2>1, <3>1 DEF Continue
      <3>2. CASE d # c
        BY <1>a, <1>1, <1>2, <2>1, <3>2 DEF Continue
      <3> QED BY <3>1, <3>2
    <2> QED BY <1>2, <1>b, <2>1 DEF TroubleInv
  <1>3. ASSUME NEW c \in Callers, NEW outcome, Answer(c, outcome), status' = status
        PROVE  TroubleInv'
    <2>1. [NoCall EXCEPT !.outcome = outcome].pc # "set"
      BY DEF NoCall
    <2> QED BY <1>2, <1>3, <2>1 DEF Answer
  <1>4. ASSUME NEW c \in Callers, NEW a \in Alerts, NEW t \in Types, Raise(c, a, t)
        PROVE  TroubleInv'
    <2> DEFINE r == [NoCall EXCEPT !.pc = IF Blocking(t) THEN "set" ELSE "publish",
                                   !.id = a, !.stage = "open",
                                   !.next = IF Blocking(t) THEN t ELSE "ok"]
    <2>1. r.next \in {t, "ok"}
      BY DEF NoCall
    <2>2. alert'[a] = [type |-> t, stage |-> "open"] /\ Continue(c, r) /\ status' = status
      BY <1>4 DEF Raise, AlertInv, TypeOK
    <2> HIDE DEF r
    <2>3. Reported(t)' /\ Reported("ok")'
      BY <2>2 DEF Reported
    <2>4. Reported(r.next)'
      BY <2>1, <2>3
    <2> QED BY <1>2, <2>2, <2>4
  <1>5. ASSUME NEW c \in Callers, NEW a \in Alerts, Resolve(c, a)
        PROVE  TroubleInv'
    <2> DEFINE r == [NoCall EXCEPT !.pc = "resolve", !.id = a, !.stage = "resolved"]
    <2>1. r.pc # "set"
      BY DEF NoCall
    <2>2. status' = status /\ (Continue(c, r) \/ Answer(c, "ok"))
      BY <1>5 DEF Resolve
    <2> HIDE DEF r
    <2> QED BY <1>2, <1>3, <2>1, <2>2
  <1>6. ASSUME NEW c \in Callers, ResolveRow(c)
        PROVE  TroubleInv'
    BY <1>a, <1>2, <1>6 DEF ResolveRow, Call
  <1>7. ASSUME NEW c \in Callers, Reread(c)
        PROVE  TroubleInv'
    <2>1. PICK s : s = Restored(OpenTypes)
      OBVIOUS
    <2>2. PICK r : r = [call[c] EXCEPT !.pc = "set", !.next = s]
      OBVIOUS
    <2>3. Continue(c, r) /\ UNCHANGED <<alert, status>>
      BY <1>7, <2>1, <2>2 DEF Reread
    <2>4. Reported(s)
      BY <2>1, RestoredIsReported
    <2>5. Reported(s)'
      BY <2>3, <2>4 DEF Reported
    <2>6. r.next = s
      BY <1>a, <2>2 DEF Call
    <2> QED BY <1>2, <2>3, <2>5, <2>6
  <1>8. ASSUME NEW c \in Callers, SetStatus(c)
        PROVE  TroubleInv'
    <2>1. Reported(status)'
      <3>1. Reported(call[c].next)
        BY <1>8 DEF SetStatus, TroubleInv
      <3>2. status' = call[c].next /\ UNCHANGED alert
        BY <1>8 DEF SetStatus
      <3> QED BY <3>1, <3>2 DEF Reported
    <2>2. ASSUME NEW d \in Callers, call'[d].pc = "set"
          PROVE  Reported(call[d].next)'
      <3>1. d # c /\ call'[d] = call[d]
        BY <1>a, <1>8, <2>2 DEF SetStatus, Continue, Call
      <3> QED BY <1>1, <2>2, <3>1
    <2> QED BY <2>1, <2>2 DEF TroubleInv
  <1>9. ASSUME NEW c \in Callers, Publish(c) \/ Abort(c)
        PROVE  TroubleInv'
    BY <1>3, <1>9 DEF Publish, Abort
  <1>10. CASE UNCHANGED vars
    BY <1>10 DEF vars, TroubleInv, Reported
  <1> QED BY <1>4, <1>5, <1>6, <1>7, <1>8, <1>9, <1>10 DEF Next, Request, Step

\* Whatever stale status a slow call writes, the car is never shown in a kind of
\* trouble nobody reported.
THEOREM NoTroubleMadeUp == Spec => []TroubleWasReported
  <1>1. Init => TroubleInv
    BY DEF Init, TroubleInv, Reported, NoCall, At
  <1>2. TroubleInv => TroubleWasReported
    BY DEF TroubleInv, TroubleWasReported
  <1> QED BY <1>1, <1>2, AlertInit, AlertNext, TroubleNext, PTL DEF Spec

-----------------------------------------------------------------------------
(* One call at a time: the dashboard, the monitor and the list agree *)

\* restoreVehicleStatus finds trouble exactly when a blocking alert is open.
LEMMA RestoredAgrees == Restored(OpenTypes) # "ok" <=> InTrouble
  BY DEF Restored, InTrouble, Blocking

\* Every step keeps what the one call at work owes, until two overlap or one fails.
LEMMA CalmNext == AlertInv /\ CalmInv /\ [MCNext]_<<vars, calm>> => CalmInv'
  <1> SUFFICES ASSUME AlertInv, CalmInv, MCNext, calm'
               PROVE  CalmInv'
    <2>1. CASE UNCHANGED <<alert, status, shown, call, calm>>
      BY <2>1 DEF CalmInv, OneAtATime, At, Owing, InTrouble, OpenTypes, OpenAlerts
    <2> QED BY <2>1 DEF CalmInv, vars
  <1> USE DEF At
  <1>a. /\ alert \in [Alerts -> [type : Types, stage : Stages]]
        /\ shown \in [Alerts -> Stages]
        /\ call \in [Callers -> Call]
    BY DEF AlertInv, TypeOK
  <1>b. /\ \A c, d \in Callers : c = d \/ call[c].pc = "idle" \/ call[d].pc = "idle"
        /\ \A c, d \in Callers : c = d \/ call'[c].pc = "idle" \/ call'[d].pc = "idle"
        /\ \A c \in Callers : call'[c].outcome # "error"
    BY DEF CalmInv, OneAtATime, MCNext
  <1>c. /\ \A c \in Callers : Owing(c) => call[c].stage = alert[call[c].id].stage
        /\ \A a \in Alerts :
             shown[a] = alert[a].stage \/ \E c \in Callers : Owing(c) /\ call[c].id = a
        /\ \/ status # "ok" <=> InTrouble
           \/ \E c \in Callers : call[c].pc \in {"reread", "set"}
        /\ \A c \in Callers : call[c].pc = "set" => (call[c].next # "ok" <=> InTrouble)
    BY DEF CalmInv, MCNext
  <1>d. OneAtATime'
    BY DEF MCNext
  <1>e. UNCHANGED alert => InTrouble' = InTrouble
    BY DEF InTrouble, OpenTypes, OpenAlerts
  <1>f. ASSUME NEW c \in Callers, NEW r, Continue(c, r), call[c].pc # "idle" \/ r.pc # "idle"
        PROVE  /\ call'[c] = r
               /\ \A d \in Callers : d # c => call[d].pc = "idle" /\ call'[d].pc = "idle"
    <2>1. call'[c] = r /\ \A d \in Callers : d # c => call'[d] = call[d]
      BY <1>a, <1>f DEF Continue
    <2> QED BY <1>b, <1>f, <2>1
  <1>1. ASSUME NEW c \in Callers, NEW a \in Alerts, NEW t \in Types, Raise(c, a, t)
        PROVE  CalmInv'
    <2> DEFINE r == [NoCall EXCEPT !.pc = IF Blocking(t) THEN "set" ELSE "publish",
                                   !.id = a, !.stage = "open",
                                   !.next = IF Blocking(t) THEN t ELSE "ok"]
    <2>1. /\ r.pc = IF Blocking(t) THEN "set" ELSE "publish"
          /\ r.id = a /\ r.stage = "open"
          /\ Blocking(t) => r.next # "ok"
      BY DEF NoCall, Blocking
    <2>2. /\ alert' = [alert EXCEPT ![a] = [type |-> t, stage |-> "open"]]
          /\ alert[a].stage = "none" /\ call[c].pc = "idle" /\ Continue(c, r)
          /\ UNCHANGED <<status, shown>>
      BY <1>1 DEF Raise
    <2> HIDE DEF r
    <2>3. /\ call'[c] = r
          /\ \A d \in Callers : call[d].pc = "idle" /\ (d # c => call'[d].pc = "idle")
      BY <1>f, <2>1, <2>2
    <2>4. alert'[a] = [type |-> t, stage |-> "open"] /\ \A b \in Alerts \ {a} : alert'[b] = alert[b]
      BY <1>a, <2>2
    <2>5. InTrouble' <=> InTrouble \/ Blocking(t)
      <3>1. OpenAlerts' = OpenAlerts \cup {a} /\ a \notin OpenAlerts
        BY <2>2, <2>4 DEF OpenAlerts
      <3>2. OpenTypes' = OpenTypes \cup {t}
        BY <2>4, <3>1 DEF OpenTypes, OpenAlerts
      <3> QED BY <3>2 DEF InTrouble, Blocking
    <2>6. \A d \in Callers : ~Owing(d)
      BY <2>3 DEF Owing
    <2>7. \A b \in Alerts : shown'[b] = alert'[b].stage \/ (Owing(c) /\ call[c].id = b)'
      BY <1>c, <2>1, <2>2, <2>3, <2>4, <2>6 DEF Owing
    <2>8. \A d \in Callers : Owing(d)' => call'[d].stage = alert'[call'[d].id].stage
      BY <2>1, <2>3, <2>4 DEF Owing
    <2>9. \/ status' # "ok" <=> InTrouble'
          \/ call'[c].pc \in {"reread", "set"}
      BY <1>c, <2>1, <2>2, <2>3, <2>5
    <2>10. \A d \in Callers : call'[d].pc = "set" => (call'[d].next # "ok" <=> InTrouble')
      BY <2>1, <2>3, <2>5
    <2> QED BY <1>d, <2>7, <2>8, <2>9, <2>10 DEF CalmInv
  <1>2. ASSUME NEW c \in Callers, NEW r, Continue(c, r), UNCHANGED <<alert, status, shown>>,
               call[c].pc = "idle", r.pc \in {"idle", "resolve"}
        PROVE  CalmInv'
    <2>1. call'[c] = r /\ \A d \in Callers : d # c => call'[d] = call[d]
      BY <1>a, <1>2 DEF Continue
    <2>2. \A d \in Callers : Owing(d)' <=> Owing(d)
      BY <1>2, <2>1 DEF Owing
    <2>3. ~Owing(c)
      BY <1>2 DEF Owing
    <2>4. \A d \in Callers : Owing(d)' => call'[d].stage = alert'[call'[d].id].stage
      BY <1>c, <1>2, <2>1, <2>2, <2>3
    <2>5. \A a \in Alerts :
            shown'[a] = alert'[a].stage \/ \E d \in Callers : Owing(d)' /\ call'[d].id = a
      BY <1>c, <1>2, <2>1, <2>2, <2>3
    <2>6. \/ status' # "ok" <=> InTrouble'
          \/ \E d \in Callers : call'[d].pc \in {"reread", "set"}
      BY <1>c, <1>e, <1>2, <2>1
    <2>7. \A d \in Callers : call'[d].pc = "set" => (call'[d].next # "ok" <=> InTrouble')
      BY <1>c, <1>e, <1>2, <2>1
    <2> QED BY <1>d, <2>4, <2>5, <2>6, <2>7 DEF CalmInv
  <1>3. ASSUME NEW c \in Callers, NEW a \in Alerts, Resolve(c, a)
        PROVE  CalmInv'
    <2>1. PICK r : /\ Continue(c, r)
                   /\ \/ r = [NoCall EXCEPT !.pc = "resolve", !.id = a, !.stage = "resolved"]
                      \/ r = [NoCall EXCEPT !.outcome = "ok"]
      BY <1>3 DEF Resolve, Answer
    <2>2. r.pc \in {"idle", "resolve"}
      BY <2>1 DEF NoCall
    <2>3. call[c].pc = "idle" /\ UNCHANGED <<alert, status, shown>>
      BY <1>3 DEF Resolve
    <2> QED BY <1>2, <2>1, <2>2, <2>3
  <1>4. ASSUME NEW c \in Callers, ResolveRow(c)
        PROVE  CalmInv'
    <2> DEFINE a == call[c].id
               r == [call[c] EXCEPT !.pc = "reread"]
    <2>1. a \in Alerts /\ call[c].stage = "resolved" /\ call[c].pc = "resolve"
      BY <1>4 DEF ResolveRow, AlertInv, Backed
    <2>2. r.pc = "reread" /\ r.id = a /\ r.stage = "resolved"
      BY <1>a, <2>1 DEF Call
    <2>3. /\ alert' = [alert EXCEPT ![a].stage = "resolved"]
          /\ Continue(c, r)
          /\ UNCHANGED <<status, shown>>
      BY <1>4 DEF ResolveRow
    <2> HIDE DEF a, r
    <2>4. call'[c] = r /\ \A d \in Callers : d # c => call[d].pc = "idle" /\ call'[d].pc = "idle"
      BY <1>f, <2>1, <2>3
    <2>5. alert'[a].stage = "resolved" /\ \A b \in Alerts \ {a} : alert'[b] = alert[b]
      BY <1>a, <2>1, <2>3
    <2>6. \A d \in Callers : ~Owing(d)
      BY <2>1, <2>4 DEF Owing
    <2>7. \A b \in Alerts : shown'[b] = alert'[b].stage \/ (Owing(c) /\ call[c].id = b)'
      BY <1>c, <2>2, <2>3, <2>4, <2>5, <2>6 DEF Owing
    <2>8. \A d \in Callers : Owing(d)' => call'[d].stage = alert'[call'[d].id].stage
      BY <2>2, <2>4, <2>5 DEF Owing
    <2>9. call'[c].pc = "reread" /\ \A d \in Callers : call'[d].pc # "set"
      BY <2>2, <2>4
    <2> QED BY <1>d, <2>7, <2>8, <2>9 DEF CalmInv
  <1>5. ASSUME NEW c \in Callers, NEW r, Continue(c, r), UNCHANGED <<alert, shown>>,
               Owing(c), r.pc \in {"set", "publish"},
               r.id = call[c].id, r.stage = call[c].stage,
               r.pc = "set" => (r.next # "ok" <=> InTrouble),
               r.pc = "publish" => (status' # "ok" <=> InTrouble)
        PROVE  CalmInv'
    <2>1. call'[c] = r /\ \A d \in Callers : d # c => call[d].pc = "idle" /\ call'[d].pc = "idle"
      BY <1>f, <1>5 DEF Owing
    <2>2. \A a \in Alerts : shown'[a] = alert'[a].stage \/ (Owing(c) /\ call[c].id = a)'
      BY <1>c, <1>5, <2>1 DEF Owing
    <2>3. \A d \in Callers : Owing(d)' => call'[d].stage = alert'[call'[d].id].stage
      BY <1>c, <1>5, <2>1 DEF Owing
    <2>4. /\ (status' # "ok" <=> InTrouble') \/ call'[c].pc \in {"reread", "set"}
          /\ \A d \in Callers : call'[d].pc = "set" => (call'[d].next # "ok" <=> InTrouble')
      BY <1>e, <1>5, <2>1
    <2> QED BY <1>d, <2>2, <2>3, <2>4 DEF CalmInv
  <1>6. ASSUME NEW c \in Callers, Reread(c)
        PROVE  CalmInv'
    <2>1. PICK r : r = [call[c] EXCEPT !.pc = "set", !.next = Restored(OpenTypes)]
      OBVIOUS
    <2>2. /\ Owing(c) /\ r.pc = "set" /\ r.id = call[c].id /\ r.stage = call[c].stage
          /\ r.next = Restored(OpenTypes)
      BY <1>a, <1>6, <2>1 DEF Reread, Owing, Call
    <2>3. Continue(c, r) /\ UNCHANGED <<alert, shown>>
      BY <1>6, <2>1 DEF Reread
    <2> QED BY <1>5, <2>2, <2>3, RestoredAgrees
  <1>7. ASSUME NEW c \in Callers, SetStatus(c)
        PROVE  CalmInv'
    <2>1. PICK r : r = [call[c] EXCEPT !.pc = "publish"]
      OBVIOUS
    <2>2. Owing(c) /\ r.pc = "publish" /\ r.id = call[c].id /\ r.stage = call[c].stage
      BY <1>a, <1>7, <2>1 DEF SetStatus, Owing, Call
    <2>3. Continue(c, r) /\ UNCHANGED <<alert, shown>> /\ status' = call[c].next
      BY <1>7, <2>1 DEF SetStatus
    <2>4. call[c].next # "ok" <=> InTrouble
      BY <1>c, <1>7 DEF SetStatus
    <2> QED BY <1>5, <2>2, <2>3, <2>4
  <1>8. ASSUME NEW c \in Callers, Publish(c)
        PROVE  CalmInv'
    <2> DEFINE a == call[c].id
    <2>1. PICK r : r = [NoCall EXCEPT !.outcome = "ok"]
      OBVIOUS
    <2>2. r.pc = "idle"
      BY <2>1 DEF NoCall
    <2>3. /\ call[c].pc = "publish" /\ Continue(c, r) /\ UNCHANGED <<alert, status>>
          /\ shown' = [shown EXCEPT ![a] = call[c].stage]
      BY <1>8, <2>1 DEF Publish, Answer, Frame
    <2>4. call'[c] = r /\ \A d \in Callers : d # c => call[d].pc = "idle" /\ call'[d].pc = "idle"
      BY <1>f, <2>3
    <2>5. \A d \in Callers : call'[d].pc = "idle"
      BY <2>2, <2>4
    <2>6. Owing(c) /\ \A d \in Callers : Owing(d) => d = c
      BY <2>3, <2>4 DEF Owing
    <2>7. \A b \in Alerts : shown'[b] = alert'[b].stage
      BY <1>a, <1>c, <2>3, <2>6
    <2>8. status' # "ok" <=> InTrouble'
      BY <1>c, <1>e, <2>3, <2>4
    <2> QED BY <1>d, <2>5, <2>7, <2>8 DEF CalmInv, Owing
  <1>9. ASSUME NEW c \in Callers, Abort(c)
        PROVE  FALSE
    <2>1. [NoCall EXCEPT !.outcome = "error"].outcome = "error"
      BY DEF NoCall
    <2> QED BY <1>a, <1>b, <1>9, <2>1 DEF Abort, Answer, Continue
  <1> QED
    BY <1>1, <1>3, <1>4, <1>6, <1>7, <1>8, <1>9 DEF MCNext, Next, Request, Step

\* "The dashboard, the live monitor, and the alert list always agree about which
\* cars are in trouble", for as long as calls come one at a time and none fails.
THEOREM CalmCallsAgree == MCSpec => []CalmAgrees
  <1>1. MCInit => AlertInv /\ CalmInv
    BY AlertInit
    DEF MCInit, Init, CalmInv, OneAtATime, Owing, At, NoCall, InTrouble, OpenTypes, OpenAlerts
  <1>2. [MCNext]_<<vars, calm>> => [Next]_vars
    BY DEF MCNext
  <1>3. AlertInv /\ CalmInv => CalmAgrees
    BY DEF CalmInv, CalmAgrees, Quiet, TroubleAgrees, At, Owing
  <1> QED BY <1>1, <1>2, <1>3, AlertNext, CalmNext, PTL DEF MCSpec

=============================================================================
