------------------------ MODULE RallyMonitor_proofs -------------------------
(***************************************************************************)
(* That the organizer's monitor keeps up (KeepsUp), for any numbers of     *)
(* handlers, alerts and tasks and any capacity of the channel.             *)
(***************************************************************************)
EXTENDS MCRallyMonitor, FiniteSetTheorems, TLAPS

-----------------------------------------------------------------------------
(* Frames, and what a handler has still to tell *)

\* The three kinds of frames are told apart by their type.
LEMMA FrameKinds ==
  ASSUME NEW f \in Frames
  PROVE  \/ f.type = "score_delta" /\ \E n \in Int : f = ScoreDelta(n)
         \/ f.type = "task_completed" /\ f = TaskCompleted
         \/ f.type = "alert" /\ \E a \in Alerts, o \in BOOLEAN : f = AlertFrame(a, o)
BY DEF Frames, ScoreDelta, TaskCompleted, AlertFrame

\* What is read back from a frame.
LEMMA FrameFields ==
  /\ \A n : ScoreDelta(n).type = "score_delta" /\ ScoreDelta(n).total = n
  /\ TaskCompleted.type = "task_completed"
  /\ \A a, o : /\ AlertFrame(a, o).type = "alert"
               /\ AlertFrame(a, o).id = a /\ AlertFrame(a, o).open = o
BY DEF ScoreDelta, TaskCompleted, AlertFrame

\* A handler tells one frame, or a total and then the completed task.
LEMMA DebtShapes ==
  ASSUME NEW d \in Debts, d # <<>>
  PROVE  \E f \in Frames :
           \/ d = <<f>>
           \/ d = <<f, TaskCompleted>> /\ f.type = "score_delta"
<1>1. CASE d = <<TaskCompleted>>
  BY <1>1 DEF Frames
<1>2. CASE \E n \in Int : d = <<ScoreDelta(n)>>
  BY <1>2 DEF Frames
<1>3. CASE \E n \in Int : d = <<ScoreDelta(n), TaskCompleted>>
  BY <1>3, FrameFields DEF Frames
<1>4. CASE \E a \in Alerts, o \in BOOLEAN : d = <<AlertFrame(a, o)>>
  BY <1>4 DEF Frames
<1> QED
  BY <1>1, <1>2, <1>3, <1>4 DEF Debts

\* What is told first is a frame, and the rest is still a debt: nothing, or the
\* completed task after its total.
LEMMA DebtTold ==
  ASSUME NEW d \in Debts, d # <<>>
  PROVE  /\ Head(d) \in Frames /\ Head(d) = d[1]
         /\ Tail(d) \in Debts /\ Len(Tail(d)) < Len(d) /\ Tail(d) # d
         /\ \/ d = <<Head(d)>> /\ Tail(d) = <<>>
            \/ /\ d = <<Head(d), TaskCompleted>> /\ Tail(d) = <<TaskCompleted>>
               /\ Head(d).type = "score_delta"
<1> PICK f \in Frames : \/ d = <<f>>
                        \/ d = <<f, TaskCompleted>> /\ f.type = "score_delta"
  BY DebtShapes
<1>1. CASE d = <<f>>
  <2>1. Head(d) = f /\ Tail(d) = <<>> /\ Len(d) = 1 /\ d[1] = f
    BY <1>1
  <2> QED
    BY <1>1, <2>1 DEF Debts
<1>2. CASE d = <<f, TaskCompleted>> /\ f.type = "score_delta"
  <2>1. Head(d) = f /\ Tail(d) = <<TaskCompleted>> /\ Len(d) = 2 /\ d[1] = f
    BY <1>2
  <2> QED
    BY <1>2, <2>1 DEF Debts
<1> QED
  BY <1>1, <1>2

\* A handler owes a total when that is the first thing it has to tell, and a completed
\* task when that is the last.
LEMMA DebtKinds ==
  ASSUME MonitorTypes, NEW h \in Handlers
  PROVE  /\ owes[h] \in Debts
         /\ Scores(h) <=> (owes[h] # <<>> /\ owes[h][1].type = "score_delta")
         /\ h \in DoneOwed <=> (\/ owes[h] = <<TaskCompleted>>
                                \/ /\ owes[h] # <<>> /\ owes[h][1].type = "score_delta"
                                   /\ owes[h] = <<owes[h][1], TaskCompleted>>)
<1>1. owes[h] \in Debts
  BY DEF MonitorTypes
<1>2. CASE owes[h] = <<>>
  BY <1>1, <1>2 DEF Scores, DoneOwed
<1>3. CASE owes[h] # <<>>
  <2> PICK f \in Frames : \/ owes[h] = <<f>>
                          \/ owes[h] = <<f, TaskCompleted>> /\ f.type = "score_delta"
    BY <1>1, <1>3, DebtShapes
  <2>1. CASE owes[h] = <<f>>
    <3>1. Len(owes[h]) = 1 /\ DOMAIN owes[h] = {1} /\ owes[h][1] = f
      BY <2>1
    <3>2. Scores(h) <=> f.type = "score_delta"
      BY <3>1 DEF Scores
    <3>3. h \in DoneOwed <=> f = TaskCompleted
      BY <1>3, <3>1 DEF DoneOwed
    <3>4. owes[h] = <<TaskCompleted>> <=> f = TaskCompleted
      BY <2>1
    <3>5. owes[h] # <<owes[h][1], TaskCompleted>>
      BY <2>1
    <3> QED
      BY <1>1, <1>3, <3>1, <3>2, <3>3, <3>4, <3>5
  <2>2. CASE owes[h] = <<f, TaskCompleted>> /\ f.type = "score_delta"
    <3>1. /\ Len(owes[h]) = 2 /\ DOMAIN owes[h] = {1, 2}
          /\ owes[h][1] = f /\ owes[h][2] = TaskCompleted
      BY <2>2
    <3>2. Scores(h)
      BY <2>2, <3>1 DEF Scores
    <3>3. h \in DoneOwed
      BY <1>3, <3>1 DEF DoneOwed
    <3> QED
      BY <1>1, <1>3, <2>2, <3>1, <3>2, <3>3
  <2> QED
    BY <2>1, <2>2
<1> QED
  BY <1>2, <1>3

-----------------------------------------------------------------------------
(* The counts *)

\* The alerts are finitely many, and every set of them is counted by a number.
LEMMA AlertCount ==
  ASSUME NEW S, S \subseteq Alerts
  PROVE  IsFiniteSet(S) /\ Cardinality(S) \in Nat
BY MonitorConstants, FS_Subset, FS_CardinalityType

\* So are the handlers.
LEMMA HandlerCount ==
  ASSUME NEW S, S \subseteq Handlers
  PROVE  IsFiniteSet(S) /\ Cardinality(S) \in Nat
BY MonitorConstants, FS_Subset, FS_CardinalityType

\* And the frames on their way.
LEMMA WireCount ==
  ASSUME NEW w, NEW F, w \in Seq(F), NEW S, S \subseteq DOMAIN w
  PROVE  IsFiniteSet(S) /\ Cardinality(S) \in Nat
<1>1. DOMAIN w = 1..Len(w) /\ Len(w) \in Nat /\ 0 \in Int /\ 1 \in Int
  OBVIOUS
<1>2. IsFiniteSet(1..Len(w))
  BY <1>1, FS_Interval
<1> QED
  BY <1>1, <1>2, FS_Subset, FS_CardinalityType

\* A smaller set of alerts counts no more.
LEMMA FewerAlerts ==
  ASSUME NEW S, NEW T, S \subseteq T, T \subseteq Alerts
  PROVE  Cardinality(S) <= Cardinality(T)
BY AlertCount, FS_Subset

\* The places of the completed tasks among frames w.
Completed(w) == {i \in DOMAIN w : w[i] = TaskCompleted}

\* What is sent last is counted in addition.
LEMMA SentGrows ==
  ASSUME NEW w, w \in Seq(Frames), NEW f \in Frames
  PROVE  Cardinality(Completed(Append(w, f))) =
           IF f = TaskCompleted THEN Cardinality(Completed(w)) + 1 ELSE Cardinality(Completed(w))
<1> DEFINE S == Completed(w)
           T == Completed(Append(w, f))
<1> USE DEF Completed
<1>1. /\ Len(w) \in Nat /\ DOMAIN w = 1..Len(w)
      /\ DOMAIN Append(w, f) = 1..(Len(w) + 1)
      /\ \A i \in 1..Len(w) : Append(w, f)[i] = w[i]
      /\ Append(w, f)[Len(w) + 1] = f
  OBVIOUS
<1>2. IsFiniteSet(S) /\ Len(w) + 1 \notin S
  BY <1>1, WireCount
<1>3. CASE f = TaskCompleted
  <2>1. T = S \cup {Len(w) + 1}
    BY <1>1, <1>3
  <2> QED
    BY <1>2, <1>3, <2>1, FS_AddElement
<1>4. CASE f # TaskCompleted
  <2>1. T = S
    BY <1>1, <1>4
  <2> QED
    BY <1>4, <2>1
<1> QED
  BY <1>3, <1>4

\* What is received first is no longer counted.
LEMMA SentShrinks ==
  ASSUME NEW w, w \in Seq(Frames), w # <<>>
  PROVE  Cardinality(Completed(w)) =
           IF Head(w) = TaskCompleted THEN Cardinality(Completed(Tail(w))) + 1
           ELSE Cardinality(Completed(Tail(w)))
<1> DEFINE S == Completed(w)
           T == Completed(Tail(w))
<1> USE DEF Completed
<1>1. /\ Len(w) \in Nat \ {0} /\ DOMAIN w = 1..Len(w) /\ Head(w) = w[1]
      /\ DOMAIN Tail(w) = 1..(Len(w) - 1)
      /\ \A i \in 1..(Len(w) - 1) : Tail(w)[i] = w[i + 1]
      /\ Tail(w) \in Seq(Frames)
  OBVIOUS
<1>2. IsFiniteSet(S) /\ IsFiniteSet(T)
  BY <1>1, WireCount
<1> DEFINE shift == [i \in T |-> i + 1]
           later == S \ {1}
<1>3. shift \in Bijection(T, later)
  <2>1. \A i \in T : i + 1 \in later
    BY <1>1
  <2>2. \A j \in later : j - 1 \in T
    BY <1>1
  <2>3. shift \in [T -> later]
    BY <2>1
  <2>4. \A i, j \in T : shift[i] = shift[j] => i = j
    BY <1>1
  <2>5. \A j \in later : \E i \in T : shift[i] = j
    <3> TAKE j \in later
    <3>1. j - 1 \in T /\ shift[j - 1] = j
      BY <2>2, <1>1
    <3> QED
      BY <3>1
  <2> QED
    BY <2>3, <2>4, <2>5 DEF Bijection, Injection, Surjection, IsInjective
<1>4. Cardinality(later) = Cardinality(T)
  BY <1>2, <1>3, FS_Bijection DEF ExistsBijection
<1>5. CASE Head(w) = TaskCompleted
  <2>1. 1 \in S
    BY <1>1, <1>5
  <2>2. Cardinality(later) = Cardinality(S) - 1 /\ Cardinality(S) \in Nat
    BY <1>2, <2>1, FS_RemoveElement, FS_CardinalityType
  <2> HIDE DEF later
  <2>3. \A m \in Nat : \A n, l : l = m - 1 /\ l = n => m = n + 1
    OBVIOUS
  <2>4. Cardinality(S) = Cardinality(T) + 1
    BY <1>4, <2>2, <2>3, Zenon
  <2> QED
    BY <1>5, <2>4
<1>6. CASE Head(w) # TaskCompleted
  <2>1. later = S
    BY <1>1, <1>6
  <2> QED
    BY <1>4, <1>6, <2>1
<1> QED
  BY <1>5, <1>6

-----------------------------------------------------------------------------
(* Types *)

\* What the page makes of a frame is a state of the page.
LEMMA ReducedType ==
  ASSUME MonitorTypes, NEW f \in Frames
  PROVE  Reduced(f) \in [total : Int, done : Nat, size : {0, Size},
                         alerts : [Alerts -> {"unheard", "open", "resolved"}], openAlerts : Nat]
<1> DEFINE States == [total : Int, done : Nat, size : {0, Size},
                      alerts : [Alerts -> {"unheard", "open", "resolved"}], openAlerts : Nat]
<1>1. page \in States
  BY DEF MonitorTypes
<1>2. CASE f.type = "score_delta"
  <2> PICK n \in Int : f = ScoreDelta(n)
    BY <1>2, FrameKinds
  <2>1. Reduced(f) = [page EXCEPT !.total = n]
    BY FrameFields DEF Reduced
  <2> QED
    BY <1>1, <2>1
<1>3. CASE f.type = "task_completed"
  <2>1. Reduced(f) =
          [page EXCEPT !.done = IF page.size > 0 /\ @ >= page.size THEN page.size ELSE @ + 1]
    BY <1>3 DEF Reduced
  <2>2. (IF page.size > 0 /\ page.done >= page.size THEN page.size ELSE page.done + 1) \in Nat
    BY <1>1, MonitorConstants
  <2> QED
    BY <1>1, <2>1, <2>2
<1>4. CASE f.type = "alert"
  <2> PICK a \in Alerts, o \in BOOLEAN : f = AlertFrame(a, o)
    BY <1>4, FrameKinds
  <2>1. Reduced(f) = [page EXCEPT !.alerts[f.id] = IF f.open THEN "open" ELSE "resolved",
                                  !.openAlerts = CountOpen(f)]
    BY <1>4 DEF Reduced
  <2>2. CountOpen(f) \in Nat
    BY <1>1 DEF CountOpen
  <2>3. f.id \in Alerts
    BY FrameFields
  <2>4. (IF f.open THEN "open" ELSE "resolved") \in {"unheard", "open", "resolved"}
    OBVIOUS
  <2> HIDE DEF States
  <2>5. [page.alerts EXCEPT ![f.id] = IF f.open THEN "open" ELSE "resolved"]
          \in [Alerts -> {"unheard", "open", "resolved"}]
    BY <1>1, <2>3, <2>4 DEF States
  <2> QED
    BY <1>1, <2>1, <2>2, <2>5 DEF States
<1> QED
  BY <1>2, <1>3, <1>4, FrameKinds

\* Every step keeps the types.
LEMMA TypesStep ==
  ASSUME MonitorTypes, Next
  PROVE  MonitorTypes'
<1> USE DEF MonitorTypes
<1> Size \in Nat
  BY MonitorConstants
<1>1. ASSUME NEW h \in Handlers, NEW correct \in BOOLEAN, NEW points \in Awards,
             Answer(h, correct, points)
      PROVE  MonitorTypes'
  <2>1. points \in Int /\ stored.total + points \in Int
    BY MonitorConstants
  <2>2. /\ stored' \in [total : Int, done : Nat, right : Nat,
                        stage : [Alerts -> {"none", "open", "resolved"}]]
        /\ stored'.right <= stored'.done
    <3>1. stored' = [stored EXCEPT !.total = @ + points, !.done = @ + 1,
                                   !.right = IF correct THEN @ + 1 ELSE @]
      BY <1>1 DEF Answer
    <3>2. PICK k \in {0, 1} : stored' = [stored EXCEPT !.total = @ + points, !.done = @ + 1,
                                                       !.right = @ + k]
      <4>1. CASE correct
        BY <3>1, <4>1
      <4>2. CASE ~correct
        <5>1. stored.right + 0 = stored.right
          OBVIOUS
        <5> QED
          BY <3>1, <4>2, <5>1
      <4> QED
        BY <4>1, <4>2
    <3>3. stored.done + 1 \in Nat /\ stored.right + k \in Nat /\ stored.right + k <= stored.done + 1
      OBVIOUS
    <3>4. stored'.right = stored.right + k /\ stored'.done = stored.done + 1
      BY <3>2
    <3> QED
      BY <2>1, <3>2, <3>3, <3>4
  <2>3. owes' \in [Handlers -> Debts]
    <3>1. <<ScoreDelta(stored.total + points), TaskCompleted>> \in Debts
      BY <2>1 DEF Debts
    <3>2. <<ScoreDelta(stored.total + points)>> \in Debts
      BY <2>1 DEF Debts
    <3> QED
      BY <1>1, <3>1, <3>2 DEF Answer
  <2> QED
    BY <1>1, <2>2, <2>3 DEF Answer
<1>2. ASSUME NEW h \in Handlers, NEW a \in Alerts, NEW from, NEW to \in {"open", "resolved"},
             Alert(h, a, from, to)
      PROVE  MonitorTypes'
  <2> DEFINE open == to = "open"
  <2>0. open \in BOOLEAN
    OBVIOUS
  <2> HIDE DEF open
  <2>1. <<AlertFrame(a, open)>> \in Debts
    BY <2>0 DEF Debts
  <2>2. owes' \in [Handlers -> Debts]
    BY <1>2, <2>1 DEF Alert, open
  <2>3. /\ stored' \in [total : Int, done : Nat, right : Nat,
                        stage : [Alerts -> {"none", "open", "resolved"}]]
        /\ stored'.right <= stored'.done
    BY <1>2 DEF Alert
  <2> QED
    BY <1>2, <2>2, <2>3 DEF Alert
<1>3. ASSUME NEW h \in Handlers, Broadcast(h)
      PROVE  MonitorTypes'
  <2>1. owes[h] \in Debts /\ owes[h] # <<>>
    BY <1>3 DEF Broadcast
  <2>2. Head(owes[h]) \in Frames /\ Tail(owes[h]) \in Debts
    BY <2>1, DebtTold
  <2>3. owes' \in [Handlers -> Debts]
    BY <1>3, <2>2 DEF Broadcast
  <2>4. wire' \in Seq(Frames)
    BY <1>3, <2>2 DEF Broadcast
  <2> QED
    BY <1>3, <2>3, <2>4 DEF Broadcast
<1>4. ASSUME NEW h \in Handlers, Fail(h)
      PROVE  MonitorTypes'
  <2>1. owes' \in [Handlers -> Debts]
    BY <1>4 DEF Fail, Debts
  <2> QED
    BY <1>4, <2>1 DEF Fail
<1>5. CASE ReadProgress
  <2>1. stored.total \in Int /\ stored.done \in Nat
    OBVIOUS
  <2> QED
    BY <1>5, <2>1 DEF ReadProgress
<1>6. CASE ReadOpenAlerts
  <2>1. Cardinality(OpenAlerts) \in Nat
    BY AlertCount DEF OpenAlerts
  <2> QED
    BY <1>6, <2>1 DEF ReadOpenAlerts
<1>7. CASE Respond
  <2>1. FromSnapshot(query) \in
          [total : Int, done : Nat, size : {0, Size},
           alerts : [Alerts -> {"unheard", "open", "resolved"}], openAlerts : Nat]
    BY DEF FromSnapshot, Unheard
  <2> QED
    BY <1>7, <2>1 DEF Respond, NoQuery
<1>8. CASE GiveUp
  BY <1>8 DEF GiveUp, NoQuery
<1>9. CASE Connect \/ Subscribe
  BY <1>9 DEF Connect, Subscribe
<1>10. CASE OnOpen
  BY <1>10 DEF OnOpen, Refetched, Request, NoQuery
<1>11. CASE Drop
  BY <1>11 DEF Drop
<1>12. CASE OnMessage
  <2>1. Head(wire) \in Frames /\ wire' \in Seq(Frames)
    BY <1>12 DEF OnMessage
  <2>2. page' \in [total : Int, done : Nat, size : {0, Size},
                   alerts : [Alerts -> {"unheard", "open", "resolved"}], openAlerts : Nat]
    BY <1>12, <2>1, ReducedType DEF OnMessage
  <2> QED
    BY <1>12, <2>1, <2>2 DEF OnMessage
<1> HIDE DEF MonitorTypes
<1>13. ASSUME NEW h \in Handlers, NEW a \in Alerts,
              Alert(h, a, "none", "open") \/ Alert(h, a, "open", "resolved")
       PROVE  MonitorTypes'
  <2>1. CASE Alert(h, a, "none", "open")
    BY <1>2, <2>1
  <2>2. CASE Alert(h, a, "open", "resolved")
    BY <1>2, <2>2
  <2> QED
    BY <1>13, <2>1, <2>2
<1> QED
  BY <1>1, <1>3, <1>4, <1>5, <1>6, <1>7, <1>8, <1>9, <1>10, <1>11, <1>12, <1>13 DEF Next

-----------------------------------------------------------------------------
(* Frames under way *)

\* A frame that is not about to reach the page was not a step before, unless this step
\* is the one that tells of the alert.
LEMMA DueStep ==
  ASSUME MonitorTypes, Next, NEW a \in Alerts, NEW o \in BOOLEAN, Due(AlertFrame(a, o))'
  PROVE  \/ Due(AlertFrame(a, o))
         \/ \E h \in Handlers :
              \/ o /\ Alert(h, a, "none", "open")
              \/ ~o /\ Alert(h, a, "open", "resolved")
<1> DEFINE f == AlertFrame(a, o)
           Told == \E h \in Handlers : \/ o /\ Alert(h, a, "none", "open")
                                       \/ ~o /\ Alert(h, a, "open", "resolved")
<1>0. f.type = "alert" /\ f.id = a /\ f.open = o
  BY FrameFields
<1> HIDE DEF f
<1>a. Due(f)'
  BY DEF f
<1>b. owes \in [Handlers -> Debts] /\ wire \in Seq(Frames)
  BY DEF MonitorTypes
<1>1. ASSUME NEW h \in Handlers, NEW correct \in BOOLEAN, NEW points \in Awards,
             Answer(h, correct, points)
      PROVE  Due(f)
  <2>1. wire' = wire /\ \A g \in Handlers : g # h => owes'[g] = owes[g]
    BY <1>1, <1>b DEF Answer
  <2>2. owes'[h] # <<f>>
    <3>1. owes'[h] = <<ScoreDelta(stored.total + points), TaskCompleted>>
          \/ owes'[h] = <<ScoreDelta(stored.total + points)>>
      BY <1>1, <1>b DEF Answer
    <3> QED
      BY <3>1, <1>0, FrameFields
  <2> QED
    BY <1>a, <2>1, <2>2 DEF Due
<1>2. ASSUME NEW h \in Handlers, NEW b \in Alerts, NEW from, NEW to, Alert(h, b, from, to)
      PROVE  Due(f) \/ (b = a /\ o = (to = "open"))
  <2>1. wire' = wire /\ \A g \in Handlers : g # h => owes'[g] = owes[g]
    BY <1>2, <1>b DEF Alert
  <2>2. owes'[h] = <<AlertFrame(b, to = "open")>>
    BY <1>2, <1>b DEF Alert
  <2>3. CASE owes'[h] = <<f>>
    <3>1. AlertFrame(b, to = "open") = f
      BY <2>2, <2>3
    <3>2. b = a /\ o = (to = "open")
      BY <1>0, <3>1, FrameFields
    <3> QED
      BY <3>2
  <2>4. CASE owes'[h] # <<f>>
    BY <1>a, <2>1, <2>4 DEF Due
  <2> QED
    BY <2>3, <2>4
<1>3. ASSUME NEW h \in Handlers, Broadcast(h)
      PROVE  Due(f)
  <2>1. owes[h] \in Debts /\ owes[h] # <<>>
    BY <1>3, <1>b DEF Broadcast
  <2>2. \A g \in Handlers : owes'[g] = IF g = h THEN Tail(owes[h]) ELSE owes[g]
    BY <1>3, <1>b DEF Broadcast
  <2>3. Tail(owes[h]) # <<f>>
    BY <2>1, DebtTold, <1>0, FrameFields
  <2>4. CASE \E g \in Handlers : owes'[g] = <<f>>
    BY <2>2, <2>3, <2>4 DEF Due
  <2>5. CASE \E i \in DOMAIN wire' : wire'[i] = f
    <3>1. CASE wire' = wire
      BY <2>5, <3>1 DEF Due
    <3>2. CASE wire' = Append(wire, Head(owes[h]))
      <4> PICK i \in DOMAIN wire' : wire'[i] = f
        BY <2>5
      <4>1. CASE i \in DOMAIN wire
        BY <1>b, <3>2, <4>1 DEF Due
      <4>2. CASE i \notin DOMAIN wire
        <5>1. i = Len(wire) + 1 /\ Head(owes[h]) = f
          BY <1>b, <3>2, <4>2
        <5>2. owes[h] = <<f>>
          BY <1>0, <2>1, <5>1, DebtTold
        <5> QED
          BY <5>2 DEF Due
      <4> QED
        BY <4>1, <4>2
    <3> QED
      BY <1>3, <3>1, <3>2 DEF Broadcast
  <2> QED
    BY <1>a, <2>4, <2>5 DEF Due
<1>4. ASSUME NEW h \in Handlers, Fail(h)
      PROVE  Due(f)
  <2>1. wire' = wire /\ owes'[h] = <<>> /\ \A g \in Handlers : g # h => owes'[g] = owes[g]
    BY <1>4, <1>b DEF Fail
  <2>2. owes'[h] # <<f>>
    BY <2>1
  <2> QED
    BY <1>a, <2>1, <2>2 DEF Due
<1>5. ASSUME ReadProgress \/ ReadOpenAlerts \/ Respond \/ GiveUp \/ Connect \/ Subscribe \/ OnOpen
      PROVE  Due(f)
  BY <1>a, <1>5 DEF Due, ReadProgress, ReadOpenAlerts, Respond, GiveUp, Connect, Subscribe, OnOpen
<1>6. ASSUME Drop
      PROVE  Due(f)
  BY <1>a, <1>6 DEF Due, Drop
<1>7. ASSUME OnMessage
      PROVE  Due(f)
  <2>1. owes' = owes /\ wire' = Tail(wire) /\ wire # <<>>
    BY <1>7 DEF OnMessage
  <2>2. \A i \in DOMAIN wire' : i + 1 \in DOMAIN wire /\ wire'[i] = wire[i + 1]
    BY <2>1, <1>b
  <2> QED
    BY <1>a, <2>1, <2>2 DEF Due
<1> QED
  <2>1. ASSUME NEW h \in Handlers, NEW b \in Alerts, Alert(h, b, "none", "open")
        PROVE  Due(f) \/ Told
    <3>1. Due(f) \/ (b = a /\ o = ("open" = "open"))
      BY <1>2, <2>1
    <3> QED
      BY <2>1, <3>1
  <2>2. ASSUME NEW h \in Handlers, NEW b \in Alerts, Alert(h, b, "open", "resolved")
        PROVE  Due(f) \/ Told
    <3>1. Due(f) \/ (b = a /\ o = ("resolved" = "open"))
      BY <1>2, <2>2
    <3> QED
      BY <2>2, <3>1
  <2> HIDE DEF Told
  <2>3. ASSUME NEW h \in Handlers,
               \/ \E correct \in BOOLEAN, points \in Awards : Answer(h, correct, points)
               \/ \E b \in Alerts : Alert(h, b, "none", "open") \/ Alert(h, b, "open", "resolved")
               \/ Broadcast(h) \/ Fail(h)
        PROVE  Due(f) \/ Told
    BY <2>1, <2>2, <2>3, <1>1, <1>3, <1>4
  <2>4. Due(f) \/ Told
    BY <2>3, <1>5, <1>6, <1>7 DEF Next
  <2> QED
    BY <2>4 DEF f, Told

\* A resolved alert stays resolved, and is said to be so only once it is.
LEMMA ResolvedStep ==
  ASSUME MonitorTypes, ResolvedInv, Next
  PROVE  ResolvedInv'
<1> SUFFICES ASSUME NEW a \in Alerts, Due(AlertFrame(a, FALSE))'
             PROVE  stored'.stage[a] = "resolved"
  BY DEF ResolvedInv
<1>a. stored.stage \in [Alerts -> {"none", "open", "resolved"}]
  BY DEF MonitorTypes
<1>b. stored \in [total : Int, done : Nat, right : Nat,
                  stage : [Alerts -> {"none", "open", "resolved"}]]
  BY DEF MonitorTypes
<1>1. CASE \E h \in Handlers : Alert(h, a, "open", "resolved")
  BY <1>1, <1>a, <1>b DEF Alert
<1>2. CASE Due(AlertFrame(a, FALSE))
  <2>1. stored.stage[a] = "resolved"
    BY <1>2 DEF ResolvedInv
  <2>2. ASSUME NEW h \in Handlers, NEW correct \in BOOLEAN, NEW points \in Awards,
             Answer(h, correct, points)
        PROVE  stored'.stage[a] = "resolved"
    BY <1>b, <2>1, <2>2 DEF Answer
  <2>3. ASSUME NEW h \in Handlers, NEW b \in Alerts, Alert(h, b, "none", "open")
        PROVE  stored'.stage[a] = "resolved"
    BY <1>b, <2>1, <2>3 DEF Alert
  <2>4. ASSUME NEW h \in Handlers, NEW b \in Alerts, Alert(h, b, "open", "resolved")
        PROVE  stored'.stage[a] = "resolved"
    BY <1>b, <2>1, <2>4 DEF Alert
  <2>5. ASSUME NEW h \in Handlers, Broadcast(h) \/ Fail(h)
        PROVE  stored'.stage[a] = "resolved"
    BY <2>1, <2>5 DEF Broadcast, Fail
  <2>6. ASSUME \/ ReadProgress \/ ReadOpenAlerts \/ Respond \/ GiveUp
               \/ Connect \/ Subscribe \/ OnOpen \/ Drop \/ OnMessage
        PROVE  stored'.stage[a] = "resolved"
    BY <2>1, <2>6 DEF ReadProgress, ReadOpenAlerts, Respond, GiveUp, Connect, Subscribe, OnOpen,
                      Drop, OnMessage
  <2> QED
    BY <2>2, <2>3, <2>4, <2>5, <2>6 DEF Next
<1> QED
  BY <1>1, <1>2, DueStep

\* While all is quiet before and after a step, the rows stay as they are.
LEMMA QuietStep ==
  ASSUME MonitorTypes, Next, Quiet, Quiet'
  PROVE  stored' = stored
<1>1. \A h \in Handlers : owes[h] = <<>> /\ owes'[h] = <<>>
  BY DEF Quiet
<1>2. owes \in [Handlers -> Debts]
  BY DEF MonitorTypes
<1>3. ASSUME NEW h \in Handlers, NEW correct \in BOOLEAN, NEW points \in Awards,
             Answer(h, correct, points)
      PROVE  FALSE
  BY <1>1, <1>2, <1>3 DEF Answer
<1>4. ASSUME NEW h \in Handlers, NEW a \in Alerts, NEW from, NEW to, Alert(h, a, from, to)
      PROVE  FALSE
  BY <1>1, <1>2, <1>4 DEF Alert
<1>5. ASSUME NEW h \in Handlers, Broadcast(h) \/ Fail(h)
      PROVE  FALSE
  BY <1>1, <1>5 DEF Broadcast, Fail
<1>6. CASE \/ ReadProgress \/ ReadOpenAlerts \/ Respond \/ GiveUp
           \/ Connect \/ Subscribe \/ OnOpen \/ Drop \/ OnMessage
  BY <1>6 DEF ReadProgress, ReadOpenAlerts, Respond, GiveUp, Connect, Subscribe, OnOpen,
              Drop, OnMessage
<1> QED
  BY <1>3, <1>4, <1>5, <1>6 DEF Next

\* A snapshot asked for and read in quiet holds what is stored.
LEMMA SteadyStep ==
  ASSUME MonitorTypes, SteadyInv, MCNext
  PROVE  SteadyInv'
<1> SUFFICES ASSUME steady'
             PROVE  /\ Quiet'
                    /\ query'.pc \in {"progress", "answered"} =>
                         query'.total = stored'.total /\ query'.done = stored'.done
                    /\ query'.pc = "answered" => query'.open = Cardinality(OpenAlerts')
  BY DEF SteadyInv
<1>0. Next
  BY DEF MCNext
<1>1. Quiet' /\ (steady \/ query'.pc = "asked")
  BY DEF MCNext
<1>2. CASE query'.pc = "asked"
  BY <1>1, <1>2
<1>3. CASE query'.pc # "asked"
  <2>1. /\ Quiet
        /\ query.pc \in {"progress", "answered"} =>
             query.total = stored.total /\ query.done = stored.done
        /\ query.pc = "answered" => query.open = Cardinality(OpenAlerts)
    BY <1>1, <1>3 DEF SteadyInv
  <2>2. stored' = stored /\ OpenAlerts' = OpenAlerts
    BY <1>0, <1>1, <2>1, QuietStep DEF OpenAlerts
  <2>3. query \in [pc : {"idle", "asked", "progress", "answered"},
                   total : Int, done : Nat, open : Nat]
    BY DEF MonitorTypes
  <2> DEFINE Holds ==
        /\ query'.pc \in {"progress", "answered"} =>
             query'.total = stored'.total /\ query'.done = stored'.done
        /\ query'.pc = "answered" => query'.open = Cardinality(OpenAlerts')
  <2>4. ASSUME query' = query PROVE Holds
    BY <2>1, <2>2, <2>4
  <2>5. ASSUME ReadProgress PROVE Holds
    <3>1. query'.pc = "progress" /\ query'.total = stored.total /\ query'.done = stored.done
      BY <2>3, <2>5 DEF ReadProgress
    <3> QED
      BY <2>2, <3>1
  <2>6. ASSUME ReadOpenAlerts PROVE Holds
    <3>1. /\ query.pc = "progress" /\ query'.pc = "answered"
          /\ query'.total = query.total /\ query'.done = query.done
          /\ query'.open = Cardinality(OpenAlerts)
      BY <2>3, <2>6 DEF ReadOpenAlerts
    <3> QED
      BY <2>1, <2>2, <3>1
  <2>7. ASSUME Respond \/ GiveUp PROVE Holds
    BY <2>7 DEF Respond, GiveUp, NoQuery
  <2>8. ASSUME OnOpen PROVE Holds
    <3>1. query' = query \/ query'.pc = "asked"
      BY <2>8 DEF OnOpen, Refetched, Request, NoQuery
    <3> QED
      BY <1>3, <2>4, <3>1
  <2>9. ASSUME NEW h \in Handlers, NEW correct \in BOOLEAN, NEW points \in Awards,
             Answer(h, correct, points)
        PROVE  query' = query
    BY <2>9 DEF Answer
  <2>10. ASSUME NEW h \in Handlers, NEW a \in Alerts, NEW from, NEW to, Alert(h, a, from, to)
         PROVE  query' = query
    BY <2>10 DEF Alert
  <2>11. ASSUME NEW h \in Handlers, Broadcast(h) \/ Fail(h)
         PROVE  query' = query
    BY <2>11 DEF Broadcast, Fail
  <2>12. ASSUME Connect \/ Subscribe \/ Drop \/ OnMessage
         PROVE  query' = query
    BY <2>12 DEF Connect, Subscribe, Drop, OnMessage
  <2> HIDE DEF Holds
  <2>13. Holds
    BY <1>0, <2>4, <2>5, <2>6, <2>7, <2>8, <2>9, <2>10, <2>11, <2>12 DEF Next
  <2> QED
    BY <1>1, <2>13 DEF Holds
<1> QED
  BY <1>2, <1>3

-----------------------------------------------------------------------------
(* Steps of a page that stays sound *)

\* A page reset by a steady snapshot starts even with the server.
LEMMA ResetStep ==
  ASSUME MonitorTypes, SteadyInv, MCNext, Reset, sound'
  PROVE  TotalInv' /\ DoneInv' /\ BadgeInv'
<1>1. steady /\ page' = FromSnapshot(query) /\ query.pc = "answered" /\ query'.pc = "idle"
  BY DEF MCNext, Reset
<1>2. /\ Quiet /\ query.total = stored.total /\ query.done = stored.done
      /\ query.open = Cardinality(OpenAlerts)
  BY <1>1 DEF SteadyInv
<1>3. Next
  BY DEF MCNext
<1>4. UNCHANGED <<stored, owes, wire>>
  <2>1. query' # query
    BY <1>1
  <2>2. CASE Respond \/ GiveUp
    BY <2>2 DEF Respond, GiveUp
  <2>3. CASE ReadProgress \/ ReadOpenAlerts \/ OnOpen
    BY <2>3 DEF ReadProgress, ReadOpenAlerts, OnOpen
  <2>4. ASSUME NEW h \in Handlers, NEW correct \in BOOLEAN, NEW points \in Awards,
             Answer(h, correct, points)
        PROVE  FALSE
    BY <2>1, <2>4 DEF Answer
  <2>5. ASSUME NEW h \in Handlers, NEW a \in Alerts, NEW from, NEW to, Alert(h, a, from, to)
        PROVE  FALSE
    BY <2>1, <2>5 DEF Alert
  <2>6. ASSUME NEW h \in Handlers, Broadcast(h) \/ Fail(h)
        PROVE  FALSE
    BY <2>1, <2>6 DEF Broadcast, Fail
  <2>7. ASSUME Connect \/ Subscribe \/ Drop \/ OnMessage
        PROVE  FALSE
    BY <2>1, <2>7 DEF Connect, Subscribe, Drop, OnMessage
  <2> QED
    BY <1>3, <2>2, <2>3, <2>4, <2>5, <2>6, <2>7 DEF Next
<1>5. wire' = <<>> /\ \A h \in Handlers : owes'[h] = <<>>
  BY <1>2, <1>4 DEF Quiet
<1>6. \A h \in Handlers : ~Scores(h)'
  BY <1>5 DEF Scores
<1>7. /\ page'.total = stored.total /\ page'.done = stored.done /\ page'.size = Size
      /\ page'.alerts = Unheard /\ page'.openAlerts = Cardinality(OpenAlerts)
  BY <1>1, <1>2 DEF FromSnapshot
<1>8. TotalInv'
  <2>1. DOMAIN wire' = {}
    BY <1>5
  <2> QED
    BY <1>4, <1>6, <1>7, <2>1 DEF TotalInv
<1>9. DoneInv'
  <2>1. DoneOwed' = {} /\ DoneSent' = {}
    BY <1>5 DEF DoneOwed, DoneSent
  <2>2. Cardinality(DoneOwed') = 0 /\ Cardinality(DoneSent') = 0
    BY <2>1, FS_EmptySet
  <2>3. /\ stored.done \in Nat /\ stored.right \in Nat /\ stored.right <= stored.done
        /\ stored' = stored
    BY <1>4 DEF MonitorTypes
  <2>4. counted' = stored.done - stored.right
    BY <1>2 DEF MCNext
  <2>5. Accounted' = stored.done
    BY <1>7, <2>2, <2>3 DEF Accounted
  <2> QED
    BY <1>7, <2>3, <2>4, <2>5 DEF DoneInv
<1>10. BadgeInv'
  <2>1. Counted' \subseteq OpenAlerts
    BY <1>4, <1>7 DEF Counted, OpenAlerts, Unheard
  <2>2. OpenAlerts \subseteq Alerts
    BY DEF OpenAlerts
  <2>3. Cardinality(Counted') <= Cardinality(OpenAlerts)
    BY <2>1, <2>2, FewerAlerts
  <2> QED
    BY <1>7, <2>3 DEF BadgeInv
<1> QED
  BY <1>8, <1>9, <1>10

\* Told h: its first frame goes onto the wire.
Told(h) ==
  /\ owes[h] # <<>> /\ stored' = stored /\ page' = page
  /\ owes' = [owes EXCEPT ![h] = Tail(@)]
  /\ wire' = Append(wire, Head(owes[h]))

\* The steps that lose nothing and leave the snapshot alone.
Lossless ==
  \/ \E h \in Handlers, correct \in BOOLEAN, points \in Awards : Answer(h, correct, points)
  \/ \E h \in Handlers, a \in Alerts :
       Alert(h, a, "none", "open") \/ Alert(h, a, "open", "resolved")
  \/ \E h \in Handlers : Told(h)
  \/ OnMessage
  \/ UNCHANGED <<stored, owes, wire, page>>

\* Otherwise the page was sound already, by the same snapshot, nothing is lost by the
\* step and no two totals are about to be told side by side.
LEMMA SoundStep ==
  ASSUME MonitorTypes, MCNext, ~Reset, sound'
  PROVE  sound /\ ~Crossed /\ Lossless /\ counted' = counted
<1>1. Next /\ sound /\ ~Crossed /\ ~Missed /\ link'.subscribed /\ counted' = counted
  BY DEF MCNext
<1>2. owes \in [Handlers -> Debts]
  BY DEF MonitorTypes
<1>3. ASSUME NEW h \in Handlers, Broadcast(h)
      PROVE  Told(h)
  <2>1. owes[h] \in Debts /\ owes[h] # <<>> /\ owes'[h] = Tail(owes[h])
    BY <1>2, <1>3 DEF Broadcast
  <2>2. owes'[h] # owes[h] /\ Len(owes'[h]) < Len(owes[h])
    BY <2>1, DebtTold
  <2>3. wire' # wire
    BY <1>1, <2>2 DEF Missed
  <2> QED
    BY <1>3, <2>3 DEF Broadcast, Told
<1>4. ASSUME NEW h \in Handlers, Fail(h)
      PROVE  FALSE
  <2>1. owes[h] \in Debts /\ owes[h] # <<>> /\ owes'[h] = <<>> /\ wire' = wire
    BY <1>2, <1>4 DEF Fail
  <2>2. Len(owes[h]) > 0
    BY <2>1, DebtTold
  <2> QED
    BY <1>1, <2>1, <2>2 DEF Missed
<1>5. ASSUME Respond
      PROVE  FALSE
  BY <1>5 DEF Respond, Reset, NoQuery
<1>6. ASSUME Drop
      PROVE  FALSE
  <2>1. link'.subscribed = FALSE
    BY <1>6 DEF Drop, NoLink
  <2> QED
    BY <1>1, <2>1
<1>7. ASSUME ReadProgress \/ ReadOpenAlerts \/ GiveUp \/ Connect \/ Subscribe \/ OnOpen
      PROVE  UNCHANGED <<stored, owes, wire, page>>
  BY <1>7 DEF ReadProgress, ReadOpenAlerts, GiveUp, Connect, Subscribe, OnOpen
<1> QED
  BY <1>1, <1>3, <1>4, <1>5, <1>6, <1>7 DEF Next, Lossless

-----------------------------------------------------------------------------
(* Totals *)

\* What a step tells is what was first to be told, and what is left is no total.
LEMMA ToldFacts ==
  ASSUME MonitorTypes, NEW h \in Handlers, Told(h)
  PROVE  /\ Head(owes[h]) \in Frames /\ Head(owes[h]) = owes[h][1]
         /\ owes'[h] = Tail(owes[h]) /\ \A g \in Handlers : g # h => owes'[g] = owes[g]
         /\ ~Scores(h)'
         /\ Scores(h) <=> Head(owes[h]).type = "score_delta"
         /\ \/ owes[h] = <<Head(owes[h])>> /\ owes'[h] = <<>>
            \/ /\ owes[h] = <<Head(owes[h]), TaskCompleted>> /\ owes'[h] = <<TaskCompleted>>
               /\ Head(owes[h]).type = "score_delta"
         /\ DOMAIN wire = 1..Len(wire) /\ Len(wire) \in Nat
         /\ DOMAIN wire' = 1..(Len(wire) + 1)
         /\ \A i \in 1..Len(wire) : wire'[i] = wire[i]
         /\ wire'[Len(wire) + 1] = Head(owes[h])
<1>1. owes \in [Handlers -> Debts] /\ wire \in Seq(Frames)
  BY DEF MonitorTypes
<1>2. owes[h] \in Debts /\ owes[h] # <<>> /\ owes'[h] = Tail(owes[h])
      /\ \A g \in Handlers : g # h => owes'[g] = owes[g]
  BY <1>1 DEF Told
<1>3. /\ Head(owes[h]) \in Frames /\ Head(owes[h]) = owes[h][1]
      /\ \/ owes[h] = <<Head(owes[h])>> /\ owes'[h] = <<>>
         \/ /\ owes[h] = <<Head(owes[h]), TaskCompleted>> /\ owes'[h] = <<TaskCompleted>>
            /\ Head(owes[h]).type = "score_delta"
  BY <1>2, DebtTold
<1>4. ~Scores(h)'
  <2>1. CASE owes'[h] = <<>>
    BY <2>1 DEF Scores
  <2>2. CASE owes'[h] = <<TaskCompleted>>
    <3>1. DOMAIN owes'[h] = {1} /\ owes'[h][1] = TaskCompleted
      BY <2>2
    <3> QED
      BY <3>1, FrameFields DEF Scores
  <2> QED
    BY <1>3, <2>1, <2>2
<1>5. Scores(h) <=> Head(owes[h]).type = "score_delta"
  BY <1>2, <1>3, DebtKinds
<1>6. wire' = Append(wire, Head(owes[h]))
  BY DEF Told
<1>7. /\ DOMAIN wire = 1..Len(wire) /\ Len(wire) \in Nat
      /\ DOMAIN wire' = 1..(Len(wire) + 1)
      /\ \A i \in 1..Len(wire) : wire'[i] = wire[i]
      /\ wire'[Len(wire) + 1] = Head(owes[h])
  BY <1>1, <1>3, <1>6
<1> QED
  BY <1>2, <1>3, <1>4, <1>5, <1>7

\* What a step tells of an alert is no total.
LEMMA AlertFacts ==
  ASSUME MonitorTypes, NEW h \in Handlers, NEW a \in Alerts, NEW from, NEW to,
         Alert(h, a, from, to)
  PROVE  /\ owes[h] = <<>> /\ owes'[h] = <<AlertFrame(a, to = "open")>>
         /\ \A g \in Handlers : g # h => owes'[g] = owes[g]
         /\ \A g \in Handlers : Scores(g)' <=> Scores(g)
         /\ UNCHANGED <<wire, page>>
         /\ stored'.total = stored.total
         /\ stored'.done = stored.done /\ stored'.right = stored.right
         /\ \A b \in Alerts : stored'.stage[b] = IF b = a THEN to ELSE stored.stage[b]
<1>1. /\ owes \in [Handlers -> Debts]
      /\ stored \in [total : Int, done : Nat, right : Nat,
                     stage : [Alerts -> {"none", "open", "resolved"}]]
  BY DEF MonitorTypes
<1>2. /\ owes[h] = <<>> /\ owes'[h] = <<AlertFrame(a, to = "open")>>
      /\ \A g \in Handlers : g # h => owes'[g] = owes[g]
  BY <1>1 DEF Alert
<1>3. ~Scores(h) /\ ~Scores(h)'
  <2>1. DOMAIN owes[h] = {} /\ DOMAIN owes'[h] = {1}
    BY <1>2
  <2>2. owes'[h][1] = AlertFrame(a, to = "open")
    BY <1>2
  <2> QED
    BY <2>1, <2>2, FrameFields DEF Scores
<1>4. \A g \in Handlers : g # h => (Scores(g)' <=> Scores(g))
  BY <1>2 DEF Scores
<1>5. /\ UNCHANGED <<wire, page>>
      /\ stored'.total = stored.total /\ stored'.done = stored.done /\ stored'.right = stored.right
      /\ \A b \in Alerts : stored'.stage[b] = IF b = a THEN to ELSE stored.stage[b]
  BY <1>1 DEF Alert
<1> QED
  BY <1>2, <1>3, <1>4, <1>5

\* Of two handlers one must have told its total before the other stores: the totals
\* on their way are in the order they were stored, the last being the stored one.
LEMMA TotalStep ==
  ASSUME MonitorTypes, TotalInv, Lossless, ~Crossed
  PROVE  TotalInv'
<1>a. /\ owes \in [Handlers -> Debts] /\ wire \in Seq(Frames)
      /\ stored \in [total : Int, done : Nat, right : Nat,
                     stage : [Alerts -> {"none", "open", "resolved"}]]
      /\ page \in [total : Int, done : Nat, size : {0, Size},
                   alerts : [Alerts -> {"unheard", "open", "resolved"}], openAlerts : Nat]
  BY DEF MonitorTypes
<1>b. \A g, h \in Handlers : Scores(g)' /\ Scores(h)' => g = h
  BY DEF Crossed
<1>1. ASSUME NEW h \in Handlers, NEW correct \in BOOLEAN, NEW points \in Awards,
             Answer(h, correct, points)
      PROVE  TotalInv'
  <2>1. /\ owes'[h] = <<ScoreDelta(stored'.total), TaskCompleted>>
           \/ owes'[h] = <<ScoreDelta(stored'.total)>>
        /\ \A g \in Handlers : g # h => owes'[g] = owes[g]
    BY <1>1, <1>a DEF Answer
  <2>2. 1 \in DOMAIN owes'[h] /\ owes'[h][1] = ScoreDelta(stored'.total)
    BY <2>1
  <2>3. Scores(h)'
    BY <2>2, FrameFields DEF Scores
  <2>4. \A g \in Handlers : Scores(g)' => g = h
    BY <1>b, <2>3
  <2> QED
    BY <1>b, <2>2, <2>3, <2>4 DEF TotalInv
<1>2. ASSUME NEW h \in Handlers, NEW a \in Alerts, NEW from, NEW to, Alert(h, a, from, to)
      PROVE  TotalInv'
  <2>1. /\ owes'[h] = <<AlertFrame(a, to = "open")>>
        /\ \A g \in Handlers : g # h => owes'[g] = owes[g]
        /\ \A g \in Handlers : Scores(g)' <=> Scores(g)
        /\ UNCHANGED <<wire, page>> /\ stored'.total = stored.total
    BY <1>2, AlertFacts
  <2>2. ~Scores(h)
    <3>1. DOMAIN owes[h] = {}
      BY <1>2, AlertFacts
    <3> QED
      BY <3>1 DEF Scores
  <2>3. \A g \in Handlers : Scores(g)' => owes'[g][1] = ScoreDelta(stored'.total)
    BY <2>1, <2>2 DEF TotalInv
  <2> QED
    BY <1>b, <2>1, <2>3 DEF TotalInv
<1>3. ASSUME NEW h \in Handlers, Told(h)
      PROVE  TotalInv'
  <2> DEFINE n == Len(wire)
             f == Head(owes[h])
  <2>1. /\ \A g \in Handlers : g # h => owes'[g] = owes[g]
        /\ ~Scores(h)' /\ (Scores(h) <=> f.type = "score_delta") /\ f = owes[h][1]
        /\ DOMAIN wire = 1..n /\ n \in Nat /\ DOMAIN wire' = 1..(n + 1)
        /\ \A i \in 1..n : wire'[i] = wire[i]
        /\ wire'[n + 1] = f
    BY <1>3, ToldFacts
  <2>2. stored' = stored /\ page' = page
    BY <1>3 DEF Told
  <2>3. \A g \in Handlers : g # h => (Scores(g)' <=> Scores(g))
    BY <2>1 DEF Scores
  <2> HIDE DEF n, f
  <2>4. \A g \in Handlers : Scores(g)' => owes'[g][1] = ScoreDelta(stored'.total)
    BY <2>1, <2>2, <2>3 DEF TotalInv
  <2>5. ASSUME \A g \in Handlers : ~Scores(g)'
        PROVE  \/ /\ page'.total = stored'.total
                  /\ \A i \in DOMAIN wire' : wire'[i].type # "score_delta"
               \/ \E i \in DOMAIN wire' :
                    /\ wire'[i] = ScoreDelta(stored'.total)
                    /\ \A j \in DOMAIN wire' : j > i => wire'[j].type # "score_delta"
    <3>1. CASE Scores(h)
      <4>1. f = ScoreDelta(stored.total)
        BY <2>1, <3>1 DEF TotalInv
      <4>2. n + 1 \in DOMAIN wire' /\ wire'[n + 1] = ScoreDelta(stored'.total)
        BY <2>1, <2>2, <4>1
      <4>3. \A j \in DOMAIN wire' : ~(j > n + 1)
        BY <2>1
      <4> QED
        BY <4>2, <4>3
    <3>2. CASE ~Scores(h)
      <4>1. \A g \in Handlers : ~Scores(g)
        BY <2>3, <2>5, <3>2
      <4>2. f.type # "score_delta"
        BY <2>1, <3>2
      <4>3. CASE /\ page.total = stored.total
                 /\ \A i \in DOMAIN wire : wire[i].type # "score_delta"
        <5>1. \A i \in DOMAIN wire' : wire'[i].type # "score_delta"
          BY <2>1, <4>2, <4>3
        <5> QED
          BY <2>2, <4>3, <5>1
      <4>4. CASE \E i \in DOMAIN wire :
                   /\ wire[i] = ScoreDelta(stored.total)
                   /\ \A j \in DOMAIN wire : j > i => wire[j].type # "score_delta"
        <5> PICK i \in DOMAIN wire :
                   /\ wire[i] = ScoreDelta(stored.total)
                   /\ \A j \in DOMAIN wire : j > i => wire[j].type # "score_delta"
          BY <4>4
        <5>1. i \in DOMAIN wire' /\ wire'[i] = ScoreDelta(stored'.total)
          BY <2>1, <2>2
        <5>2. \A j \in DOMAIN wire' : j > i => wire'[j].type # "score_delta"
          BY <2>1, <4>2
        <5> QED
          BY <5>1, <5>2
      <4> QED
        BY <4>1, <4>3, <4>4 DEF TotalInv
    <3> QED
      BY <3>1, <3>2
  <2> QED
    BY <1>b, <2>4, <2>5 DEF TotalInv
<1>4. ASSUME OnMessage
      PROVE  TotalInv'
  <2> DEFINE n == Len(wire)
             f == Head(wire)
  <2>1. owes' = owes /\ stored' = stored /\ wire' = Tail(wire) /\ wire # <<>>
        /\ page' = Reduced(f)
    BY <1>4 DEF OnMessage
  <2>2. /\ DOMAIN wire = 1..n /\ n \in Nat \ {0} /\ DOMAIN wire' = 1..(n - 1)
        /\ f = wire[1] /\ f \in Frames
        /\ \A i \in 1..(n - 1) : wire'[i] = wire[i + 1]
    BY <1>a, <2>1
  <2>3. \A g \in Handlers : Scores(g)' <=> Scores(g)
    BY <2>1 DEF Scores
  <2> HIDE DEF n, f
  <2>4. \A g \in Handlers : Scores(g)' => owes'[g][1] = ScoreDelta(stored'.total)
    BY <2>1, <2>3 DEF TotalInv
  <2>5. page'.total = IF f.type = "score_delta" THEN f.total ELSE page.total
    <3>1. CASE f.type = "score_delta"
      <4>1. page' = [page EXCEPT !.total = f.total]
        BY <2>1, <3>1 DEF Reduced
      <4> QED
        BY <1>a, <3>1, <4>1
    <3>2. CASE f.type = "task_completed"
      <4>1. page' = [page EXCEPT !.done = IF page.size > 0 /\ @ >= page.size THEN page.size
                                       ELSE @ + 1]
        BY <2>1, <3>2 DEF Reduced
      <4> QED
        BY <1>a, <3>2, <4>1
    <3>3. CASE f.type = "alert"
      <4>1. page' = [page EXCEPT !.alerts[f.id] = IF f.open THEN "open" ELSE "resolved",
                                 !.openAlerts = CountOpen(f)]
        BY <2>1, <3>3 DEF Reduced
      <4> QED
        BY <1>a, <3>3, <4>1
    <3> QED
      BY <2>2, <3>1, <3>2, <3>3, FrameKinds
  <2>6. ASSUME \A g \in Handlers : ~Scores(g)'
        PROVE  \/ /\ page'.total = stored'.total
                  /\ \A i \in DOMAIN wire' : wire'[i].type # "score_delta"
               \/ \E i \in DOMAIN wire' :
                    /\ wire'[i] = ScoreDelta(stored'.total)
                    /\ \A j \in DOMAIN wire' : j > i => wire'[j].type # "score_delta"
    <3>1. \A g \in Handlers : ~Scores(g)
      BY <2>3, <2>6
    <3>2. CASE /\ page.total = stored.total
               /\ \A i \in DOMAIN wire : wire[i].type # "score_delta"
      <4>1. f.type # "score_delta"
        BY <2>2, <3>2
      <4>2. \A i \in DOMAIN wire' : wire'[i].type # "score_delta"
        BY <2>2, <3>2
      <4> QED
        BY <2>1, <2>5, <3>2, <4>1, <4>2
    <3>3. CASE \E i \in DOMAIN wire :
                 /\ wire[i] = ScoreDelta(stored.total)
                 /\ \A j \in DOMAIN wire : j > i => wire[j].type # "score_delta"
      <4> PICK i \in DOMAIN wire :
                 /\ wire[i] = ScoreDelta(stored.total)
                 /\ \A j \in DOMAIN wire : j > i => wire[j].type # "score_delta"
        BY <3>3
      <4>1. CASE i = 1
        <5>1. page'.total = stored'.total
          BY <2>1, <2>2, <2>5, <4>1, FrameFields
        <5>2. \A j \in DOMAIN wire' : wire'[j].type # "score_delta"
          BY <2>2, <4>1
        <5> QED
          BY <5>1, <5>2
      <4>2. CASE i # 1
        <5>1. i - 1 \in DOMAIN wire' /\ wire'[i - 1] = ScoreDelta(stored'.total)
          BY <2>1, <2>2, <4>2
        <5>2. ASSUME NEW j \in DOMAIN wire', j > i - 1
              PROVE  wire'[j].type # "score_delta"
          <6>1. i \in 1..n /\ j \in 1..(n - 1) /\ n \in Nat
            BY <2>2
          <6>2. j + 1 \in 1..n /\ j + 1 > i
            BY <5>2, <6>1
          <6>3. wire'[j] = wire[j + 1] /\ j + 1 \in DOMAIN wire
            BY <2>2, <6>1, <6>2
          <6> QED
            BY <6>2, <6>3
        <5> QED
          BY <5>1, <5>2
      <4> QED
        BY <4>1, <4>2
    <3> QED
      BY <3>1, <3>2, <3>3 DEF TotalInv
  <2> QED
    BY <1>b, <2>4, <2>6 DEF TotalInv
<1>5. ASSUME UNCHANGED <<stored, owes, wire, page>>
      PROVE  TotalInv'
  BY <1>5 DEF TotalInv, Scores
<1> QED
  BY <1>1, <1>2, <1>3, <1>4, <1>5 DEF Lossless

-----------------------------------------------------------------------------
(* Completed tasks *)

\* Whether a handler has a completed task to tell depends on its debts alone.
LEMMA DoneOwedKept ==
  ASSUME MonitorTypes, MonitorTypes', NEW g \in Handlers, owes'[g] = owes[g]
  PROVE  g \in DoneOwed' <=> g \in DoneOwed
BY DEF DoneOwed

\* Every right answer reaches the page once: the cap at the route's size does not bite
\* before more is stored, as the page shows less than is stored while one is on its way.
LEMMA DoneStep ==
  ASSUME MonitorTypes, MonitorTypes', DoneInv, Lossless, counted' = counted
  PROVE  DoneInv'
<1>a. /\ owes \in [Handlers -> Debts] /\ wire \in Seq(Frames)
      /\ stored \in [total : Int, done : Nat, right : Nat,
                     stage : [Alerts -> {"none", "open", "resolved"}]]
      /\ page \in [total : Int, done : Nat, size : {0, Size},
                   alerts : [Alerts -> {"unheard", "open", "resolved"}], openAlerts : Nat]
      /\ Size \in Nat
  BY MonitorConstants DEF MonitorTypes
<1>b. /\ page.size = Size /\ counted \in Nat
      /\ stored.right + counted <= stored.done
      /\ Accounted <= stored.right + counted
      /\ ~Capped => Accounted = stored.right + counted
  BY DEF DoneInv
<1>c. /\ DoneOwed \subseteq Handlers /\ IsFiniteSet(DoneOwed)
      /\ Cardinality(DoneOwed) \in Nat /\ Cardinality(DoneSent) \in Nat
  BY <1>a, HandlerCount, WireCount DEF DoneOwed, DoneSent
<1>d. ASSUME stored'.done = stored.done, stored'.right = stored.right, page'.size = page.size,
             Accounted' = Accounted
      PROVE  DoneInv'
  BY <1>b, <1>d DEF DoneInv, Capped
<1>e. Accounted \in Nat /\ Accounted = page.done + Cardinality(DoneOwed) + Cardinality(DoneSent)
  BY <1>a, <1>c DEF Accounted
<1>f. ASSUME NEW k \in {0, 1}, stored'.done = stored.done + 1, stored'.right = stored.right + k,
             page'.size = page.size, Accounted' = Accounted + k
      PROVE  DoneInv'
  <2>1. ~Capped' => ~Capped
    BY <1>a, <1>f DEF Capped
  <2>2. PICK n \in Nat : n = Accounted
    BY <1>e
  <2>3. /\ stored.right + k + counted <= stored.done + 1
        /\ n + k <= stored.right + k + counted
        /\ ~Capped => n + k = stored.right + k + counted
    BY <1>a, <1>b, <2>2
  <2> QED
    BY <1>b, <1>f, <2>1, <2>2, <2>3 DEF DoneInv
<1>1. ASSUME NEW h \in Handlers, NEW correct \in BOOLEAN, NEW points \in Awards,
             Answer(h, correct, points)
      PROVE  DoneInv'
  <2>1. /\ \A g \in Handlers : g # h => owes'[g] = owes[g]
        /\ owes[h] = <<>> /\ UNCHANGED <<wire, page>>
        /\ owes'[h] = IF correct THEN <<ScoreDelta(stored.total + points), TaskCompleted>>
                      ELSE <<ScoreDelta(stored.total + points)>>
        /\ stored'.done = stored.done + 1
        /\ stored'.right = IF correct THEN stored.right + 1 ELSE stored.right
    BY <1>1, <1>a DEF Answer
  <2>2. h \notin DoneOwed /\ \A g \in Handlers : g # h => (g \in DoneOwed' <=> g \in DoneOwed)
    BY <2>1, DoneOwedKept DEF DoneOwed
  <2>3. DoneSent' = DoneSent /\ page'.size = Size /\ page'.done = page.done
    BY <2>1, <1>b DEF DoneSent
  <2>4. CASE correct
    <3>1. owes'[h] = <<ScoreDelta(stored.total + points), TaskCompleted>>
      BY <2>1, <2>4
    <3>2. Len(owes'[h]) = 2 /\ owes'[h][2] = TaskCompleted /\ owes'[h] # <<>>
      BY <3>1
    <3>3. h \in DoneOwed'
      BY <3>2 DEF DoneOwed
    <3>4. DoneOwed' = DoneOwed \cup {h}
      BY <2>2, <3>3 DEF DoneOwed
    <3>5. Cardinality(DoneOwed') = Cardinality(DoneOwed) + 1
      BY <1>c, <2>2, <3>4, FS_AddElement
    <3>6. Accounted' = Accounted + 1
      BY <1>a, <1>c, <2>3, <3>5 DEF Accounted
    <3>7. stored'.right = stored.right + 1 /\ page'.size = page.size
      BY <1>b, <2>1, <2>3, <2>4
    <3> QED
      BY <1>f, <2>1, <3>6, <3>7
  <2>5. CASE ~correct
    <3>1. owes'[h] = <<ScoreDelta(stored.total + points)>>
      BY <2>1, <2>5
    <3>2. Len(owes'[h]) = 1 /\ owes'[h][1] = ScoreDelta(stored.total + points)
      BY <3>1
    <3>3. h \notin DoneOwed'
      BY <3>2, FrameFields DEF DoneOwed
    <3>4. DoneOwed' = DoneOwed
      BY <2>2, <3>3 DEF DoneOwed
    <3>5. Accounted' = Accounted + 0
      BY <1>a, <1>c, <2>3, <3>4 DEF Accounted
    <3>6. stored'.right = stored.right + 0 /\ page'.size = page.size
      BY <1>a, <1>b, <2>1, <2>3, <2>5
    <3> QED
      BY <1>f, <2>1, <3>5, <3>6
  <2> QED
    BY <2>4, <2>5
<1>2. ASSUME NEW h \in Handlers, NEW a \in Alerts, NEW from, NEW to, Alert(h, a, from, to)
      PROVE  DoneInv'
  <2>1. /\ owes[h] = <<>> /\ owes'[h] = <<AlertFrame(a, to = "open")>>
        /\ \A g \in Handlers : g # h => owes'[g] = owes[g]
        /\ UNCHANGED <<wire, page>> /\ stored'.done = stored.done
        /\ stored'.right = stored.right
    BY <1>2, AlertFacts
  <2>2. h \notin DoneOwed
    BY <2>1 DEF DoneOwed
  <2>3. h \notin DoneOwed'
    <3>1. Len(owes'[h]) = 1 /\ owes'[h][1] = AlertFrame(a, to = "open")
      BY <2>1
    <3> QED
      BY <3>1, FrameFields DEF DoneOwed
  <2>4. \A g \in Handlers : g # h => (g \in DoneOwed' <=> g \in DoneOwed)
    BY <2>1, DoneOwedKept
  <2>5. DoneOwed' = DoneOwed
    BY <2>2, <2>3, <2>4 DEF DoneOwed
  <2>6. DoneSent' = DoneSent
    BY <2>1 DEF DoneSent
  <2>7. Accounted' = Accounted
    BY <2>1, <2>5, <2>6 DEF Accounted
  <2> QED
    BY <1>d, <2>1, <2>7
<1>3. ASSUME NEW h \in Handlers, Told(h)
      PROVE  DoneInv'
  <2> DEFINE f == Head(owes[h])
  <2>1. /\ \A g \in Handlers : g # h => owes'[g] = owes[g]
        /\ f \in Frames
        /\ \/ owes[h] = <<f>> /\ owes'[h] = <<>>
           \/ /\ owes[h] = <<f, TaskCompleted>> /\ owes'[h] = <<TaskCompleted>>
              /\ f.type = "score_delta"
    BY <1>3, ToldFacts
  <2>2. stored' = stored /\ page' = page /\ wire' = Append(wire, f)
    BY <1>3 DEF Told
  <2> HIDE DEF f
  <2>3. Cardinality(DoneSent') = IF f = TaskCompleted THEN Cardinality(DoneSent) + 1
                                 ELSE Cardinality(DoneSent)
    <3>1. DoneSent = Completed(wire) /\ DoneSent' = Completed(wire')
      BY DEF DoneSent, Completed
    <3> QED
      BY <1>a, <2>1, <2>2, <3>1, SentGrows
  <2>4. \A g \in Handlers : g # h => (g \in DoneOwed' <=> g \in DoneOwed)
    BY <2>1, DoneOwedKept
  <2>5. CASE f = TaskCompleted
    <3>1. owes[h] = <<f>> /\ owes'[h] = <<>>
      BY <2>1, <2>5, FrameFields
    <3>2. Len(owes[h]) = 1 /\ owes[h][1] = f /\ owes[h] # <<>>
      BY <3>1
    <3>3. h \in DoneOwed /\ h \notin DoneOwed'
      BY <2>5, <3>1, <3>2 DEF DoneOwed
    <3>4. DoneOwed' = DoneOwed \ {h}
      BY <2>4, <3>3 DEF DoneOwed
    <3>5. Cardinality(DoneOwed') = Cardinality(DoneOwed) - 1
      BY <1>c, <3>3, <3>4, FS_RemoveElement
    <3>6. Accounted' = Accounted
      BY <1>a, <1>c, <2>2, <2>3, <2>5, <3>5 DEF Accounted
    <3> QED
      BY <1>d, <2>2, <3>6
  <2>6. CASE f # TaskCompleted
    <3>1. h \in DoneOwed <=> h \in DoneOwed'
      <4>1. CASE owes[h] = <<f>> /\ owes'[h] = <<>>
        <5>1. Len(owes[h]) = 1 /\ owes[h][1] = f
          BY <4>1
        <5> QED
          BY <2>6, <4>1, <5>1 DEF DoneOwed
      <4>2. CASE owes[h] = <<f, TaskCompleted>> /\ owes'[h] = <<TaskCompleted>>
        <5>1. Len(owes[h]) = 2 /\ owes[h][2] = TaskCompleted /\ owes[h] # <<>>
          BY <4>2
        <5>2. Len(owes'[h]) = 1 /\ owes'[h][1] = TaskCompleted /\ owes'[h] # <<>>
          BY <4>2
        <5> QED
          BY <5>1, <5>2 DEF DoneOwed
      <4> QED
        BY <2>1, <4>1, <4>2
    <3>2. DoneOwed' = DoneOwed
      BY <2>4, <3>1 DEF DoneOwed
    <3>3. Accounted' = Accounted
      BY <2>2, <2>3, <2>6, <3>2 DEF Accounted
    <3> QED
      BY <1>d, <2>2, <3>3
  <2> QED
    BY <2>5, <2>6
<1>4. ASSUME OnMessage
      PROVE  DoneInv'
  <2> DEFINE f == Head(wire)
  <2>1. owes' = owes /\ stored' = stored /\ wire' = Tail(wire) /\ wire # <<>>
        /\ page' = Reduced(f) /\ f \in Frames
    BY <1>4, <1>a DEF OnMessage
  <2>2. Cardinality(DoneSent) = IF f = TaskCompleted THEN Cardinality(DoneSent') + 1
                                ELSE Cardinality(DoneSent')
    <3>1. DoneSent = Completed(wire) /\ DoneSent' = Completed(wire')
      BY DEF DoneSent, Completed
    <3> QED
      BY <1>a, <2>1, <3>1, SentShrinks
  <2>3. DoneOwed' = DoneOwed
    BY <2>1 DEF DoneOwed
  <2>4. Cardinality(DoneSent') \in Nat
    <3>1. wire' \in Seq(Frames)
      BY DEF MonitorTypes
    <3>2. DoneSent' \subseteq DOMAIN wire'
      BY DEF DoneSent
    <3> QED
      BY <3>1, <3>2, WireCount
  <2> HIDE DEF f
  <2>5. CASE f.type = "score_delta"
    <3>1. page' = [page EXCEPT !.total = f.total]
      BY <2>1, <2>5 DEF Reduced
    <3>2. page'.done = page.done /\ page'.size = page.size /\ f # TaskCompleted
      BY <1>a, <1>b, <2>5, <3>1, FrameFields
    <3>3. Accounted' = Accounted
      BY <2>2, <2>3, <3>2 DEF Accounted
    <3> QED
      BY <1>b, <1>d, <2>1, <3>2, <3>3
  <2>6. CASE f.type = "task_completed"
    <3>1. page' = [page EXCEPT !.done = IF page.size > 0 /\ @ >= page.size THEN page.size
                                       ELSE @ + 1]
      BY <2>1, <2>6 DEF Reduced
    <3>2. f = TaskCompleted
      BY <2>1, <2>6, FrameKinds
    <3>3. PICK o \in Nat, n \in Nat : o = Cardinality(DoneOwed) /\ n = Cardinality(DoneSent')
      BY <1>c, <2>4
    <3>4. Accounted = page.done + o + (n + 1) /\ Accounted' = page'.done + o + n
      BY <2>2, <2>3, <3>2, <3>3 DEF Accounted
    <3>5. /\ page'.done = IF Size > 0 /\ page.done >= Size THEN Size ELSE page.done + 1
          /\ page'.size = Size
      BY <1>a, <1>b, <3>1
    <3>6. PICK p \in Nat : p = page.done
      BY <1>a
    <3>7. /\ Accounted = p + o + (n + 1)
          /\ Accounted' = (IF Size > 0 /\ p >= Size THEN Size ELSE p + 1) + o + n
      BY <3>4, <3>5, <3>6
    <3>8. (IF Size > 0 /\ p >= Size THEN Size ELSE p + 1) \in 0..(p + 1)
      BY <1>a
    <3>9. Accounted' <= Accounted /\ Accounted' \in Nat
      BY <3>3, <3>7, <3>8
    <3>10. ASSUME ~Capped
           PROVE  Accounted' = Accounted
      <4>1. ~(Size > 0 /\ p >= Size)
        <5>1. Accounted <= stored.done /\ (Size > 0 => stored.done <= Size)
          BY <1>a, <1>b, <3>10 DEF Capped
        <5>2. p + o + (n + 1) <= stored.done /\ stored.done \in Nat
          BY <1>a, <3>7, <5>1
        <5> QED
          BY <1>a, <3>3, <5>1, <5>2
      <4> QED
        BY <3>3, <3>7, <4>1
    <3>11. Capped' <=> Capped
      BY <2>1 DEF Capped
    <3> QED
      BY <1>a, <1>b, <1>e, <2>1, <3>5, <3>9, <3>10, <3>11 DEF DoneInv
  <2>7. CASE f.type = "alert"
    <3>1. page' = [page EXCEPT !.alerts[f.id] = IF f.open THEN "open" ELSE "resolved",
                               !.openAlerts = CountOpen(f)]
      BY <2>1, <2>7 DEF Reduced
    <3>2. page'.done = page.done /\ page'.size = page.size /\ f # TaskCompleted
      BY <1>a, <1>b, <2>7, <3>1, FrameFields
    <3>3. Accounted' = Accounted
      BY <2>2, <2>3, <3>2 DEF Accounted
    <3> QED
      BY <1>b, <1>d, <2>1, <3>2, <3>3
  <2> QED
    BY <2>1, <2>5, <2>6, <2>7, FrameKinds
<1>5. ASSUME UNCHANGED <<stored, owes, wire, page>>
      PROVE  DoneInv'
  <2>1. Accounted' = Accounted
    BY <1>5 DEF Accounted, DoneOwed, DoneSent
  <2> QED
    BY <1>5, <1>d, <2>1
<1> QED
  BY <1>1, <1>2, <1>3, <1>4, <1>5 DEF Lossless

-----------------------------------------------------------------------------
(* The badge *)

\* A frame on its way stays on it while a handler that had nothing to tell stores.
LEMMA DueWithMore ==
  ASSUME NEW h \in Handlers, owes[h] = <<>>, wire' = wire,
         \A g \in Handlers : g # h => owes'[g] = owes[g],
         NEW f, Due(f)
  PROVE  Due(f)'
BY DEF Due

\* And when a handler tells what it owes.
LEMMA DueWhenTold ==
  ASSUME MonitorTypes, NEW h \in Handlers, Told(h), NEW f, f # TaskCompleted, Due(f)
  PROVE  Due(f)'
<1> DEFINE n == Len(wire)
           e == Head(owes[h])
<1>1. /\ \A g \in Handlers : g # h => owes'[g] = owes[g]
      /\ owes[h] = <<e>> \/ owes[h] = <<e, TaskCompleted>>
      /\ DOMAIN wire = 1..n /\ n \in Nat /\ DOMAIN wire' = 1..(n + 1)
      /\ \A i \in 1..n : wire'[i] = wire[i]
      /\ wire'[n + 1] = e
  BY ToldFacts
<1> HIDE DEF n, e
<1>2. CASE \E i \in DOMAIN wire : wire[i] = f
  <2> PICK i \in DOMAIN wire : wire[i] = f
    BY <1>2
  <2>1. i \in DOMAIN wire' /\ wire'[i] = f
    BY <1>1
  <2> QED
    BY <2>1 DEF Due
<1>3. CASE \E g \in Handlers : g # h /\ owes[g] = <<f>>
  BY <1>1, <1>3 DEF Due
<1>4. CASE owes[h] = <<f>>
  <2>1. e = f
    BY <1>1, <1>4
  <2>2. n + 1 \in DOMAIN wire' /\ wire'[n + 1] = f
    BY <1>1, <2>1
  <2> QED
    BY <2>2 DEF Due
<1> QED
  BY <1>2, <1>3, <1>4 DEF Due

\* And when the page gets another.
LEMMA DueWhenRead ==
  ASSUME MonitorTypes, OnMessage, NEW f, f # Head(wire), Due(f)
  PROVE  Due(f)'
<1> DEFINE n == Len(wire)
<1>1. /\ DOMAIN wire = 1..n /\ n \in Nat \ {0} /\ Head(wire) = wire[1]
      /\ DOMAIN wire' = 1..(n - 1)
      /\ \A i \in 1..(n - 1) : wire'[i] = wire[i + 1]
      /\ owes' = owes
  BY DEF OnMessage, MonitorTypes
<1> HIDE DEF n
<1>2. CASE \E i \in DOMAIN wire : wire[i] = f
  <2> PICK i \in DOMAIN wire : wire[i] = f
    BY <1>2
  <2>1. i - 1 \in DOMAIN wire' /\ wire'[i - 1] = f
    BY <1>1
  <2> QED
    BY <2>1 DEF Due
<1>3. CASE \E g \in Handlers : owes[g] = <<f>>
  BY <1>1, <1>3 DEF Due
<1> QED
  BY <1>2, <1>3 DEF Due

\* An alert the page knows to be open, or was never told is, is counted by the badge.
LEMMA BadgeStep ==
  ASSUME MonitorTypes, ResolvedInv, BadgeInv, Lossless
  PROVE  BadgeInv'
<1>a. /\ owes \in [Handlers -> Debts] /\ wire \in Seq(Frames)
      /\ stored \in [total : Int, done : Nat, right : Nat,
                     stage : [Alerts -> {"none", "open", "resolved"}]]
      /\ page \in [total : Int, done : Nat, size : {0, Size},
                   alerts : [Alerts -> {"unheard", "open", "resolved"}], openAlerts : Nat]
  BY DEF MonitorTypes
<1>b. /\ page.openAlerts >= Cardinality(Counted)
      /\ Counted \subseteq Alerts /\ Counted' \subseteq Alerts
      /\ IsFiniteSet(Counted) /\ Cardinality(Counted) \in Nat /\ Cardinality(Counted') \in Nat
  <2>1. Counted \subseteq Alerts /\ Counted' \subseteq Alerts
    BY DEF Counted
  <2> QED
    BY <2>1, AlertCount DEF BadgeInv
<1>c. ASSUME page'.openAlerts = page.openAlerts, Counted' \subseteq Counted
      PROVE  BadgeInv'
  <2>1. Cardinality(Counted') <= Cardinality(Counted)
    BY <1>b, <1>c, FewerAlerts
  <2> QED
    BY <1>a, <1>b, <1>c, <2>1 DEF BadgeInv
<1>1. ASSUME NEW h \in Handlers, NEW correct \in BOOLEAN, NEW points \in Awards,
             Answer(h, correct, points)
      PROVE  BadgeInv'
  <2>1. /\ \A g \in Handlers : g # h => owes'[g] = owes[g]
        /\ owes[h] = <<>> /\ UNCHANGED <<wire, page>> /\ stored'.stage = stored.stage
    BY <1>1, <1>a DEF Answer
  <2>2. \A f : Due(f) => Due(f)'
    BY <2>1, DueWithMore
  <2>3. Counted' \subseteq Counted
    BY <2>1, <2>2 DEF Counted, OpenAlerts
  <2> QED
    BY <1>c, <2>1, <2>3
<1>2. ASSUME NEW h \in Handlers, NEW a \in Alerts, NEW from, NEW to, Alert(h, a, from, to)
      PROVE  BadgeInv'
  <2>1. /\ owes[h] = <<>> /\ owes'[h] = <<AlertFrame(a, to = "open")>>
        /\ \A g \in Handlers : g # h => owes'[g] = owes[g]
        /\ UNCHANGED <<wire, page>>
        /\ \A b \in Alerts : stored'.stage[b] = IF b = a THEN to ELSE stored.stage[b]
    BY <1>2, AlertFacts
  <2>2. \A f : Due(f) => Due(f)'
    BY <2>1, DueWithMore
  <2>3. to = "open" => Due(AlertFrame(a, TRUE))'
    <3> HAVE to = "open"
    <3>1. (to = "open") = TRUE
      OBVIOUS
    <3>2. owes'[h] = <<AlertFrame(a, TRUE)>>
      BY <2>1, <3>1
    <3> QED
      BY <3>2 DEF Due
  <2>4. ASSUME NEW b \in Counted'
        PROVE  b \in Counted
    <3>1. b \in Alerts /\ (page.alerts[b] = "open" \/ (/\ stored'.stage[b] = "open"
                                                      /\ ~Due(AlertFrame(b, TRUE))'))
      BY <2>1 DEF Counted, OpenAlerts
    <3>2. CASE page.alerts[b] = "open"
      BY <3>1, <3>2 DEF Counted
    <3>3. CASE stored'.stage[b] = "open" /\ ~Due(AlertFrame(b, TRUE))'
      <4>1. b # a
        BY <2>1, <2>3, <3>1, <3>3
      <4>2. stored.stage[b] = "open" /\ ~Due(AlertFrame(b, TRUE))
        BY <2>1, <2>2, <3>1, <3>3, <4>1
      <4> QED
        BY <3>1, <4>2 DEF Counted, OpenAlerts
    <3> QED
      BY <3>1, <3>2, <3>3
  <2> QED
    BY <1>c, <2>1, <2>4
<1>3. ASSUME NEW h \in Handlers, Told(h)
      PROVE  BadgeInv'
  <2>2. stored' = stored /\ page' = page
    BY <1>3 DEF Told
  <2>3. \A f : f # TaskCompleted /\ Due(f) => Due(f)'
    BY <1>3, DueWhenTold
  <2>4. \A b \in Alerts : AlertFrame(b, TRUE) # TaskCompleted
    BY DEF AlertFrame, TaskCompleted
  <2>5. Counted' \subseteq Counted
    BY <2>2, <2>3, <2>4 DEF Counted, OpenAlerts
  <2> QED
    BY <1>c, <2>2, <2>5
<1>4. ASSUME OnMessage
      PROVE  BadgeInv'
  <2> DEFINE f == Head(wire)
  <2>1. owes' = owes /\ stored' = stored /\ wire' = Tail(wire) /\ wire # <<>>
        /\ page' = Reduced(f) /\ f \in Frames
    BY <1>4, <1>a DEF OnMessage
  <2>2. /\ DOMAIN wire = 1..Len(wire) /\ Len(wire) \in Nat \ {0} /\ f = wire[1]
        /\ DOMAIN wire' = 1..(Len(wire) - 1)
        /\ \A i \in 1..(Len(wire) - 1) : wire'[i] = wire[i + 1]
    BY <1>a, <2>1
  <2> HIDE DEF f
  <2>3. \A e : e # f /\ Due(e) => Due(e)'
    BY <1>4, DueWhenRead DEF f
  <2>4. ASSUME page'.openAlerts = page.openAlerts, page'.alerts = page.alerts,
               f.type # "alert"
        PROVE  BadgeInv'
    <3>1. \A a \in Alerts : AlertFrame(a, TRUE) # f
      BY <2>4 DEF AlertFrame
    <3>2. Counted' \subseteq Counted
      BY <2>1, <2>3, <2>4, <3>1 DEF Counted, OpenAlerts
    <3> QED
      BY <1>c, <2>4, <3>2
  <2>5. CASE f.type = "score_delta"
    <3>1. page' = [page EXCEPT !.total = f.total]
      BY <2>1, <2>5 DEF Reduced
    <3>2. page'.openAlerts = page.openAlerts /\ page'.alerts = page.alerts
      BY <1>a, <3>1
    <3> QED
      BY <2>4, <2>5, <3>2
  <2>6. CASE f.type = "task_completed"
    <3>1. page' = [page EXCEPT !.done = IF page.size > 0 /\ @ >= page.size THEN page.size
                                       ELSE @ + 1]
      BY <2>1, <2>6 DEF Reduced
    <3>2. page'.openAlerts = page.openAlerts /\ page'.alerts = page.alerts
      BY <1>a, <3>1
    <3> QED
      BY <2>4, <2>6, <3>2
  <2>7. CASE f.type = "alert"
    <3> PICK a \in Alerts, o \in BOOLEAN : f = AlertFrame(a, o)
      BY <2>1, <2>7, FrameKinds
    <3>1. f.id = a /\ f.open = o
      BY FrameFields
    <3>2. page' = [page EXCEPT !.alerts[a] = IF o THEN "open" ELSE "resolved",
                               !.openAlerts = CountOpen(f)]
      BY <2>1, <2>7, <3>1 DEF Reduced
    <3>3. /\ page'.openAlerts = CountOpen(f)
          /\ \A b \in Alerts : page'.alerts[b] =
               IF b = a THEN IF o THEN "open" ELSE "resolved" ELSE page.alerts[b]
      BY <1>a, <3>2
    <3>4. \A b \in Alerts : b # a => AlertFrame(b, TRUE) # f
      BY <3>1 DEF AlertFrame
    <3>5. \A b \in Alerts : b # a /\ b \in Counted' => b \in Counted
      BY <2>1, <2>3, <3>3, <3>4 DEF Counted, OpenAlerts
    <3>6. CASE o
      <4>1. CASE page.alerts[a] = "open"
        <5>1. a \in Counted
          BY <4>1 DEF Counted
        <5>2. CountOpen(f) = page.openAlerts
          BY <3>1, <3>6, <4>1 DEF CountOpen
        <5>3. Counted' \subseteq Counted
          BY <1>b, <3>5, <5>1
        <5> QED
          BY <1>c, <3>3, <5>2, <5>3
      <4>2. CASE page.alerts[a] # "open"
        <5>1. CountOpen(f) = page.openAlerts + 1
          BY <3>1, <3>6, <4>2 DEF CountOpen
        <5>2. Counted' \subseteq Counted \cup {a}
          BY <1>b, <3>5
        <5>3. Cardinality(Counted') <= Cardinality(Counted \cup {a})
          BY <1>b, <5>2, FewerAlerts
        <5>4. Cardinality(Counted \cup {a}) <= Cardinality(Counted) + 1
          <6>1. Cardinality(Counted \cup {a}) = IF a \in Counted THEN Cardinality(Counted)
                                               ELSE Cardinality(Counted) + 1
            BY <1>b, FS_AddElement
          <6> QED
            BY <1>b, <6>1
        <5>5. Cardinality(Counted \cup {a}) \in Nat
          BY <1>b, AlertCount
        <5> QED
          BY <1>a, <1>b, <3>3, <5>1, <5>3, <5>4, <5>5 DEF BadgeInv
      <4> QED
        BY <4>1, <4>2
    <3>7. CASE ~o
      <4>1. stored.stage[a] = "resolved"
        <5>1. f = AlertFrame(a, FALSE)
          BY <3>7
        <5>2. 1 \in DOMAIN wire /\ wire[1] = f
          BY <2>2
        <5>3. Due(f)
          BY <5>2 DEF Due
        <5> QED
          BY <5>1, <5>3 DEF ResolvedInv
      <4>2. a \notin Counted'
        BY <2>1, <3>3, <3>7, <4>1 DEF Counted, OpenAlerts
      <4>3. Counted' \subseteq Counted \ {a}
        BY <1>b, <3>5, <4>2
      <4>4. CASE page.alerts[a] = "open"
        <5>1. a \in Counted
          BY <4>4 DEF Counted
        <5>2. Cardinality(Counted \ {a}) = Cardinality(Counted) - 1
          BY <1>b, <5>1, FS_RemoveElement
        <5>3. /\ Cardinality(Counted \ {a}) \in Nat
              /\ Cardinality(Counted') <= Cardinality(Counted \ {a})
          BY <1>b, <4>3, AlertCount, FewerAlerts
        <5>4. page.openAlerts > 0
          BY <1>a, <1>b, <5>2, <5>3
        <5>5. CountOpen(f) = page.openAlerts - 1
          BY <3>1, <3>7, <4>4, <5>4 DEF CountOpen
        <5> QED
          BY <1>a, <1>b, <3>3, <5>2, <5>3, <5>5 DEF BadgeInv
      <4>5. CASE page.alerts[a] # "open"
        <5>1. CountOpen(f) = page.openAlerts
          BY <3>1, <3>7, <4>5 DEF CountOpen
        <5>2. Counted' \subseteq Counted
          BY <4>3
        <5> QED
          BY <1>c, <3>3, <5>1, <5>2
      <4> QED
        BY <4>4, <4>5
    <3> QED
      BY <3>6, <3>7
  <2> QED
    BY <2>1, <2>5, <2>6, <2>7, FrameKinds
<1>5. ASSUME UNCHANGED <<stored, owes, wire, page>>
      PROVE  BadgeInv'
  <2>1. Counted' \subseteq Counted
    BY <1>5 DEF Counted, OpenAlerts, Due
  <2> QED
    BY <1>5, <1>c, <2>1
<1> QED
  BY <1>1, <1>2, <1>3, <1>4, <1>5 DEF Lossless

-----------------------------------------------------------------------------
(* The theorems *)

\* A page that has just been opened rests on nothing yet.
LEMMA MonitorInit ==
  ASSUME MCInit
  PROVE  MonitorInv
<1>1. Size \in Nat
  BY MonitorConstants
<1>2. MonitorTypes
  <2>1. PICK stage \in [Alerts -> {"none", "open"}] :
          stored = [total |-> 0, done |-> 0, right |-> 0, stage |-> stage]
    BY DEF MCInit, Init
  <2>2. owes \in [Handlers -> Debts] /\ wire \in Seq(Frames)
    BY DEF MCInit, Init, Debts
  <2>3. page \in [total : Int, done : Nat, size : {0, Size},
                  alerts : [Alerts -> {"unheard", "open", "resolved"}], openAlerts : Nat]
    BY DEF MCInit, Init, EmptyMonitorState, Unheard
  <2>4. query \in [pc : {"idle", "asked", "progress", "answered"},
                   total : Int, done : Nat, open : Nat]
    BY DEF MCInit, Init, Request, NoQuery
  <2>5. stage \in [Alerts -> {"none", "open", "resolved"}]
    OBVIOUS
  <2> QED
    BY <1>1, <2>1, <2>2, <2>3, <2>4, <2>5 DEF MonitorTypes
<1>3. ResolvedInv
  <2>1. \A h \in Handlers : owes[h] = <<>>
    BY DEF MCInit, Init
  <2>2. DOMAIN wire = {}
    BY DEF MCInit, Init
  <2>3. \A f : ~Due(f)
    BY <2>1, <2>2 DEF Due
  <2> QED
    BY <2>3 DEF ResolvedInv
<1>4. ~steady /\ ~sound
  BY DEF MCInit
<1> QED
  BY <1>2, <1>3, <1>4 DEF MonitorInv, SteadyInv

\* Every step keeps the invariant.
LEMMA MonitorNext ==
  ASSUME MonitorInv, MCNext
  PROVE  MonitorInv'
<1>1. MonitorTypes /\ ResolvedInv /\ SteadyInv /\ Next
  BY DEF MonitorInv, MCNext
<1>2. MonitorTypes' /\ ResolvedInv' /\ SteadyInv'
  BY <1>1, TypesStep, ResolvedStep, SteadyStep
<1>3. ASSUME sound'
      PROVE  TotalInv' /\ DoneInv' /\ BadgeInv'
  <2>1. CASE Reset
    BY <1>1, <1>3, <2>1, ResetStep
  <2>2. CASE ~Reset
    <3>1. sound /\ ~Crossed /\ Lossless /\ counted' = counted
      BY <1>1, <1>3, <2>2, SoundStep
    <3>2. TotalInv /\ DoneInv /\ BadgeInv
      BY <3>1 DEF MonitorInv
    <3> QED
      BY <1>1, <1>2, <3>1, <3>2, TotalStep, DoneStep, BadgeStep
  <2> QED
    BY <2>1, <2>2
<1> QED
  BY <1>2, <1>3 DEF MonitorInv

\* The page's state stays of its type, frames and debts are such, nothing is said to be
\* resolved that is not, a steady snapshot holds, and a sound page's totals, completed
\* tasks and badge are accounted for by what is stored and what is on its way.
THEOREM MonitorHolds == MCSpec => []MonitorInv
<1>1. MCInit => MonitorInv
  BY MonitorInit
<1>2. MonitorInv /\ [MCNext]_<<vars, history>> => MonitorInv'
  <2> SUFFICES ASSUME MonitorInv, [MCNext]_<<vars, history>>
               PROVE  MonitorInv'
    OBVIOUS
  <2>1. CASE MCNext
    BY <2>1, MonitorNext
  <2>2. CASE UNCHANGED <<vars, history>>
    <3>1. UNCHANGED <<stored, owes, link, wire, query, cache, page, steady, sound, counted,
                    owed>>
      BY <2>2 DEF vars, history
    <3>2. MonitorTypes' /\ ResolvedInv' /\ SteadyInv'
      BY <3>1 DEF MonitorInv, MonitorTypes, ResolvedInv, SteadyInv, Due, Quiet, OpenAlerts
    <3>3. sound' => TotalInv' /\ DoneInv' /\ BadgeInv'
      <4>1. TotalInv' <=> TotalInv
        BY <3>1 DEF TotalInv, Scores
      <4>2. DoneInv' <=> DoneInv
        BY <3>1 DEF DoneInv, Accounted, Capped, DoneOwed, DoneSent
      <4>3. BadgeInv' <=> BadgeInv
        BY <3>1 DEF BadgeInv, Counted, OpenAlerts, Due
      <4> QED
        BY <3>1, <4>1, <4>2, <4>3 DEF MonitorInv
    <3> QED
      BY <3>2, <3>3 DEF MonitorInv
  <2> QED
    BY <2>1, <2>2
<1> QED
  BY <1>1, <1>2, PTL DEF MCSpec

\* Once all is quiet, a sound page shows the stored points, the right answers and the
\* wrong ones its snapshot counted, and its badge misses no open alert (KeepsUp).
THEOREM PageKeepsUp == MCSpec => []KeepsUp
<1>1. MonitorInv => KeepsUp
  <2> SUFFICES ASSUME MonitorInv, sound, Quiet
               PROVE  /\ page.total = stored.total
                      /\ page.done <= stored.done
                      /\ ~Capped => page.done = stored.right + counted
                      /\ page.openAlerts >= Cardinality(OpenAlerts)
    BY DEF KeepsUp
  <2>1. TotalInv /\ DoneInv /\ BadgeInv /\ MonitorTypes
    BY DEF MonitorInv
  <2>2. wire = <<>> /\ \A h \in Handlers : owes[h] = <<>>
    BY DEF Quiet
  <2>3. DOMAIN wire = {} /\ \A h \in Handlers : ~Scores(h)
    BY <2>2 DEF Scores
  <2>4. page.total = stored.total
    BY <2>1, <2>3 DEF TotalInv
  <2>5. page.done <= stored.done /\ (~Capped => page.done = stored.right + counted)
    <3>1. DoneOwed = {} /\ DoneSent = {}
      BY <2>2, <2>3 DEF DoneOwed, DoneSent
    <3>2. Cardinality(DoneOwed) = 0 /\ Cardinality(DoneSent) = 0
      BY <3>1, FS_EmptySet
    <3>3. page.done \in Nat /\ stored.done \in Nat /\ stored.right \in Nat
      BY <2>1 DEF MonitorTypes
    <3>4. Accounted = page.done
      BY <3>2, <3>3 DEF Accounted
    <3> QED
      BY <2>1, <3>3, <3>4 DEF DoneInv
  <2>6. page.openAlerts >= Cardinality(OpenAlerts)
    <3>1. \A f : ~Due(f)
      BY <2>2, <2>3 DEF Due
    <3>2. OpenAlerts \subseteq Counted /\ Counted \subseteq Alerts
      BY <3>1 DEF Counted, OpenAlerts
    <3>3. Cardinality(OpenAlerts) <= Cardinality(Counted)
      BY <3>2, FewerAlerts
    <3>4. Cardinality(OpenAlerts) \in Nat /\ Cardinality(Counted) \in Nat /\ page.openAlerts \in Nat
      BY <2>1, <3>2, AlertCount DEF MonitorTypes, OpenAlerts
    <3> QED
      BY <2>1, <3>3, <3>4 DEF BadgeInv
  <2> QED
    BY <2>4, <2>5, <2>6
<1> QED
  BY <1>1, MonitorHolds, PTL

=============================================================================
