-------------------------- MODULE RallyHub_proofs ---------------------------
(***************************************************************************)
(* Theorems of RallyHub, for any views, topics, handlers and capacity: the *)
(* types, no send on a closed channel, complete standings, and the step by *)
(* step refinement of the lossy channel.                                   *)
(***************************************************************************)
EXTENDS RallyHub, TLAPS

-----------------------------------------------------------------------------
(* Sequences *)

\* What a channel holds after a send and after a receive.
LEMMA SentFrame ==
  ASSUME NEW S, NEW s \in Seq(S), NEW x \in S
  PROVE  /\ Append(s, x) \in Seq(S) /\ Len(Append(s, x)) = Len(s) + 1
         /\ ToSet(Append(s, x)) = ToSet(s) \cup {x}
  <1>1. Append(s, x) \in Seq(S) /\ Len(Append(s, x)) = Len(s) + 1
    OBVIOUS
  <1>2. \A i \in 1..Len(s) : Append(s, x)[i] = s[i]
    OBVIOUS
  <1>3. Append(s, x)[Len(s) + 1] = x
    OBVIOUS
  <1>4. DOMAIN Append(s, x) = 1..(Len(s) + 1) /\ DOMAIN s = 1..Len(s) /\ Len(s) \in Nat
    OBVIOUS
  <1>5. ToSet(Append(s, x)) \subseteq ToSet(s) \cup {x}
    <2> SUFFICES ASSUME NEW i \in 1..(Len(s) + 1)
                 PROVE  Append(s, x)[i] \in ToSet(s) \cup {x}
      BY <1>4 DEF ToSet
    <2> QED BY <1>2, <1>3, <1>4 DEF ToSet
  <1>6. ToSet(s) \subseteq ToSet(Append(s, x))
    BY <1>2, <1>4 DEF ToSet
  <1>7. x \in ToSet(Append(s, x))
    BY <1>3, <1>4 DEF ToSet
  <1> QED BY <1>1, <1>5, <1>6, <1>7

\* Taking a frame off a queue leaves frames it held.
LEMMA TakenFrame ==
  ASSUME NEW S, NEW s \in Seq(S), s # <<>>
  PROVE  /\ Tail(s) \in Seq(S) /\ Len(Tail(s)) = Len(s) - 1
         /\ Head(s) \in S /\ Head(s) \in ToSet(s)
         /\ ToSet(Tail(s)) \subseteq ToSet(s)
  <1>1. /\ Tail(s) \in Seq(S) /\ Len(Tail(s)) = Len(s) - 1
        /\ Len(s) \in Nat \ {0} /\ DOMAIN s = 1..Len(s)
        /\ DOMAIN Tail(s) = 1..(Len(s) - 1)
        /\ Head(s) = s[1] /\ s[1] \in S
    OBVIOUS
  <1>2. \A i \in 1..(Len(s) - 1) : Tail(s)[i] = s[i + 1] /\ i + 1 \in 1..Len(s)
    BY <1>1
  <1> QED BY <1>1, <1>2 DEF ToSet

\* An empty queue holds none.
LEMMA NoFrame == ToSet(<<>>) = {}
  BY DEF ToSet

-----------------------------------------------------------------------------
(* The invariant *)

\* Before the first view connects and the first broadcast is made.
LEMMA HubInit == Init => HubInv
  <1> SUFFICES ASSUME Init
               PROVE  HubInv
    OBVIOUS
  <1>1. TypeOK
    BY HubConstants DEF Init, TypeOK, Idle, Caster
  <1>2. Registered /\ Walking /\ Once
    BY NoFrame DEF Init, Registered, Walking, Once, Seen, Idle
  <1> QED BY <1>1, <1>2 DEF HubInv

\* A step of one view's goroutine that leaves its channel alone, the others to
\* themselves, and the broadcasts where they are.
LEMMA ViewSteps ==
  ASSUME HubInv, NEW v \in Views,
         \/ \E t \in Topics : Accept(v, t)
         \/ Subscribe(v) \/ Unsubscribe(v) \/ Close(v)
  PROVE  HubInv'
  <1>a. TypeOK /\ Registered /\ Walking /\ Once
    BY DEF HubInv
  <1>b. /\ conn \in [Views -> [pc : {"new", "subscribe", "serve", "unsubscribe", "close", "gone"},
                               topic : Topics \cup {None}]]
        /\ topics \in [Topics -> SUBSET Views]
    BY <1>a DEF TypeOK
  <1>1. \A u \in Views \ {v} : conn'[u] = conn[u]
    BY <1>b DEF Accept, Subscribe, Unsubscribe, Close, Step
  <1>2. UNCHANGED <<buffer, got, caster, stored, standing, next, lost>>
    BY DEF Accept, Subscribe, Unsubscribe, Close
  <1>3. TypeOK'
    <2>1. topics' \in [Topics -> SUBSET Views]
      BY <1>b DEF Accept, Subscribe, Unsubscribe, Close
    <2>2. conn' \in [Views -> [pc : {"new", "subscribe", "serve", "unsubscribe", "close", "gone"},
                               topic : Topics \cup {None}]]
      BY <1>b DEF Accept, Subscribe, Unsubscribe, Close, Step
    <2>3. closed' \subseteq Views
      BY <1>a DEF TypeOK, Accept, Subscribe, Unsubscribe, Close
    <2> QED BY <1>a, <1>2, <2>1, <2>2, <2>3 DEF TypeOK
  <1>4. Registered'
    <2>1. ASSUME NEW t \in Topics, NEW u \in Views, u \in topics'[t]
          PROVE  conn'[u].pc \in {"serve", "unsubscribe"} /\ conn'[u].topic = t
      <3>1. CASE u # v
        <4>1. u \in topics[t]
          BY <1>b, <2>1, <3>1 DEF Accept, Subscribe, Unsubscribe, Close
        <4> QED BY <1>a, <1>1, <3>1, <4>1 DEF Registered
      <3>2. CASE u = v /\ Subscribe(v)
        <4>1. conn[v].pc = "subscribe" /\ conn'[v].pc = "serve" /\ conn'[v].topic = conn[v].topic
          BY <1>b, <3>2 DEF Subscribe, Step
        <4>2. v \notin topics[t]
          BY <1>a, <4>1 DEF Registered
        <4>3. t = conn[v].topic
          BY <1>b, <2>1, <3>2, <4>2 DEF Subscribe
        <4> QED BY <3>2, <4>1, <4>3
      <3>3. CASE u = v /\ ~Subscribe(v)
        <4>1. u \in topics[t]
          BY <1>b, <2>1, <3>3 DEF Accept, Unsubscribe, Close
        <4>2. conn[v].pc = "unsubscribe" /\ conn[v].topic = t
          BY <1>a, <3>3, <4>1 DEF Registered, Accept, Unsubscribe, Close
        <4>3. v \notin topics'[t]
          BY <1>b, <3>3, <4>2 DEF Accept, Unsubscribe, Close
        <4> QED BY <2>1, <3>3, <4>3
      <3> QED BY <3>1, <3>2, <3>3
    <2>2. ASSUME NEW u \in Views, conn'[u].pc # "new"
          PROVE  conn'[u].topic \in Topics
      <3>1. CASE u # v
        BY <1>a, <1>1, <2>2, <3>1 DEF Registered
      <3>2. CASE u = v /\ \E t \in Topics : Accept(v, t)
        BY <1>b, <3>2 DEF Accept
      <3>3. CASE u = v /\ (Subscribe(v) \/ Unsubscribe(v) \/ Close(v))
        <4>1. conn[v].pc # "new" /\ conn'[v].topic = conn[v].topic
          BY <1>b, <3>3 DEF Subscribe, Unsubscribe, Close, Step
        <4> QED BY <1>a, <3>3, <4>1 DEF Registered
      <3> QED BY <3>1, <3>2, <3>3
    <2>3. ASSUME NEW u \in closed'
          PROVE  conn'[u].pc = "gone"
      <3>1. u \in closed \/ (u = v /\ Close(v))
        BY <2>3 DEF Accept, Subscribe, Unsubscribe, Close
      <3>2. CASE u \in closed
        <4>1. conn[u].pc = "gone" /\ u \in Views
          BY <1>a, <3>2 DEF Registered, TypeOK
        <4>2. u # v
          BY <4>1 DEF Accept, Subscribe, Unsubscribe, Close
        <4> QED BY <1>1, <4>1, <4>2
      <3>3. CASE u = v /\ Close(v)
        BY <1>b, <3>3 DEF Close, Step
      <3> QED BY <3>1, <3>2, <3>3
    <2> QED BY <2>1, <2>2, <2>3 DEF Registered
  <1>5. conn[v].pc \in {"serve", "unsubscribe"} /\ conn'[v].pc \notin {"serve", "unsubscribe"}
          => \A h \in Handlers : caster[h].todo = {}
    <2>1. conn[v].pc \in {"serve", "unsubscribe"} /\ conn'[v].pc \notin {"serve", "unsubscribe"}
            => Readers = {}
      BY <1>b DEF Accept, Subscribe, Unsubscribe, Close
    <2> QED BY <1>a, <2>1 DEF Walking, Readers
  <1>6. Walking'
    <2>1. \A h \in Handlers : \A u \in caster[h].todo : conn'[u].pc \in {"serve", "unsubscribe"}
      <3> SUFFICES ASSUME NEW h \in Handlers, NEW u \in caster[h].todo
                   PROVE  conn'[u].pc \in {"serve", "unsubscribe"}
        OBVIOUS
      <3>1. conn[u].pc \in {"serve", "unsubscribe"} /\ u \in Views
        BY <1>a DEF Walking, TypeOK, Caster
      <3> QED BY <1>1, <1>5, <3>1
    <2> QED BY <1>a, <1>2, <2>1 DEF Walking
  <1>7. conn'[v].pc \in {"new", "subscribe"} => conn[v].pc \in {"new", "subscribe"}
    BY <1>b DEF Accept, Subscribe, Unsubscribe, Close, Step
  <1>8. Once'
    BY <1>a, <1>1, <1>2, <1>7 DEF Once, Seen
  <1> QED BY <1>3, <1>4, <1>6, <1>8 DEF HubInv

\* A step of one view's goroutine on its channel, where no frame is added.
LEMMA ChannelSteps ==
  ASSUME HubInv, NEW v \in Views, WriteFrame(v) \/ HangUp(v)
  PROVE  HubInv'
  <1>a. TypeOK /\ Registered /\ Walking /\ Once
    BY DEF HubInv
  <1>b. /\ conn \in [Views -> [pc : {"new", "subscribe", "serve", "unsubscribe", "close", "gone"},
                               topic : Topics \cup {None}]]
        /\ buffer \in [Views -> Seq(Frames)] /\ got \in [Views -> Seq(Frames)]
        /\ \A u \in Views : Len(buffer[u]) <= Capacity
    BY <1>a DEF TypeOK
  <1>1. /\ conn[v].pc = "serve"
        /\ UNCHANGED <<topics, closed, caster, stored, standing, next, lost>>
    BY DEF WriteFrame, HangUp
  <1>2. \A u \in Views \ {v} : conn'[u] = conn[u] /\ buffer'[u] = buffer[u] /\ got'[u] = got[u]
    BY <1>b DEF WriteFrame, HangUp, Step
  <1>3. /\ conn' \in [Views -> [pc : {"new", "subscribe", "serve", "unsubscribe", "close", "gone"},
                                topic : Topics \cup {None}]]
        /\ conn'[v].pc \in {"serve", "unsubscribe"} /\ conn'[v].topic = conn[v].topic
    <2>1. CASE WriteFrame(v)
      BY <1>b, <1>1, <2>1 DEF WriteFrame
    <2>2. CASE HangUp(v)
      BY <1>b, <1>1, <2>2 DEF HangUp, Step
    <2> QED BY <2>1, <2>2
  <1>4. /\ buffer' \in [Views -> Seq(Frames)] /\ got' \in [Views -> Seq(Frames)]
        /\ Len(buffer'[v]) <= Capacity /\ Seen(v)' \subseteq Seen(v)
    <2>1. CASE WriteFrame(v)
      <3>1. /\ buffer[v] # <<>> /\ buffer' = [buffer EXCEPT ![v] = Tail(@)]
            /\ got' = [got EXCEPT ![v] = Append(@, Head(buffer[v]))]
        BY <2>1 DEF WriteFrame
      <3>2. /\ Tail(buffer[v]) \in Seq(Frames) /\ Len(Tail(buffer[v])) = Len(buffer[v]) - 1
            /\ Head(buffer[v]) \in Frames /\ Head(buffer[v]) \in ToSet(buffer[v])
            /\ ToSet(Tail(buffer[v])) \subseteq ToSet(buffer[v])
        BY <1>b, <3>1, TakenFrame
      <3>3. /\ Append(got[v], Head(buffer[v])) \in Seq(Frames)
            /\ ToSet(Append(got[v], Head(buffer[v]))) = ToSet(got[v]) \cup {Head(buffer[v])}
        BY <1>b, <3>2, SentFrame
      <3>4. Len(buffer[v]) \in Nat /\ Capacity \in Nat
        BY <1>b, HubConstants
      <3> QED BY <1>b, <3>1, <3>2, <3>3, <3>4 DEF Seen
    <2>2. CASE HangUp(v)
      <3>1. /\ buffer' \in {buffer, [buffer EXCEPT ![v] = IF @ = <<>> THEN @ ELSE Tail(@)]}
            /\ got' = got
        BY <2>2 DEF HangUp
      <3>2. buffer[v] # <<>> => /\ Tail(buffer[v]) \in Seq(Frames)
                                /\ Len(Tail(buffer[v])) = Len(buffer[v]) - 1
                                /\ ToSet(Tail(buffer[v])) \subseteq ToSet(buffer[v])
        BY <1>b, TakenFrame
      <3>3. Len(buffer[v]) \in Nat /\ Capacity \in Nat
        BY <1>b, HubConstants
      <3>4. CASE buffer' = buffer
        BY <1>b, <3>1, <3>4 DEF Seen
      <3>5. CASE buffer[v] # <<>> /\ buffer' = [buffer EXCEPT ![v] = Tail(buffer[v])]
        BY <1>b, <3>1, <3>2, <3>3, <3>5 DEF Seen
      <3>6. buffer[v] = <<>> => [buffer EXCEPT ![v] = buffer[v]] = buffer
        BY <1>b
      <3> QED BY <3>1, <3>4, <3>5, <3>6
    <2> QED BY <2>1, <2>2
  <1>5. TypeOK'
    BY <1>a, <1>b, <1>1, <1>2, <1>3, <1>4 DEF TypeOK
  <1>6. Registered'
    <2>1. \A u \in Views : /\ conn'[u].topic = conn[u].topic
                           /\ conn[u].pc = "new" => conn'[u].pc = "new"
                           /\ conn[u].pc = "gone" => conn'[u].pc = "gone"
                           /\ conn[u].pc \in {"serve", "unsubscribe"}
                                => conn'[u].pc \in {"serve", "unsubscribe"}
                           /\ conn'[u].pc # "new" => conn[u].pc # "new"
      BY <1>1, <1>2, <1>3
    <2>2. closed \subseteq Views
      BY <1>a DEF TypeOK
    <2> QED BY <1>a, <1>1, <2>1, <2>2 DEF Registered
  <1>7. Walking'
    <2>1. \A h \in Handlers : \A u \in caster[h].todo : conn'[u].pc \in {"serve", "unsubscribe"}
      BY <1>a, <1>2, <1>3 DEF Walking, TypeOK, Caster
    <2> QED BY <1>a, <1>1, <2>1 DEF Walking
  <1>8. Once'
    <2>1. \A u \in Views : Seen(u)' \subseteq Seen(u)
      BY <1>2, <1>4 DEF Seen
    <2>2. \A u \in Views : conn'[u].pc \in {"new", "subscribe"} => u # v
      BY <1>3
    <2>3. \A u \in Views : conn'[u].pc \in {"new", "subscribe"} => buffer'[u] = <<>>
      BY <1>a, <1>2, <2>2 DEF Once
    <2> QED BY <1>a, <1>1, <2>1, <2>3 DEF Once
  <1> QED BY <1>5, <1>6, <1>7, <1>8 DEF HubInv

\* A broadcast is called: a new frame, which nobody has seen.
LEMMA CallSteps ==
  ASSUME HubInv, NEW h \in Handlers, NEW t \in Topics, NEW score \in BOOLEAN,
         NEW scores \in Nat \cup {None},
         caster[h].pc \notin {"rlock", "send"}, Called(h, t, score, scores),
         stored' \in Nat, UNCHANGED <<topics, conn, buffer, closed, got, lost>>
  PROVE  HubInv'
  <1>a. TypeOK /\ Registered /\ Walking /\ Once
    BY DEF HubInv
  <1>b. /\ caster \in [Handlers -> Caster] /\ standing \in [Frames -> Nat \cup {None}]
        /\ next \in 0..MaxFrames /\ MaxFrames \in Nat
    BY <1>a, HubConstants DEF TypeOK
  <1> DEFINE r == [Idle EXCEPT !.pc = "rlock", !.frame = next + 1, !.topic = t, !.score = score]
  <1>1. next' = next + 1 /\ next + 1 \in Frames /\ next' \in 0..MaxFrames
    BY <1>b DEF Called, Frames
  <1>2. r \in Caster /\ r.pc = "rlock" /\ r.frame = next + 1 /\ r.topic = t /\ r.todo = {}
    BY <1>1 DEF Idle, Caster
  <1>3. caster' = [caster EXCEPT ![h] = r] /\ standing' = [standing EXCEPT ![next + 1] = scores]
    BY DEF Called
  <1> HIDE DEF r
  <1>4. caster'[h] = r /\ \A g \in Handlers \ {h} : caster'[g] = caster[g]
    BY <1>b, <1>3
  <1>5. TypeOK'
    BY <1>a, <1>b, <1>1, <1>2, <1>3 DEF TypeOK
  <1>6. Registered'
    BY <1>a DEF Registered
  <1>7. 1..next \subseteq 1..next' /\ next' \in 1..next' /\ next' \notin 1..next
    BY <1>b, <1>1
  <1>8. Walking'
    <2>1. \A g \in Handlers \ {h} : caster[g].frame # next'
      BY <1>a, <1>b, <1>7, HubConstants, <1>1 DEF Walking
    <2>2. \A g \in Handlers :
            /\ caster'[g].pc # "idle" => caster'[g].topic \in Topics
            /\ caster'[g].pc # "send" => caster'[g].todo = {}
            /\ IF caster'[g].pc \in {"rlock", "send"}
               THEN caster'[g].frame \in 1..next' ELSE caster'[g].frame = None
            /\ \A v \in caster'[g].todo : conn[v].pc \in {"serve", "unsubscribe"}
      <3> SUFFICES ASSUME NEW g \in Handlers
                   PROVE  /\ caster'[g].pc # "idle" => caster'[g].topic \in Topics
                          /\ caster'[g].pc # "send" => caster'[g].todo = {}
                          /\ IF caster'[g].pc \in {"rlock", "send"}
                             THEN caster'[g].frame \in 1..next' ELSE caster'[g].frame = None
                          /\ \A v \in caster'[g].todo : conn[v].pc \in {"serve", "unsubscribe"}
        OBVIOUS
      <3>1. CASE g = h
        BY <1>1, <1>2, <1>4, <1>7, <3>1
      <3>2. CASE g # h
        BY <1>a, <1>4, <1>7, <3>2 DEF Walking
      <3> QED BY <3>1, <3>2
    <2>3. \A f, g \in Handlers :
            caster'[g].frame = caster'[f].frame => g = f \/ caster'[f].frame = None
      BY <1>a, <1>1, <1>2, <1>4, <2>1 DEF Walking
    <2> QED BY <2>2, <2>3 DEF Walking
  <1>9. Once'
    <2>1. \A v \in Views : Seen(v)' = Seen(v)
      BY DEF Seen
    <2>2. \A v \in Views : Seen(v) \subseteq 1..next' /\ next' \notin Seen(v)
      BY <1>a, <1>7 DEF Once
    <2> QED BY <1>a, <1>1, <1>2, <1>4, <2>1, <2>2 DEF Once
  <1> QED BY <1>5, <1>6, <1>8, <1>9 DEF HubInv

\* A broadcasting goroutine goes on with no frame in hand: between Broadcast and
\* the leaderboard's, or back to its caller.
LEMMA FreeSteps ==
  ASSUME HubInv, NEW h \in Handlers, NEW r \in Caster, caster' = [caster EXCEPT ![h] = r],
         r.pc \in {"idle", "query", "standings"}, r.pc # "idle" => r.topic \in Topics,
         r.frame = None, r.todo = {}, lost' \in Nat,
         UNCHANGED <<topics, conn, buffer, closed, got, stored, standing, next>>
  PROVE  HubInv'
  <1>a. TypeOK /\ Registered /\ Walking /\ Once
    BY DEF HubInv
  <1>b. caster \in [Handlers -> Caster]
    BY <1>a DEF TypeOK
  <1>1. caster'[h] = r /\ \A g \in Handlers \ {h} : caster'[g] = caster[g]
    BY <1>b
  <1>2. TypeOK' /\ Registered'
    BY <1>a, <1>b DEF TypeOK, Registered
  <1>3. Walking'
    BY <1>a, <1>1 DEF Walking
  <1>4. Once'
    BY <1>a, <1>1 DEF Once, Seen
  <1> QED BY <1>2, <1>3, <1>4 DEF HubInv

\* The reader lock is taken: the topic's views are those the frame is offered to.
LEMMA RLockStep ==
  ASSUME HubInv, NEW h \in Handlers, RLock(h)
  PROVE  HubInv'
  <1>a. TypeOK /\ Registered /\ Walking /\ Once
    BY DEF HubInv
  <1>b. caster \in [Handlers -> Caster] /\ topics \in [Topics -> SUBSET Views]
    BY <1>a DEF TypeOK
  <1> DEFINE t == caster[h].topic
             r == [caster[h] EXCEPT !.pc = "send", !.todo = topics[t]]
  <1>1. caster[h].pc = "rlock" /\ t \in Topics
    BY <1>a DEF RLock, Walking
  <1>2. /\ r \in Caster /\ r.pc = "send" /\ r.frame = caster[h].frame /\ r.topic = t
        /\ r.todo = topics[t]
    BY <1>b, <1>1 DEF Caster
  <1>3. /\ caster' = [caster EXCEPT ![h] = r]
        /\ UNCHANGED <<topics, conn, buffer, closed, got, stored, standing, next, lost>>
    BY <1>b DEF RLock
  <1> HIDE DEF t, r
  <1>4. caster'[h] = r /\ \A g \in Handlers \ {h} : caster'[g] = caster[g]
    BY <1>b, <1>3
  <1>5. TypeOK' /\ Registered'
    BY <1>a, <1>b, <1>2, <1>3 DEF TypeOK, Registered
  <1>6. \A v \in r.todo : conn[v].pc \in {"serve", "unsubscribe"}
    BY <1>a, <1>b, <1>1, <1>2 DEF Registered
  <1>7. Walking'
    BY <1>a, <1>1, <1>2, <1>3, <1>4, <1>6 DEF Walking
  <1>8. Once'
    BY <1>a, <1>1, <1>2, <1>3, <1>4 DEF Once, Seen
  <1> QED BY <1>5, <1>7, <1>8 DEF HubInv

\* One turn of the loop: the frame goes to the channel, or is dropped.
LEMMA SendStep ==
  ASSUME HubInv, NEW h \in Handlers, NEW v \in Views, Send(h, v)
  PROVE  HubInv'
  <1>a. TypeOK /\ Registered /\ Walking /\ Once
    BY DEF HubInv
  <1>b. /\ caster \in [Handlers -> Caster] /\ buffer \in [Views -> Seq(Frames)]
        /\ \A u \in Views : Len(buffer[u]) <= Capacity
        /\ next \in 0..MaxFrames /\ MaxFrames \in Nat /\ Capacity \in Nat
    BY <1>a, HubConstants DEF TypeOK
  <1> DEFINE f == caster[h].frame
             r == [caster[h] EXCEPT !.todo = @ \ {v}]
  <1>1. caster[h].pc = "send" /\ v \in caster[h].todo /\ f \in 1..next /\ f \in Frames
    BY <1>a, <1>b DEF Send, Walking, Frames
  <1>2. /\ r \in Caster /\ r.pc = "send" /\ r.frame = f /\ r.topic = caster[h].topic
        /\ r.todo = caster[h].todo \ {v}
    BY <1>b, <1>1 DEF Caster
  <1>3. /\ caster' = [caster EXCEPT ![h] = r] /\ buffer' = Offered(v, f)
        /\ UNCHANGED <<topics, conn, closed, got, stored, standing, next, lost>>
    BY <1>b DEF Send
  <1> HIDE DEF f, r
  <1>4. caster'[h] = r /\ \A g \in Handlers \ {h} : caster'[g] = caster[g]
    BY <1>b, <1>3
  <1>5. /\ Append(buffer[v], f) \in Seq(Frames) /\ Len(Append(buffer[v], f)) = Len(buffer[v]) + 1
        /\ ToSet(Append(buffer[v], f)) = ToSet(buffer[v]) \cup {f}
    BY <1>b, <1>1, SentFrame
  <1>6. /\ buffer' \in [Views -> Seq(Frames)]
        /\ Len(buffer'[v]) <= Capacity /\ ToSet(buffer'[v]) \subseteq ToSet(buffer[v]) \cup {f}
        /\ \A u \in Views \ {v} : buffer'[u] = buffer[u]
    <2>1. CASE Len(buffer[v]) < Capacity
      <3>1. buffer' = [buffer EXCEPT ![v] = Append(buffer[v], f)]
        BY <1>3, <2>1 DEF Offered
      <3>2. Len(buffer[v]) \in Nat
        BY <1>b
      <3> QED BY <1>b, <1>5, <2>1, <3>1, <3>2
    <2>2. CASE ~(Len(buffer[v]) < Capacity)
      BY <1>b, <1>3, <2>2 DEF Offered
    <2> QED BY <2>1, <2>2
  <1>7. TypeOK'
    BY <1>a, <1>b, <1>2, <1>3, <1>6 DEF TypeOK
  <1>8. Registered'
    BY <1>a, <1>3 DEF Registered
  <1>9. Walking'
    <2>1. \A g \in Handlers :
            /\ caster'[g].pc = caster[g].pc /\ caster'[g].frame = caster[g].frame
            /\ caster'[g].topic = caster[g].topic
            /\ caster'[g].todo \subseteq caster[g].todo
      BY <1>1, <1>2, <1>4 DEF f
    <2> QED BY <1>a, <1>3, <2>1 DEF Walking
  <1>10. Once'
    <2>1. Seen(v)' \subseteq Seen(v) \cup {f} /\ \A u \in Views \ {v} : Seen(u)' = Seen(u)
      BY <1>3, <1>6 DEF Seen
    <2>2. \A u \in Views : Seen(u)' \subseteq 1..next
      BY <1>a, <1>1, <2>1 DEF Once
    <2>3. conn[v].pc \in {"serve", "unsubscribe"}
      BY <1>a, <1>1 DEF Walking
    <2>4. \A u \in Views : conn[u].pc \in {"new", "subscribe"} => buffer'[u] = <<>>
      BY <1>a, <1>6, <2>3 DEF Once
    <2>5. ASSUME NEW g \in Handlers, NEW u \in Views,
                 caster'[g].pc = "rlock" \/ u \in caster'[g].todo
          PROVE  caster'[g].frame \notin Seen(u)'
      <3>1. CASE g = h
        <4>1. u # v /\ u \in caster[h].todo
          BY <1>2, <1>4, <2>5, <3>1
        <4> QED BY <1>a, <1>2, <1>4, <2>1, <3>1, <4>1 DEF Once, f
      <3>2. CASE g # h
        <4>1. caster'[g] = caster[g] /\ caster[g].frame # f
          <5>1. caster[g].pc \in {"rlock", "send"}
            BY <1>a, <1>4, <2>5, <3>2 DEF Walking
          <5>2. caster[g].frame # None
            BY <1>a, <5>1, <1>b, HubConstants DEF Walking, Frames
          <5> QED BY <1>a, <1>4, <3>2, <5>2 DEF Walking, f
        <4> QED BY <1>a, <2>1, <2>5, <3>2, <4>1 DEF Once
      <3> QED BY <3>1, <3>2
    <2> QED BY <1>3, <2>2, <2>4, <2>5 DEF Once
  <1> QED BY <1>7, <1>8, <1>9, <1>10 DEF HubInv

\* Every step of every goroutine preserves the invariant.
LEMMA HubNext == HubInv /\ [Next]_vars => HubInv'
  <1> SUFFICES ASSUME HubInv, [Next]_vars
               PROVE  HubInv'
    OBVIOUS
  <1>a. caster \in [Handlers -> Caster] /\ stored \in Nat /\ lost \in Nat /\ Walking
    BY DEF HubInv, TypeOK
  <1>b. EventTopics \subseteq Topics
    BY HubConstants
  <1>1. ASSUME NEW h \in Handlers, NEW t \in Topics, Broadcast(h, t) \/ BroadcastScore(h, t)
        PROVE  HubInv'
    <2>1. caster[h].pc = "idle" /\ UNCHANGED <<topics, conn, buffer, closed, got, lost>>
      BY <1>1 DEF Broadcast, BroadcastScore
    <2>2. stored' \in Nat /\ \E score \in BOOLEAN : Called(h, t, score, None)
      <3>1. CASE Broadcast(h, t)
        BY <1>a, <3>1 DEF Broadcast
      <3>2. CASE BroadcastScore(h, t)
        <4>1. stored' = stored + 1 /\ Called(h, t, TRUE, None)
          BY <3>2 DEF BroadcastScore
        <4>2. stored' \in Nat
          BY <1>a, <4>1
        <4> QED BY <4>1, <4>2
      <3> QED BY <1>1, <3>1, <3>2
    <2> QED BY <1>1, <2>1, <2>2, CallSteps
  <1>2. ASSUME NEW h \in Handlers, BroadcastStandings(h)
        PROVE  HubInv'
    <2>1. /\ caster[h].pc = "standings" /\ Called(h, caster[h].topic, FALSE, caster[h].scores)
          /\ UNCHANGED <<topics, conn, buffer, closed, got, stored, lost>>
      BY <1>2 DEF BroadcastStandings
    <2>2. caster[h].topic \in Topics /\ caster[h].scores \in Nat \cup {None}
      BY <1>a, <2>1 DEF Walking, Caster
    <2> QED BY <1>a, <2>1, <2>2, CallSteps
  <1>3. ASSUME NEW h \in Handlers, RUnlock(h)
        PROVE  HubInv'
    <2> DEFINE r == Refresh(caster[h])
    <2>1. caster[h].topic \in Topics
      BY <1>a, <1>3 DEF RUnlock, Walking
    <2>2. /\ r \in Caster /\ r.pc \in {"idle", "query"} /\ r.frame = None /\ r.todo = {}
          /\ r.pc # "idle" => r.topic \in Topics
      BY <2>1 DEF Refresh, Idle, Caster
    <2>3. /\ caster' = [caster EXCEPT ![h] = r] /\ lost' \in Nat
          /\ UNCHANGED <<topics, conn, buffer, closed, got, stored, standing, next>>
      BY <1>a, <1>3 DEF RUnlock
    <2> HIDE DEF r
    <2> QED BY <2>2, <2>3, FreeSteps
  <1>4. ASSUME NEW h \in Handlers, Query(h)
        PROVE  HubInv'
    <2> DEFINE r == [caster[h] EXCEPT !.pc = "standings", !.scores = stored]
    <2>1. /\ caster[h].pc = "query" /\ caster[h].topic \in Topics
          /\ caster[h].frame = None /\ caster[h].todo = {}
      BY <1>a, <1>4 DEF Query, Walking
    <2>2. /\ r \in Caster /\ r.pc = "standings" /\ r.frame = None /\ r.todo = {}
          /\ r.topic \in Topics
      BY <1>a, <2>1 DEF Caster
    <2>3. /\ caster' = [caster EXCEPT ![h] = r] /\ lost' \in Nat
          /\ UNCHANGED <<topics, conn, buffer, closed, got, stored, standing, next>>
      BY <1>a, <1>4 DEF Query
    <2> HIDE DEF r
    <2> QED BY <2>2, <2>3, FreeSteps
  <1>5. ASSUME NEW h \in Handlers, QueryFails(h)
        PROVE  HubInv'
    <2>1. Idle \in Caster /\ Idle.pc = "idle" /\ Idle.frame = None /\ Idle.todo = {}
      BY DEF Idle, Caster
    <2>2. /\ caster' = [caster EXCEPT ![h] = Idle] /\ lost' \in Nat
          /\ UNCHANGED <<topics, conn, buffer, closed, got, stored, standing, next>>
      BY <1>a, <1>5 DEF QueryFails
    <2> QED BY <2>1, <2>2, FreeSteps
  <1>6. CASE UNCHANGED vars
    BY <1>6 DEF vars, HubInv, TypeOK, Registered, Walking, Once, Seen
  <1> QED
    BY <1>1, <1>2, <1>3, <1>4, <1>5, <1>6, ViewSteps, ChannelSteps, RLockStep, SendStep
    DEF Next, Serving, Casting

\* The map, the channels and the goroutines' locals keep their types; no channel
\* holds more frames than its buffer takes.
THEOREM HubTypes == Spec => []TypeOK
  <1>1. HubInv => TypeOK
    BY DEF HubInv
  <1> QED BY <1>1, HubInit, HubNext, PTL DEF Spec

\* Whoever walks a topic, a channel it still has to send on is not closed: the
\* view cannot have left the topic since, for its unsubscribe waits for the lock.
THEOREM ChannelsOutliveWalks == Spec => []NoSendOnClosed
  <1>1. HubInv => NoSendOnClosed
    <2> SUFFICES ASSUME HubInv, NEW h \in Handlers, NEW v \in caster[h].todo, v \in closed
                 PROVE  FALSE
      BY DEF NoSendOnClosed
    <2> QED BY DEF HubInv, Walking, Registered
  <1> QED BY <1>1, HubInit, HubNext, PTL DEF Spec

-----------------------------------------------------------------------------
(* The leaderboard *)

\* A frame broadcast keeps the scores it includes.
LEMMA StandingsStand ==
  ASSUME TypeOK, NEW h \in Handlers, NEW t, NEW score, NEW scores, Called(h, t, score, scores),
         NEW f \in 1..next
  PROVE  f \in 1..next' /\ standing'[f] = standing[f]
  BY HubConstants DEF TypeOK, Called, Frames

\* Every step keeps a leaderboard with all the scores, or someone who owes it.
LEMMA StandingsNext == HubInv /\ StandingsInv /\ [Next]_vars => StandingsInv'
  <1> SUFFICES ASSUME HubInv, StandingsInv, [Next]_vars, stored' > 0
               PROVE  \/ lost' = stored'
                      \/ \E f \in 1..next' : standing'[f] = stored'
                      \/ \E h \in Handlers : Owes(h)'
    BY DEF StandingsInv
  <1> DEFINE Goal == \/ lost' = stored'
                     \/ \E f \in 1..next' : standing'[f] = stored'
                     \/ \E h \in Handlers : Owes(h)'
  <1>a. TypeOK /\ caster \in [Handlers -> Caster] /\ next \in 0..MaxFrames /\ MaxFrames \in Nat
    BY HubConstants DEF HubInv, TypeOK
  \* The callers besides h go on owing what they owed, unless a score is stored.
  <1>b. ASSUME NEW h \in Handlers, NEW r, caster' = [caster EXCEPT ![h] = r],
               stored' = stored, lost' \in {lost, stored},
               \A f \in 1..next : f \in 1..next' /\ standing'[f] = standing[f],
               Owes(h) => Owes(h)' \/ lost' = stored \/ \E f \in 1..next' : standing'[f] = stored
        PROVE  Goal
    <2>1. \A g \in Handlers \ {h} : caster'[g] = caster[g]
      BY <1>a, <1>b
    <2>2. \A g \in Handlers \ {h} : Owes(g) => Owes(g)'
      BY <1>b, <2>1 DEF Owes
    <2>3. \/ lost = stored
          \/ \E f \in 1..next : standing[f] = stored
          \/ \E g \in Handlers : Owes(g)
      BY <1>b DEF StandingsInv
    <2> QED BY <1>b, <2>2, <2>3
  <1>1. ASSUME UNCHANGED <<caster, stored, standing, next, lost>>
        PROVE  Goal
    BY <1>1 DEF StandingsInv, Owes
  <1>2. ASSUME NEW h \in Handlers, NEW t \in Topics, Broadcast(h, t)
        PROVE  Goal
    <2>1. PICK r : caster' = [caster EXCEPT ![h] = r]
      BY <1>2 DEF Broadcast, Called
    <2>2. ~Owes(h) /\ stored' = stored /\ lost' = lost
      BY <1>2 DEF Broadcast, Owes
    <2>3. \A f \in 1..next : f \in 1..next' /\ standing'[f] = standing[f]
      BY <1>a, <1>2, StandingsStand DEF Broadcast
    <2> QED BY <1>b, <2>1, <2>2, <2>3
  <1>3. ASSUME NEW h \in Handlers, NEW t \in Topics, BroadcastScore(h, t)
        PROVE  Goal
    <2> DEFINE r == [Idle EXCEPT !.pc = "rlock", !.frame = next + 1, !.topic = t, !.score = TRUE]
    <2>1. caster'[h] = r
      BY <1>a, <1>3 DEF BroadcastScore, Called
    <2>2. r.pc = "rlock" /\ r.score
      BY DEF Idle
    <2>3. Owes(h)'
      BY <2>1, <2>2 DEF Owes
    <2> QED BY <2>3
  <1>4. ASSUME NEW h \in Handlers, RLock(h)
        PROVE  Goal
    <2>1. PICK r : r = [caster[h] EXCEPT !.pc = "send", !.todo = topics[caster[h].topic]]
      OBVIOUS
    <2>2. r.pc = "send" /\ r.score = caster[h].score
      BY <1>a, <2>1 DEF Caster
    <2>3. caster' = [caster EXCEPT ![h] = r] /\ UNCHANGED <<stored, standing, next, lost>>
      BY <1>a, <1>4, <2>1 DEF RLock
    <2>4. Owes(h) => Owes(h)'
      BY <1>a, <1>4, <2>2, <2>3 DEF RLock, Owes
    <2> QED BY <1>b, <2>3, <2>4
  <1>5. ASSUME NEW h \in Handlers, NEW v \in Views, Send(h, v)
        PROVE  Goal
    <2>1. PICK r : r = [caster[h] EXCEPT !.todo = @ \ {v}]
      OBVIOUS
    <2>2. r.pc = caster[h].pc /\ r.score = caster[h].score
      BY <1>a, <2>1 DEF Caster
    <2>3. caster' = [caster EXCEPT ![h] = r] /\ UNCHANGED <<stored, standing, next, lost>>
      BY <1>a, <1>5, <2>1 DEF Send
    <2>4. Owes(h) => Owes(h)'
      BY <1>a, <1>5, <2>2, <2>3 DEF Send, Owes
    <2> QED BY <1>b, <2>3, <2>4
  <1>6. ASSUME NEW h \in Handlers, RUnlock(h)
        PROVE  Goal
    <2>1. PICK r : r = Refresh(caster[h])
      OBVIOUS
    <2>2. caster[h].score => r.pc = "query"
      BY <2>1 DEF Refresh, Idle
    <2>3. /\ caster[h].pc = "send" /\ caster' = [caster EXCEPT ![h] = r]
          /\ UNCHANGED <<stored, standing, next, lost>>
      BY <1>6, <2>1 DEF RUnlock
    <2>4. Owes(h) => Owes(h)'
      BY <1>a, <2>2, <2>3 DEF Owes
    <2> QED BY <1>b, <2>3, <2>4
  <1>7. ASSUME NEW h \in Handlers, Query(h)
        PROVE  Goal
    <2>1. caster'[h].pc = "standings" /\ caster'[h].scores = stored /\ stored' = stored
      BY <1>a, <1>7 DEF Query, Caster
    <2> QED BY <2>1 DEF Owes
  <1>8. ASSUME NEW h \in Handlers, QueryFails(h)
        PROVE  Goal
    BY <1>8 DEF QueryFails
  <1>9. ASSUME NEW h \in Handlers, BroadcastStandings(h)
        PROVE  Goal
    <2> DEFINE n == caster[h].scores
    <2>1. PICK r : caster' = [caster EXCEPT ![h] = r]
      BY <1>9 DEF BroadcastStandings, Called
    <2>2. /\ caster[h].pc = "standings" /\ stored' = stored /\ lost' = lost
          /\ Called(h, caster[h].topic, FALSE, n)
      BY <1>9 DEF BroadcastStandings
    <2>3. \A f \in 1..next : f \in 1..next' /\ standing'[f] = standing[f]
      BY <1>a, <2>2, StandingsStand
    <2>4. next' \in 1..next' /\ standing'[next'] = n
      BY <1>a, <2>2 DEF Called, TypeOK, Frames
    <2>5. Owes(h) => n = stored
      BY <2>2 DEF Owes
    <2> QED BY <1>b, <2>1, <2>2, <2>3, <2>4, <2>5
  <1> QED
    BY <1>1, <1>2, <1>3, <1>4, <1>5, <1>6, <1>7, <1>8, <1>9
    DEF Next, Serving, Casting, Accept, Subscribe, WriteFrame, HangUp, Unsubscribe, Close, vars

\* However many leaderboards are computed side by side, when all is quiet one was
\* broadcast with every score stored, or the last one failed.
THEOREM StandingsFollow == Spec => []StandingsComplete
  <1>1. Init => StandingsInv
    BY DEF Init, StandingsInv
  <1>2. StandingsInv => StandingsComplete
    BY DEF StandingsInv, StandingsComplete, Owes
  <1> QED BY <1>1, <1>2, HubInit, HubNext, StandingsNext, PTL DEF Spec

-----------------------------------------------------------------------------
(* The hub implements the lossy channel *)

\* What is under way and what has returned depend on the callers' frames only.
LEMMA FramesHeld ==
  ASSUME TypeOK, NEW h \in Handlers, NEW r \in Caster, caster' = [caster EXCEPT ![h] = r],
         r.frame = caster[h].frame, next' = next
  PROVE  UNCHANGED <<Underway, Returned>>
  <1>1. \A g \in Handlers : caster'[g].frame = caster[g].frame
    BY DEF TypeOK
  <1> QED BY <1>1 DEF Underway, Returned

\* Subscribing opens the channel, writing a frame delivers it, hanging up leaves;
\* the rest of a view's life is none of the channel's business.
LEMMA ViewRefines ==
  ASSUME HubInv, NEW v \in Views,
         \/ \E t \in Topics : Accept(v, t)
         \/ Serving(v) \/ HangUp(v)
  PROVE  [Channel!Next]_Channel!vars
  <1>a. /\ conn \in [Views -> [pc : {"new", "subscribe", "serve", "unsubscribe", "close", "gone"},
                               topic : Topics \cup {None}]]
        /\ buffer \in [Views -> Seq(Frames)] /\ got \in [Views -> Seq(Frames)]
    BY DEF HubInv, TypeOK
  <1>b. UNCHANGED <<caster, next>>
    BY DEF Serving, Accept, Subscribe, WriteFrame, Unsubscribe, Close, HangUp
  <1>c. UNCHANGED <<Underway, Returned>>
    BY <1>b DEF Underway, Returned
  <1>1. ASSUME UNCHANGED <<buffer, got>>, NEW pc \in {"subscribe", "close", "gone"},
               conn[v].pc \in {"new", "unsubscribe", "close"},
               conn'[v].pc = pc, \A u \in Views \ {v} : conn'[u] = conn[u]
        PROVE  UNCHANGED Channel!vars
    <2>1. Connected' = Connected /\ Accepted' = Accepted
      BY <1>1 DEF Connected, Accepted
    <2> QED BY <1>1, <1>c, <2>1 DEF Channel!vars
  <1>2. CASE \E t \in Topics : Accept(v, t)
    <2>1. /\ conn[v].pc = "new" /\ conn'[v].pc = "subscribe"
          /\ \A u \in Views \ {v} : conn'[u] = conn[u]
          /\ UNCHANGED <<buffer, got>>
      BY <1>a, <1>2 DEF Accept
    <2> QED BY <1>1, <2>1
  <1>3. CASE Subscribe(v)
    <2>1. /\ conn[v].pc = "subscribe" /\ conn'[v].pc = "serve"
          /\ \A u \in Views \ {v} : conn'[u] = conn[u]
          /\ UNCHANGED <<buffer, got>>
      BY <1>a, <1>3 DEF Subscribe, Step
    <2>2. buffer[v] = <<>>
      BY <2>1 DEF HubInv, Once
    <2>3. Connected' = Connected \cup {v} /\ Accepted' = Accepted
      BY <2>1, <2>2 DEF Connected, Accepted
    <2>4. Channel!Open(v)
      BY <1>c, <2>1, <2>3 DEF Channel!Open
    <2> QED BY <2>4 DEF Channel!Next
  <1>4. CASE WriteFrame(v)
    <2>1. /\ conn[v].pc = "serve" /\ conn' = conn /\ buffer[v] # <<>>
          /\ buffer' = [buffer EXCEPT ![v] = Tail(buffer[v])]
          /\ got' = [got EXCEPT ![v] = Append(@, Head(buffer[v]))]
      BY <1>4 DEF WriteFrame
    <2>2. v \in Connected /\ Connected' = Connected /\ Accepted[v] = buffer[v]
      BY <2>1 DEF Connected, Accepted
    <2>3. Accepted' = [Accepted EXCEPT ![v] = Tail(@)]
      BY <1>a, <2>1 DEF Accepted
    <2>4. Channel!Deliver(v)
      BY <1>c, <2>1, <2>2, <2>3 DEF Channel!Deliver
    <2> QED BY <2>4 DEF Channel!Next
  <1>5. CASE HangUp(v)
    <2>1. /\ conn[v].pc = "serve" /\ conn'[v].pc = "unsubscribe" /\ got' = got
          /\ \A u \in Views \ {v} : conn'[u] = conn[u] /\ buffer'[u] = buffer[u]
      BY <1>a, <1>5 DEF HangUp, Step
    <2>2. Connected' = Connected \ {v} /\ Accepted' = [Accepted EXCEPT ![v] = <<>>]
      BY <2>1 DEF Connected, Accepted
    <2>3. Channel!Leave(v)
      BY <1>c, <2>1, <2>2 DEF Channel!Leave
    <2> QED BY <2>3 DEF Channel!Next
  <1>6. CASE Unsubscribe(v) \/ Close(v)
    <2>1. /\ conn[v].pc \in {"unsubscribe", "close"} /\ conn'[v].pc \in {"close", "gone"}
          /\ \A u \in Views \ {v} : conn'[u] = conn[u]
          /\ UNCHANGED <<buffer, got>>
      BY <1>a, <1>6 DEF Unsubscribe, Close, Step
    <2> QED BY <1>1, <2>1
  <1> QED BY <1>2, <1>3, <1>4, <1>5, <1>6 DEF Serving

\* Calling Broadcast puts a new frame under way.
LEMMA CallRefines ==
  ASSUME HubInv, NEW h \in Handlers, NEW t, NEW score, NEW scores,
         caster[h].pc \notin {"rlock", "send"}, Called(h, t, score, scores),
         UNCHANGED <<conn, buffer, got>>
  PROVE  Channel!Next
  <1>a. /\ caster \in [Handlers -> Caster] /\ next \in 0..MaxFrames /\ MaxFrames \in Nat
        /\ Walking
    BY HubConstants DEF HubInv, TypeOK
  <1> DEFINE f == next + 1
  <1>1. f \in Frames /\ f # None /\ next' = f /\ 1..f = (1..next) \cup {f} /\ f \notin 1..next
    BY <1>a, HubConstants DEF Called, Frames
  <1>2. /\ caster'[h].frame = f /\ caster[h].frame = None
        /\ \A g \in Handlers \ {h} : caster'[g] = caster[g]
    BY <1>a DEF Called, Idle, Walking
  <1>3. \A g \in Handlers : caster[g].frame \in (1..next) \cup {None}
    BY <1>a DEF Walking
  <1>4. f \notin Underway \cup Returned
    BY <1>1, <1>3 DEF Underway, Returned
  <1>5. Underway' = Underway \cup {f}
    BY <1>1, <1>2 DEF Underway
  <1>6. Returned' = Returned
    <2> HIDE DEF f
    <2>1. ASSUME NEW e \in 1..next
          PROVE  (\A g \in Handlers : caster'[g].frame # e)
                   <=> (\A g \in Handlers : caster[g].frame # e)
      <3>1. e # f /\ e # None
        BY <1>1, <1>a, HubConstants DEF Frames
      <3> QED BY <1>2, <3>1
    <2> QED BY <1>1, <1>2, <2>1 DEF Returned
  <1>7. UNCHANGED <<Connected, Accepted, got>>
    BY DEF Connected, Accepted
  <1>8. Channel!Call(f)
    BY <1>4, <1>5, <1>6, <1>7 DEF Channel!Call
  <1> QED BY <1>1, <1>8 DEF Channel!Next

\* Offering a frame to a view that has room is its acceptance; a frame dropped, or
\* offered to a view that hangs up, is nothing.
LEMMA SendRefines ==
  ASSUME HubInv, NEW h \in Handlers, NEW v \in Views, Send(h, v)
  PROVE  [Channel!Next]_Channel!vars
  <1>a. /\ caster \in [Handlers -> Caster] /\ buffer \in [Views -> Seq(Frames)]
        /\ next \in 0..MaxFrames /\ MaxFrames \in Nat /\ TypeOK
    BY HubConstants DEF HubInv, TypeOK
  <1> DEFINE f == caster[h].frame
  <1>1. f \in 1..next /\ f \in Frames /\ f # None
    BY <1>a, HubConstants DEF Send, HubInv, Walking, Frames
  <1>2. UNCHANGED <<Underway, Returned>>
    <2> DEFINE r == [caster[h] EXCEPT !.todo = @ \ {v}]
    <2>1. r \in Caster /\ r.frame = f
      BY <1>a DEF Caster
    <2>2. caster' = [caster EXCEPT ![h] = r] /\ next' = next
      BY <1>a DEF Send
    <2> HIDE DEF r
    <2> QED BY <1>a, <2>1, <2>2, FramesHeld
  <1>3. UNCHANGED <<conn, got>> /\ buffer' = Offered(v, f) /\ v \in caster[h].todo
    BY DEF Send
  <1>4. Connected' = Connected
    BY <1>3 DEF Connected
  <1>5. CASE conn[v].pc = "serve" /\ Len(buffer[v]) < Capacity
    <2>1. buffer' = [buffer EXCEPT ![v] = Append(buffer[v], f)]
      BY <1>3, <1>5 DEF Offered
    <2>2. Accepted' = [Accepted EXCEPT ![v] = Append(@, f)] /\ Accepted[v] = buffer[v]
      BY <1>a, <1>3, <1>5, <2>1 DEF Accepted
    <2>3. f \in Underway /\ v \in Connected
      BY <1>1, <1>5 DEF Underway, Connected
    <2>4. f \notin ToSet(Accepted[v]) \cup ToSet(got[v])
      BY <1>3, <2>2 DEF HubInv, Once, Seen
    <2>5. Channel!Accept(v, f)
      <3>1. f \notin Channel!ToSet(Accepted[v]) \cup Channel!ToSet(got[v])
        BY <2>4 DEF ToSet, Channel!ToSet
      <3> QED BY <1>2, <1>3, <1>4, <2>2, <2>3, <3>1 DEF Channel!Accept
    <2> QED BY <1>1, <2>5 DEF Channel!Next
  <1>6. CASE conn[v].pc # "serve" \/ ~(Len(buffer[v]) < Capacity)
    <2>1. \A u \in Views : conn[u].pc = "serve" => buffer'[u] = buffer[u]
      BY <1>a, <1>3, <1>6 DEF Offered
    <2>2. Accepted' = Accepted
      BY <1>3, <2>1 DEF Accepted
    <2> QED BY <1>2, <1>3, <1>4, <2>2 DEF Channel!vars
  <1> QED BY <1>5, <1>6

\* The reader lock's release ends the broadcast of its frame.
LEMMA ReturnRefines ==
  ASSUME HubInv, NEW h \in Handlers, RUnlock(h)
  PROVE  Channel!Next
  <1>a. /\ caster \in [Handlers -> Caster] /\ next \in 0..MaxFrames /\ MaxFrames \in Nat
        /\ Walking
    BY HubConstants DEF HubInv, TypeOK
  <1> DEFINE f == caster[h].frame
  <1>1. f \in 1..next /\ f \in Frames /\ f # None
    BY <1>a, HubConstants DEF RUnlock, Walking, Frames
  <1>2. caster'[h].frame = None /\ \A g \in Handlers \ {h} : caster'[g] = caster[g]
    <2>1. caster' = [caster EXCEPT ![h] = Refresh(caster[h])]
      BY DEF RUnlock
    <2>2. Refresh(caster[h]).frame = None
      BY DEF Refresh, Idle
    <2> QED BY <1>a, <2>1, <2>2
  <1>3. \A g \in Handlers \ {h} : caster[g].frame # f
    BY <1>a, <1>1 DEF Walking
  <1> HIDE DEF f
  <1>4. f \in Underway
    BY <1>1 DEF Underway, f
  <1>5. Underway' = Underway \ {f}
    BY <1>1, <1>2, <1>3 DEF Underway, f
  <1>6. Returned' = Returned \cup {f}
    <2>1. next' = next
      BY DEF RUnlock
    <2>2. \A e \in 1..next : e # None
      BY <1>a, HubConstants DEF Frames
    <2> QED BY <1>1, <1>2, <1>3, <2>1, <2>2 DEF Returned, f
  <1>7. UNCHANGED <<Connected, Accepted, got>>
    BY DEF RUnlock, Connected, Accepted
  <1>8. Channel!Return(f)
    BY <1>4, <1>5, <1>6, <1>7 DEF Channel!Return
  <1> QED BY <1>1, <1>8 DEF Channel!Next

\* Every step of the hub is a step of the channel or leaves it as it is.
LEMMA HubRefines == HubInv /\ [Next]_vars => [Channel!Next]_Channel!vars
  <1> SUFFICES ASSUME HubInv, [Next]_vars
               PROVE  [Channel!Next]_Channel!vars
    OBVIOUS
  <1>a. TypeOK /\ Walking /\ caster \in [Handlers -> Caster] /\ stored \in Nat
    BY DEF HubInv, TypeOK
  <1>b. ASSUME NEW h \in Handlers, NEW r \in Caster, caster' = [caster EXCEPT ![h] = r],
               r.frame = caster[h].frame, UNCHANGED <<conn, buffer, got, next>>
        PROVE  UNCHANGED Channel!vars
    <2>1. UNCHANGED <<Underway, Returned>>
      BY <1>a, <1>b, FramesHeld
    <2>2. UNCHANGED <<Connected, Accepted>>
      BY <1>b DEF Connected, Accepted
    <2> QED BY <1>b, <2>1, <2>2 DEF Channel!vars
  <1>1. ASSUME NEW h \in Handlers, NEW t \in Topics, Broadcast(h, t) \/ BroadcastScore(h, t)
        PROVE  Channel!Next
    BY <1>1, CallRefines DEF Broadcast, BroadcastScore
  <1>2. ASSUME NEW h \in Handlers, BroadcastStandings(h)
        PROVE  Channel!Next
    BY <1>2, CallRefines DEF BroadcastStandings
  <1>3. ASSUME NEW h \in Handlers, RLock(h)
        PROVE  UNCHANGED Channel!vars
    <2> DEFINE r == [caster[h] EXCEPT !.pc = "send", !.todo = topics[caster[h].topic]]
    <2>1. topics[caster[h].topic] \subseteq Views
      BY <1>a, <1>3 DEF RLock, Walking, TypeOK
    <2>2. r \in Caster /\ r.frame = caster[h].frame
      BY <1>a, <2>1 DEF Caster
    <2>3. caster' = [caster EXCEPT ![h] = r] /\ UNCHANGED <<conn, buffer, got, next>>
      BY <1>a, <1>3 DEF RLock
    <2> HIDE DEF r
    <2> QED BY <1>b, <2>2, <2>3
  <1>4. ASSUME NEW h \in Handlers, Query(h)
        PROVE  UNCHANGED Channel!vars
    <2> DEFINE r == [caster[h] EXCEPT !.pc = "standings", !.scores = stored]
    <2>1. r \in Caster /\ r.frame = caster[h].frame
      BY <1>a DEF Caster
    <2>2. caster' = [caster EXCEPT ![h] = r] /\ UNCHANGED <<conn, buffer, got, next>>
      BY <1>a, <1>4 DEF Query
    <2> HIDE DEF r
    <2> QED BY <1>b, <2>1, <2>2
  <1>5. ASSUME NEW h \in Handlers, QueryFails(h)
        PROVE  UNCHANGED Channel!vars
    <2>1. Idle \in Caster /\ Idle.frame = None
      BY DEF Idle, Caster
    <2>2. caster[h].frame = None
      BY <1>a, <1>5 DEF QueryFails, Walking
    <2>3. caster' = [caster EXCEPT ![h] = Idle] /\ UNCHANGED <<conn, buffer, got, next>>
      BY <1>5 DEF QueryFails
    <2> QED BY <1>b, <2>1, <2>2, <2>3
  <1>6. CASE UNCHANGED vars
    BY <1>6 DEF vars, Channel!vars, Connected, Underway, Returned, Accepted
  <1> QED
    BY <1>1, <1>2, <1>3, <1>4, <1>5, <1>6, ViewRefines, SendRefines, ReturnRefines
    DEF Next, Casting

\* The hub is a lossy channel to each view: no frame twice, none after the view
\* has left, and none whose broadcast had returned before another that it
\* received was called.
THEOREM HubIsChannel == Spec => ChannelSpec
  <1>1. Init => Channel!Init
    <2> SUFFICES ASSUME Init
                 PROVE  Channel!Init
      OBVIOUS
    <2>1. Connected = {} /\ Accepted = [v \in Views |-> <<>>]
      BY DEF Init, Connected, Accepted
    <2>2. Underway = {} /\ Returned = {}
      BY DEF Init, Underway, Returned, Idle
    <2> QED BY <2>1, <2>2 DEF Init, Channel!Init
  <1> QED BY <1>1, HubInit, HubNext, HubRefines, PTL DEF Spec, ChannelSpec, Channel!Spec

=============================================================================
