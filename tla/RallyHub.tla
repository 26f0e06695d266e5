------------------------------ MODULE RallyHub ------------------------------
(***************************************************************************)
(* The WebSocket hub (backend/internal/realtime) and the broadcaster that  *)
(* feeds it (cmd/server/realtime.go).  Request handlers broadcast, one     *)
(* connection goroutine per view subscribes, writes frames out and         *)
(* unsubscribes; what they share is the topic map under an RWMutex, one    *)
(* buffered channel per view, and the stored scores.  A critical section   *)
(* of the writer lock is one action; under the reader lock, one per send.  *)
(***************************************************************************)
EXTENDS Naturals, Sequences, FiniteSets, SequencesExt

CONSTANTS
  Views,          \* connections to /ws, each made once
  Topics,
  EventTopics,    \* those on which a score change refreshes the leaderboard
  Handlers,       \* goroutines that broadcast
  Capacity,       \* subscriberBuffer
  MaxFrames,      \* bound on the broadcasts of a behaviour
  None

Frames == 1..MaxFrames

ASSUME HubConstants ==
  /\ Capacity \in Nat \ {0}
  /\ MaxFrames \in Nat
  /\ EventTopics \subseteq Topics
  /\ None \notin Topics \cup Frames

VARIABLES
  topics,   \* h.topics: the views of each topic
  conn,     \* each ServeWS goroutine: pc and topic
  buffer,   \* its channel
  closed,   \* the channels that are closed
  got,      \* the frames written to each client
  caster,   \* each broadcasting goroutine
  stored,   \* how many scores are stored and told
  standing, \* the scores a leaderboard frame includes; None for other frames
  next,     \* frames broadcast so far
  lost      \* history: the scores there were when a leaderboard last failed

vars == <<topics, conn, buffer, closed, got, caster, stored, standing, next, lost>>

Idle == [pc |-> "idle", frame |-> None, topic |-> None, todo |-> {}, score |-> FALSE,
         scores |-> None]

Init ==
  /\ topics = [t \in Topics |-> {}]
  /\ conn = [v \in Views |-> [pc |-> "new", topic |-> None]]
  /\ buffer = [v \in Views |-> <<>>]
  /\ closed = {}
  /\ got = [v \in Views |-> <<>>]
  /\ caster = [h \in Handlers |-> Idle]
  /\ stored = 0
  /\ standing = [f \in Frames |-> None]
  /\ next = 0
  /\ lost = 0

-----------------------------------------------------------------------------
(* The lock.  Go's RWMutex lets no new reader in while a writer waits. *)

Readers == {h \in Handlers : caster[h].pc = "send"}
WriterWaits == \E v \in Views : conn[v].pc \in {"subscribe", "unsubscribe"}
Step(v, pc) == conn' = [conn EXCEPT ![v].pc = pc]

-----------------------------------------------------------------------------
(* ServeWS *)

\* The upgrade succeeds and Subscribe asks for the lock.
Accept(v, t) ==
  /\ conn[v].pc = "new"
  /\ conn' = [conn EXCEPT ![v] = [pc |-> "subscribe", topic |-> t]]
  /\ UNCHANGED <<topics, buffer, closed, got, caster, stored, standing, next, lost>>

Subscribe(v) ==
  /\ conn[v].pc = "subscribe"
  /\ Readers = {}
  /\ topics' = [topics EXCEPT ![conn[v].topic] = @ \cup {v}]
  /\ Step(v, "serve")
  /\ UNCHANGED <<buffer, closed, got, caster, stored, standing, next, lost>>

\* A frame is read from the channel and written out.
WriteFrameKept(v) ==
  /\ conn[v].pc = "serve"
  /\ buffer[v] # <<>>
  /\ got' = [got EXCEPT ![v] = Append(@, Head(buffer[v]))]
  /\ UNCHANGED <<topics, conn, buffer, closed, caster, stored, standing, next, lost>>
WriteFrame(v) ==
  /\ conn[v].pc = "serve"
  /\ buffer[v] # <<>>
  /\ buffer' = [buffer EXCEPT ![v] = Tail(@)]
  /\ got' = [got EXCEPT ![v] = Append(@, Head(buffer[v]))]
  /\ UNCHANGED <<topics, conn, closed, caster, stored, standing, next, lost>>

\* The client hangs up, or a ping or the write of a frame already taken from the
\* channel times out: the loop returns and the deferred unsubscribe asks for the
\* lock.
HangUp(v) ==
  /\ conn[v].pc = "serve"
  /\ Step(v, "unsubscribe")
  /\ buffer' \in {buffer, [buffer EXCEPT ![v] = IF @ = <<>> THEN @ ELSE Tail(@)]}
  /\ UNCHANGED <<topics, closed, got, caster, stored, standing, next, lost>>

\* The view leaves the topic under the lock; its channel is closed after it.
UnsubscribeUnlocked(v) ==
  /\ conn[v].pc = "unsubscribe"
  /\ topics' = [topics EXCEPT ![conn[v].topic] = @ \ {v}]
  /\ Step(v, "close")
  /\ UNCHANGED <<buffer, closed, got, caster, stored, standing, next, lost>>
Unsubscribe(v) ==
  /\ conn[v].pc = "unsubscribe"
  /\ Readers = {}
  /\ topics' = [topics EXCEPT ![conn[v].topic] = @ \ {v}]
  /\ Step(v, "close")
  /\ UNCHANGED <<buffer, closed, got, caster, stored, standing, next, lost>>

Close(v) ==
  /\ conn[v].pc = "close"
  /\ Step(v, "gone")
  /\ closed' = closed \cup {v}
  /\ UNCHANGED <<topics, buffer, got, caster, stored, standing, next, lost>>

-----------------------------------------------------------------------------
(* Broadcast, and newSessionBroadcaster around it *)

\* Broadcast is called; frames are numbered in the order of the calls.
Returned == {f \in 1..next : \A h \in Handlers : caster[h].frame # f}
Called(h, t, score, scores) ==
  /\ next < MaxFrames
  /\ next' = next + 1
  /\ caster' = [caster EXCEPT ![h] = [Idle EXCEPT !.pc = "rlock", !.frame = next + 1,
                                                 !.topic = t, !.score = score]]
  /\ standing' = [standing EXCEPT ![next + 1] = scores]

\* A handler has a position, an alert or a frame for a car to tell, or has just
\* stored a score.
Broadcast(h, t) ==
  /\ caster[h].pc = "idle"
  /\ Called(h, t, FALSE, None)
  /\ UNCHANGED <<topics, conn, buffer, closed, got, stored, lost>>
BroadcastScore(h, t) ==
  /\ caster[h].pc = "idle"
  /\ t \in EventTopics
  /\ Called(h, t, TRUE, None)
  /\ stored' = stored + 1
  /\ UNCHANGED <<topics, conn, buffer, closed, got, lost>>

RLock(h) ==
  /\ caster[h].pc = "rlock"
  /\ ~WriterWaits
  /\ caster' = [caster EXCEPT ![h].pc = "send", ![h].todo = topics[caster[h].topic]]
  /\ UNCHANGED <<topics, conn, buffer, closed, got, stored, standing, next, lost>>

\* One turn of the loop: the send, or the default branch when the buffer is full.
OfferedAlways(v, f) == [buffer EXCEPT ![v] = Append(@, f)]
Offered(v, f) ==
  IF Len(buffer[v]) < Capacity THEN [buffer EXCEPT ![v] = Append(@, f)] ELSE buffer
SendBlocking(h, v) ==
  /\ caster[h].pc = "send"
  /\ v \in caster[h].todo
  /\ Len(buffer[v]) < Capacity
  /\ buffer' = Offered(v, caster[h].frame)
  /\ caster' = [caster EXCEPT ![h].todo = @ \ {v}]
  /\ UNCHANGED <<topics, conn, closed, got, stored, standing, next, lost>>
Send(h, v) ==
  /\ caster[h].pc = "send"
  /\ v \in caster[h].todo
  /\ buffer' = Offered(v, caster[h].frame)
  /\ caster' = [caster EXCEPT ![h].todo = @ \ {v}]
  /\ UNCHANGED <<topics, conn, closed, got, stored, standing, next, lost>>

\* The reader lock is released; a score is followed by the leaderboard.
RefreshUnlessRunning(c) ==
  IF c.score /\ \A h \in Handlers : caster[h].pc \notin {"query", "standings"}
  THEN [Idle EXCEPT !.pc = "query", !.topic = c.topic] ELSE Idle
Refresh(c) == IF c.score THEN [Idle EXCEPT !.pc = "query", !.topic = c.topic] ELSE Idle
RUnlock(h) ==
  /\ caster[h].pc = "send"
  /\ caster[h].todo = {}
  /\ caster' = [caster EXCEPT ![h] = Refresh(caster[h])]
  /\ UNCHANGED <<topics, conn, buffer, closed, got, stored, standing, next, lost>>

\* Leaderboard reads the scores stored by now.
Query(h) ==
  /\ caster[h].pc = "query"
  /\ caster' = [caster EXCEPT ![h].pc = "standings", ![h].scores = stored]
  /\ UNCHANGED <<topics, conn, buffer, closed, got, stored, standing, next, lost>>

\* It fails, or runs into leaderboardRefreshTimeout: the refresh is dropped.
QueryFails(h) ==
  /\ caster[h].pc = "query"
  /\ caster' = [caster EXCEPT ![h] = Idle]
  /\ lost' = stored
  /\ UNCHANGED <<topics, conn, buffer, closed, got, stored, standing, next>>

BroadcastStandings(h) ==
  /\ caster[h].pc = "standings"
  /\ Called(h, caster[h].topic, FALSE, caster[h].scores)
  /\ UNCHANGED <<topics, conn, buffer, closed, got, stored, lost>>

-----------------------------------------------------------------------------

Serving(v) == Subscribe(v) \/ WriteFrame(v) \/ Unsubscribe(v) \/ Close(v)
Casting(h) ==
  RLock(h) \/ (\E v \in Views : Send(h, v)) \/ RUnlock(h) \/ Query(h) \/ QueryFails(h)

Next ==
  \/ \E v \in Views, t \in Topics : Accept(v, t)
  \/ \E v \in Views : Serving(v) \/ HangUp(v)
  \/ \E h \in Handlers, t \in Topics : Broadcast(h, t) \/ BroadcastScore(h, t)
  \/ \E h \in Handlers : Casting(h) \/ BroadcastStandings(h)

Spec == Init /\ [][Next]_vars

\* The goroutines run; clients need neither come, stay nor go, and handlers need
\* not have anything to tell.
FairSpec ==
  /\ Spec
  /\ \A v \in Views : WF_vars(Serving(v))
  /\ \A h \in Handlers : WF_vars(Casting(h))

-----------------------------------------------------------------------------
(* Properties *)

Caster == [pc : {"idle", "rlock", "send", "query", "standings"}, frame : Frames \cup {None},
           topic : Topics \cup {None}, todo : SUBSET Views, score : BOOLEAN,
           scores : Nat \cup {None}]

\* The map, the channels and the goroutines' locals have their types.
TypeOK ==
  /\ topics \in [Topics -> SUBSET Views]
  /\ conn \in [Views -> [pc : {"new", "subscribe", "serve", "unsubscribe", "close", "gone"},
                         topic : Topics \cup {None}]]
  /\ buffer \in [Views -> Seq(Frames)]
  /\ \A v \in Views : Len(buffer[v]) <= Capacity
  /\ got \in [Views -> Seq(Frames)]
  /\ closed \subseteq Views
  /\ caster \in [Handlers -> Caster]
  /\ stored \in Nat /\ lost \in Nat
  /\ standing \in [Frames -> Nat \cup {None}]
  /\ next \in 0..MaxFrames

\* A Broadcast never sends on a closed channel, which would panic: unsubscribe
\* closes it after the lock, while others may be walking the topic.
NoSendOnClosed == \A h \in Handlers : caster[h].todo \cap closed = {}

\* The leaderboard follows every score: when no broadcast is under way, one that
\* was broadcast includes all the scores stored, even though the leaderboards of
\* two cars are computed side by side; unless one failed that would have had them all.
StandingsComplete ==
  (stored > 0 /\ \A h \in Handlers : caster[h].pc = "idle") =>
    lost = stored \/ \E f \in 1..next : standing[f] = stored

\* What the lossy channel makes of the state: who is connected, which frames are
\* being broadcast, and what each view that is still served has accepted.
Connected == {v \in Views : conn[v].pc = "serve"}
Underway == {caster[h].frame : h \in Handlers} \ {None}
Accepted == [v \in Views |-> IF conn[v].pc = "serve" THEN buffer[v] ELSE <<>>]

\* "The next update supersedes this one" (Broadcast): the hub implements the
\* lossy channel, so a view never shows a frame twice, after its unsubscribing, or
\* after one whose broadcast was called only when the first had returned.
Channel == INSTANCE RallyChannel WITH
  Subscribers <- Views,
  open <- Connected,
  sending <- Underway,
  over <- Returned,
  pending <- Accepted,
  got <- got
ChannelSpec == Channel!Spec

\* "It never blocks" (Broadcast), even when no client reads.
BroadcastReturns == \A h \in Handlers : (caster[h].pc = "rlock") ~> (caster[h].frame = None)

-----------------------------------------------------------------------------
(* The inductive invariants the proofs rest on *)

\* A topic lists the views that serve it, a channel is closed for good.
Registered ==
  /\ \A t \in Topics, v \in Views :
       v \in topics[t] => conn[v].pc \in {"serve", "unsubscribe"} /\ conn[v].topic = t
  /\ \A v \in Views : conn[v].pc # "new" => conn[v].topic \in Topics
  /\ \A v \in closed : conn[v].pc = "gone"

\* A broadcast at work has a frame of its own, and walks over views that cannot
\* leave before it is done.
Walking ==
  /\ \A h \in Handlers :
       /\ caster[h].pc # "idle" => caster[h].topic \in Topics
       /\ caster[h].pc # "send" => caster[h].todo = {}
       /\ IF caster[h].pc \in {"rlock", "send"}
          THEN caster[h].frame \in 1..next ELSE caster[h].frame = None
       /\ \A v \in caster[h].todo : conn[v].pc \in {"serve", "unsubscribe"}
  /\ \A g, h \in Handlers :
       caster[g].frame = caster[h].frame => g = h \/ caster[h].frame = None

\* A frame has not come to a view before it is offered, and none comes before
\* the view subscribes.
Seen(v) == ToSet(buffer[v]) \cup ToSet(got[v])
Once ==
  /\ \A v \in Views : Seen(v) \subseteq 1..next
  /\ \A v \in Views : conn[v].pc \in {"new", "subscribe"} => buffer[v] = <<>>
  /\ \A h \in Handlers, v \in Views :
       caster[h].pc = "rlock" \/ v \in caster[h].todo => caster[h].frame \notin Seen(v)

HubInv == TypeOK /\ Registered /\ Walking /\ Once

\* Some broadcast has all the scores, some caller is still to make one, or the
\* last leaderboard failed.
Owes(h) ==
  \/ caster[h].pc \in {"rlock", "send"} /\ caster[h].score
  \/ caster[h].pc = "query"
  \/ caster[h].pc = "standings" /\ caster[h].scores = stored
StandingsInv ==
  stored > 0 =>
    \/ lost = stored
    \/ \E f \in 1..next : standing[f] = stored
    \/ \E h \in Handlers : Owes(h)

=============================================================================
