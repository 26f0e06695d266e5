---------------------------- MODULE RallyMonitor ----------------------------
(***************************************************************************)
(* The organizer's live monitor (webapp: MonitorPage, monitorReducer,      *)
(* useEventSocket) of one event: a snapshot fetched over REST, moved on by *)
(* the frames of a socket that carries no history, reconnects, and fetches *)
(* again.  The hub is what RallyChannel promises: frames in the order of   *)
(* their broadcasts, lost while nobody listens or the buffer is full.      *)
(* One car's answers stand for all; positions, which frames replace as     *)
(* they do totals, are left out, and so are the order and the length       *)
(* (ALERT_HISTORY) of the strip of alerts.                                 *)
(***************************************************************************)
EXTENDS Integers, Sequences, FiniteSets

CONSTANTS
  Handlers,    \* requests that store and then broadcast
  Alerts,
  Size,        \* the tasks on the car's route, which its page counts against
  Library,     \* the tasks of the event, any of which the car may answer
  Awards,      \* what an answer may earn
  Capacity,    \* frames between the hub and the page
  None

ASSUME MonitorConstants ==
  /\ Size \in Nat /\ Library \in Nat /\ Awards \subseteq Int
  /\ Capacity \in Nat \ {0}
  /\ IsFiniteSet(Handlers) /\ IsFiniteSet(Alerts)

VARIABLES
  stored,    \* the car's points, its completed tasks, those among them that were right
             \* (no column says so), and the stage of each alert
  owes,      \* each handler: the frames it has still to broadcast
  link,      \* the socket: accepted and subscribed by the server, connected and, at some
             \* time before, hasConnectedOnce at the page
  wire,      \* the frames on their way to the page
  query,     \* the snapshot request: what it has read so far
  cache,     \* the snapshot last received
  page       \* MonitorState

vars == <<stored, owes, link, wire, query, cache, page>>

NoLink == [accepted |-> FALSE, subscribed |-> FALSE, connected |-> FALSE, before |-> FALSE]
NoQuery == [pc |-> "idle", total |-> 0, done |-> 0, open |-> 0]
Request == [NoQuery EXCEPT !.pc = "asked"]
Unheard == [a \in Alerts |-> "unheard"]
EmptyMonitorState == [total |-> 0, done |-> 0, size |-> 0, alerts |-> Unheard, openAlerts |-> 0]

\* The frames that move the page on.
ScoreDelta(total) == [type |-> "score_delta", total |-> total]
TaskCompleted == [type |-> "task_completed"]
AlertFrame(a, open) == [type |-> "alert", id |-> a, open |-> open]

OpenAlerts == {a \in Alerts : stored.stage[a] = "open"}

\* The page mounts while the rally is under way: it asks for the snapshot and has
\* no socket yet.
Init ==
  /\ \E stage \in [Alerts -> {"none", "open"}] :
       stored = [total |-> 0, done |-> 0, right |-> 0, stage |-> stage]
  /\ owes = [h \in Handlers |-> <<>>]
  /\ link = NoLink
  /\ wire = <<>>
  /\ query = Request
  /\ cache = None
  /\ page = EmptyMonitorState

-----------------------------------------------------------------------------
(* The server *)

\* SaveSubmission, which stores every answer as completed, and the frames publishScore
\* sends after it to the event's topic: only a right answer is told to be completed.
\* Points do not follow from being right: a rest earns none, half a grid some.
Answer(h, correct, points) ==
  /\ owes[h] = <<>> /\ stored.done < Library
  /\ stored' = [stored EXCEPT !.total = @ + points, !.done = @ + 1,
                              !.right = IF correct THEN @ + 1 ELSE @]
  /\ owes' = [owes EXCEPT ![h] =
       IF correct THEN <<ScoreDelta(stored.total + points), TaskCompleted>>
       ELSE <<ScoreDelta(stored.total + points)>>]
  /\ UNCHANGED <<link, wire, query, cache, page>>

\* Raise and Resolve: the row, then its frame.  (The loser of two Resolves at once tells
\* the same again: RallyAlerts has it.)
Alert(h, a, from, to) ==
  /\ owes[h] = <<>> /\ stored.stage[a] = from
  /\ stored' = [stored EXCEPT !.stage[a] = to]
  /\ owes' = [owes EXCEPT ![h] = <<AlertFrame(a, to = "open")>>]
  /\ UNCHANGED <<link, wire, query, cache, page>>

\* Broadcast drops what nobody listens to, and what a full buffer has no room for.
Heard == link.subscribed /\ Len(wire) < Capacity
Broadcast(h) ==
  /\ owes[h] # <<>>
  /\ owes' = [owes EXCEPT ![h] = Tail(@)]
  /\ wire' = IF Heard THEN Append(wire, Head(owes[h])) ELSE wire
  /\ UNCHANGED <<stored, link, query, cache, page>>

\* The request fails after its row is stored (the vehicle's status or code, a
\* cancelled context) and tells nobody.
Fail(h) ==
  /\ owes[h] # <<>>
  /\ owes' = [owes EXCEPT ![h] = <<>>]
  /\ UNCHANGED <<stored, link, wire, query, cache, page>>

\* MonitorSnapshot: ProgressOf, then OpenAlertCountOf.
ReadProgress ==
  /\ query.pc = "asked"
  /\ query' = [query EXCEPT !.pc = "progress", !.total = stored.total, !.done = stored.done]
  /\ UNCHANGED <<stored, owes, link, wire, cache, page>>
ReadOpenAlerts ==
  /\ query.pc = "progress"
  /\ query' = [query EXCEPT !.pc = "answered", !.open = Cardinality(OpenAlerts)]
  /\ UNCHANGED <<stored, owes, link, wire, cache, page>>

-----------------------------------------------------------------------------
(* The socket *)

Connect ==
  /\ ~link.accepted
  /\ link' = [link EXCEPT !.accepted = TRUE]
  /\ UNCHANGED <<stored, owes, wire, query, cache, page>>

\* ServeWS subscribes after the handshake, so the page may hear of it before.
Subscribe ==
  /\ link.accepted /\ ~link.subscribed
  /\ link' = [link EXCEPT !.subscribed = TRUE]
  /\ UNCHANGED <<stored, owes, wire, query, cache, page>>

\* onopen: not the first time, the snapshot is fetched again.  refetch drops a request
\* under way, but for the first load, which it joins.
RefetchedNever(again) == query
Refetched(again) == IF again /\ (cache # None \/ query.pc = "idle") THEN Request ELSE query
OnOpen ==
  /\ link.accepted /\ ~link.connected
  /\ link' = [link EXCEPT !.connected = TRUE, !.before = TRUE]
  /\ query' = Refetched(link.before)
  /\ UNCHANGED <<stored, owes, wire, cache, page>>

\* The connection breaks, and what was under way is gone; scheduleRetry.
Drop ==
  /\ link.accepted
  /\ link' = [NoLink EXCEPT !.before = link.before]
  /\ wire' = <<>>
  /\ UNCHANGED <<stored, owes, query, cache, page>>

-----------------------------------------------------------------------------
(* The page *)

\* fromSnapshot.  The query keeps the old object when the new one is equal in all its
\* fields, also those left out here, and the page is then not reset.
FromSnapshot(q) ==
  [total |-> q.total, done |-> q.done, size |-> Size, alerts |-> Unheard, openAlerts |-> q.open]
Respond ==
  /\ query.pc = "answered"
  /\ query' = NoQuery
  /\ cache' = query
  /\ \/ page' = FromSnapshot(query)
     \/ cache = query /\ page' = page
  /\ UNCHANGED <<stored, owes, link, wire>>

\* The request failed as often as it is retried: what is shown stays.
GiveUp ==
  /\ query.pc # "idle"
  /\ query' = NoQuery
  /\ UNCHANGED <<stored, owes, link, wire, cache, page>>

\* countOpen: the badge moves when the alert does, and an alert the page has not
\* heard of moves it only by being open.
CountOpenOfKnown(f) ==
  CASE f.open /\ page.alerts[f.id] = "resolved" -> page.openAlerts + 1
    [] ~f.open /\ page.alerts[f.id] = "open" /\ page.openAlerts > 0 -> page.openAlerts - 1
    [] OTHER -> page.openAlerts
CountOpen(f) ==
  CASE f.open /\ page.alerts[f.id] # "open" -> page.openAlerts + 1
    [] ~f.open /\ page.alerts[f.id] = "open" /\ page.openAlerts > 0 -> page.openAlerts - 1
    [] OTHER -> page.openAlerts

\* monitorReducer.  A car no snapshot has mentioned is adopted, without a route to
\* count against; a count past the route's tasks falls back to them.
Reduced(f) ==
  CASE f.type = "score_delta" -> [page EXCEPT !.total = f.total]
    [] f.type = "task_completed" ->
         [page EXCEPT !.done = IF page.size > 0 /\ @ >= page.size THEN page.size ELSE @ + 1]
    [] f.type = "alert" ->
         [page EXCEPT !.alerts[f.id] = IF f.open THEN "open" ELSE "resolved",
                      !.openAlerts = CountOpen(f)]
OnMessage ==
  /\ link.connected /\ wire # <<>>
  /\ wire' = Tail(wire)
  /\ page' = Reduced(Head(wire))
  /\ UNCHANGED <<stored, owes, link, query, cache>>

-----------------------------------------------------------------------------

Next ==
  \/ \E h \in Handlers :
       \/ \E correct \in BOOLEAN, points \in Awards : Answer(h, correct, points)
       \/ \E a \in Alerts : Alert(h, a, "none", "open") \/ Alert(h, a, "open", "resolved")
       \/ Broadcast(h) \/ Fail(h)
  \/ ReadProgress \/ ReadOpenAlerts \/ Respond \/ GiveUp
  \/ Connect \/ Subscribe \/ OnOpen \/ Drop \/ OnMessage

Spec == Init /\ [][Next]_vars

=============================================================================
