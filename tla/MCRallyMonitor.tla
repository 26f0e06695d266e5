--------------------------- MODULE MCRallyMonitor ---------------------------
(***************************************************************************)
(* RallyMonitor for TLC, with what the page cannot know: whether what it   *)
(* shows rests on a snapshot that nothing overtook, and whether it may     *)
(* have missed frames for good.                                            *)
(***************************************************************************)
EXTENDS RallyMonitor, TLC

VARIABLES
  steady,  \* subscribed and quiet ever since the snapshot under way was asked for
  sound,   \* the page was reset by a steady snapshot, and has lost nothing since
  counted, \* the wrong answers that snapshot counts as completed
  owed     \* the page reconnected: no snapshot since, "asked" for one read after that

history == <<steady, sound, counted, owed>>

Quiet == wire = <<>> /\ \A h \in Handlers : owes[h] = <<>>
Scores(h) == \E i \in DOMAIN owes[h] : owes[h][i].type = "score_delta"

\* A reset by another snapshot, a frame nobody got, or two totals told side by side.
Reset == query.pc = "answered" /\ query'.pc = "idle" /\ cache' = query
Missed == \E h \in Handlers : owes'[h] # owes[h] /\ Len(owes'[h]) < Len(owes[h]) /\ wire' = wire
Reconnects == link'.connected /\ ~link.connected /\ link.before /\ cache # None
Crossed == \E g, h \in Handlers : g # h /\ Scores(g)' /\ Scores(h)'

MCInit == Init /\ steady = FALSE /\ sound = FALSE /\ counted = 0 /\ owed = "no"
MCNext ==
  /\ Next
  /\ steady' = /\ link'.subscribed /\ Quiet'
               /\ query'.pc # "idle"
               /\ steady \/ query'.pc = "asked"
  /\ sound' = /\ link'.subscribed /\ ~Missed /\ ~Crossed
              /\ IF Reset THEN steady /\ page' = FromSnapshot(query) ELSE sound
  /\ counted' = IF ~sound' THEN 0 ELSE IF Reset THEN query.done - stored.right ELSE counted
  /\ owed' = IF Reconnects \/ owed = "unasked"
             THEN IF query'.pc = "asked" THEN "asked" ELSE "unasked"
             ELSE IF owed = "asked" /\ query'.pc = "idle" THEN "no" ELSE owed
MCSpec == MCInit /\ [][MCNext]_<<vars, history>>
FairSpec == MCSpec /\ WF_vars(ReadProgress \/ ReadOpenAlerts \/ Respond)

\* More tasks were answered than are on the route, where the page stops counting.
Capped == Size > 0 /\ stored.done > Size

\* "The snapshot is the authority; the socket only moves it on" (MonitorPage): from a
\* snapshot that was fetched while the socket was subscribed and all was quiet, the
\* page keeps up with any number of answers and alerts until a frame is lost or two
\* totals cross.  Once quiet it shows the stored points; of the completed tasks every
\* one that was right and, as wrong answers are told to nobody, those wrong ones only
\* that its snapshot had counted; and its badge counts every open alert.  (It may count
\* too many: an alert it knows only from the snapshot's count goes without a trace.)
KeepsUp ==
  sound /\ Quiet =>
    /\ page.total = stored.total
    /\ page.done <= stored.done
    /\ ~Capped => page.done = stored.right + counted
    /\ page.openAlerts >= Cardinality(OpenAlerts)

\* "Anything broadcast while the socket was down is gone for good" (onReconnect): a
\* page that had loaded and reconnects asks for a snapshot that is read after that,
\* and gets it or sees the request fail, unless the connection breaks again.
CatchesUp == owed # "no" ~> (owed = "no" \/ ~link.connected)

-----------------------------------------------------------------------------
(* The inductive invariant the proof of KeepsUp rests on *)

Frames == {ScoreDelta(n) : n \in Int} \cup {TaskCompleted}
          \cup {AlertFrame(a, o) : a \in Alerts, o \in BOOLEAN}
\* What a handler may still have to tell.
Debts == {<<>>, <<TaskCompleted>>}
         \cup {<<ScoreDelta(n)>> : n \in Int}
         \cup {<<ScoreDelta(n), TaskCompleted>> : n \in Int}
         \cup {<<AlertFrame(a, o)>> : a \in Alerts, o \in BOOLEAN}

MonitorTypes ==
  /\ stored \in [total : Int, done : Nat, right : Nat,
                 stage : [Alerts -> {"none", "open", "resolved"}]]
  /\ stored.right <= stored.done
  /\ owes \in [Handlers -> Debts]
  /\ wire \in Seq(Frames)
  /\ query \in [pc : {"idle", "asked", "progress", "answered"}, total : Int, done : Nat, open : Nat]
  /\ page \in [total : Int, done : Nat, size : {0, Size},
               alerts : [Alerts -> {"unheard", "open", "resolved"}], openAlerts : Nat]

\* Frame f has not reached the page.
Due(f) == (\E h \in Handlers : owes[h] = <<f>>) \/ (\E i \in DOMAIN wire : wire[i] = f)

\* What is said to be resolved is.
ResolvedInv == \A a \in Alerts : Due(AlertFrame(a, FALSE)) => stored.stage[a] = "resolved"

\* A snapshot nothing has overtaken still holds.
SteadyInv ==
  steady =>
    /\ Quiet
    /\ query.pc \in {"progress", "answered"} =>
         query.total = stored.total /\ query.done = stored.done
    /\ query.pc = "answered" => query.open = Cardinality(OpenAlerts)

\* The last total on its way is the stored one; when there is none, the page's is.
TotalInv ==
  /\ \A g, h \in Handlers : Scores(g) /\ Scores(h) => g = h
  /\ \A h \in Handlers : Scores(h) => owes[h][1] = ScoreDelta(stored.total)
  /\ (\A h \in Handlers : ~Scores(h)) =>
       \/ /\ page.total = stored.total
          /\ \A i \in DOMAIN wire : wire[i].type # "score_delta"
       \/ \E i \in DOMAIN wire :
            /\ wire[i] = ScoreDelta(stored.total)
            /\ \A j \in DOMAIN wire : j > i => wire[j].type # "score_delta"

\* The right answers and the wrong ones the snapshot counted are those the page shows
\* and those on their way to it, as long as it has not stopped counting.
DoneOwed == {h \in Handlers : owes[h] # <<>> /\ owes[h][Len(owes[h])] = TaskCompleted}
DoneSent == {i \in DOMAIN wire : wire[i] = TaskCompleted}
Accounted == page.done + Cardinality(DoneOwed) + Cardinality(DoneSent)
DoneInv ==
  /\ page.size = Size /\ counted \in Nat
  /\ stored.right + counted <= stored.done
  /\ Accounted <= stored.right + counted
  /\ ~Capped => Accounted = stored.right + counted

\* The badge counts the alerts the page shows as open and those open ones nobody is
\* about to tell it of.
Counted == {a \in Alerts : \/ page.alerts[a] = "open"
                           \/ a \in OpenAlerts /\ ~Due(AlertFrame(a, TRUE))}
BadgeInv == page.openAlerts >= Cardinality(Counted)

MonitorInv ==
  /\ MonitorTypes /\ ResolvedInv /\ SteadyInv
  /\ sound => TotalInv /\ DoneInv /\ BadgeInv

=============================================================================
