--------------------------- MODULE MCRallyAlerts ---------------------------
(* Small instances of RallyAlerts for TLC: callers and alerts are          *)
(* interchangeable, and a history variable remembers whether the calls     *)
(* have come one at a time and all run to their end, the case the package  *)
(* promises most for.                                                      *)
EXTENDS RallyAlerts, TLC

VARIABLE calm    \* no two calls have overlapped and none has failed

CallersAndAlerts == Permutations(Callers) \cup Permutations(Alerts)

OneAtATime == \A c, d \in Callers : c = d \/ At(c, "idle") \/ At(d, "idle")

MCInit == Init /\ calm = TRUE
MCNext ==
  /\ Next
  /\ calm' = /\ calm
             /\ OneAtATime'
             /\ ~\E c \in Callers : call'[c].outcome = "error"

MCSpec == MCInit /\ [][MCNext]_<<vars, calm>>

\* "The dashboard, the live monitor, and the alert list always agree about which
\* cars are in trouble" (package alerts): after any series of calls that came one
\* at a time, the vehicle shows trouble exactly when a blocking alert is open,
\* and the monitor shows each alert as it is stored (Raise, Resolve, publish).
CalmAgrees ==
  calm /\ Quiet =>
    /\ TroubleAgrees
    /\ \A a \in Alerts : shown[a] = alert[a].stage

-----------------------------------------------------------------------------
(* The inductive invariant the proof of CalmAgrees rests on *)

\* The one call at work owes the monitor the alert it is about, as it is stored,
\* and the vehicle its status from the row it changed until SetStatus.
Owing(c) == call[c].pc \in {"reread", "set", "publish"}
CalmInv ==
  calm =>
    /\ OneAtATime
    /\ \A c \in Callers : Owing(c) => call[c].stage = alert[call[c].id].stage
    /\ \A a \in Alerts :
         shown[a] = alert[a].stage \/ \E c \in Callers : Owing(c) /\ call[c].id = a
    /\ (status # "ok" <=> InTrouble) \/ \E c \in Callers : call[c].pc \in {"reread", "set"}
    /\ \A c \in Callers : At(c, "set") => (call[c].next # "ok" <=> InTrouble)

=============================================================================
