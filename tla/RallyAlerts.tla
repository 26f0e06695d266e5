---------------------------- MODULE RallyAlerts ----------------------------
(***************************************************************************)
(* The problems reported about one car and the health its row shows        *)
(* (backend/internal/alerts, with vehicles.SetStatus).  Organizers and the *)
(* car's phones raise and resolve alerts concurrently; every SQL statement *)
(* of a handler is one action.  The organizer's own edit of the vehicle,   *)
(* which may set any status, is not part of this module.                   *)
(***************************************************************************)
CONSTANTS
  Callers,  \* requests that may be in flight: organizers' browsers and phones
  Alerts,   \* alert ids NewID may return: bounds the alerts raised
  None,     \* no alert
  Faults    \* whether a call can die between two of its statements

ASSUME AlertConstants == None \notin Alerts /\ Faults \in BOOLEAN

VARIABLES
  alert,   \* vehicle_alert: type and state of each row
  status,  \* vehicle.status
  shown,   \* the last frame of each alert the event topic carried
  call     \* each caller's request in flight and its local variables

vars == <<alert, status, shown, call>>

Types == {"breakdown", "device_issue", "other"}
Stages == {"none", "open", "resolved"}
Statuses == {"ok", "breakdown", "device_issue"}
Steps == {"resolve", "reread", "set", "publish"}

\* id and stage are the Alert struct the handler publishes, next the status it
\* has decided on; outcome is the answer to the caller's last request.
Call == [pc : Steps \cup {"idle"}, id : Alerts \cup {None}, stage : Stages,
         next : Statuses, outcome : {"none", "ok", "error"}]

NoCall == [pc |-> "idle", id |-> None, stage |-> "none", next |-> "ok", outcome |-> "none"]

Init ==
  /\ alert = [a \in Alerts |-> [type |-> "other", stage |-> "none"]]
  /\ status = "ok"
  /\ shown = [a \in Alerts |-> "none"]
  /\ call = [c \in Callers |-> NoCall]

-----------------------------------------------------------------------------

\* vehicleStatusFor: an alert of type "other" leaves the car running.
BlockingAll(t) == TRUE
Blocking(t) == t \in {"breakdown", "device_issue"}

OpenAlerts == {a \in Alerts : alert[a].stage = "open"}
OpenTypes == {alert[a].type : a \in OpenAlerts}

\* restoreVehicleStatus: what the open alerts make of the car; a breakdown
\* outranks a device issue.
RestoredAsBreakdown(types) == IF types = {} THEN "ok" ELSE "breakdown"
RestoredIgnoringDevices(types) == IF "breakdown" \in types THEN "breakdown" ELSE "ok"
Restored(types) ==
  CASE "breakdown" \in types -> "breakdown"
    [] "breakdown" \notin types /\ "device_issue" \in types -> "device_issue"
    [] OTHER -> "ok"

Continue(c, r) == call' = [call EXCEPT ![c] = r]
Answer(c, outcome) == Continue(c, [NoCall EXCEPT !.outcome = outcome])
At(c, step) == call[c].pc = step

\* Raise: the insert, after the input checks, which touch nothing.
Raise(c, a, t) ==
  /\ At(c, "idle")
  /\ alert[a].stage = "none"
  /\ alert' = [alert EXCEPT ![a] = [type |-> t, stage |-> "open"]]
  /\ Continue(c, [NoCall EXCEPT
       !.pc = IF Blocking(t) THEN "set" ELSE "publish",
       !.id = a,
       !.stage = "open",
       !.next = IF Blocking(t) THEN t ELSE "ok"])
  /\ UNCHANGED <<status, shown>>

\* Resolve's Get: resolving twice is a no-op.
Resolve(c, a) ==
  /\ At(c, "idle")
  /\ \/ /\ alert[a].stage = "open"
        /\ Continue(c, [NoCall EXCEPT !.pc = "resolve", !.id = a, !.stage = "resolved"])
     \/ /\ alert[a].stage = "resolved"
        /\ Answer(c, "ok")
  /\ UNCHANGED <<alert, status, shown>>

\* repo.Resolve: UPDATE ... WHERE resolved_at IS NULL; a second one finds no
\* row to change and goes on all the same.
ResolveRow(c) ==
  /\ At(c, "resolve")
  /\ alert' = [alert EXCEPT ![call[c].id].stage = "resolved"]
  /\ Continue(c, [call[c] EXCEPT !.pc = "reread"])
  /\ UNCHANGED <<status, shown>>

\* restoreVehicleStatus's OpenTypesOf.
Reread(c) ==
  /\ At(c, "reread")
  /\ Continue(c, [call[c] EXCEPT !.pc = "set", !.next = Restored(OpenTypes)])
  /\ UNCHANGED <<alert, status, shown>>

\* vehicles.SetStatus, from Raise or from restoreVehicleStatus: the row takes
\* the status decided on, whatever has been raised or resolved since.
SetStatus(c) ==
  /\ At(c, "set")
  /\ status' = call[c].next
  /\ Continue(c, [call[c] EXCEPT !.pc = "publish"])
  /\ UNCHANGED <<alert, shown>>

\* publish, and the response.
FrameAsResolved(r) == "resolved"
Frame(r) == r.stage
Publish(c) ==
  /\ At(c, "publish")
  /\ shown' = [shown EXCEPT ![call[c].id] = Frame(call[c])]
  /\ Answer(c, "ok")
  /\ UNCHANGED <<alert, status>>

\* A failing statement or a crash ends the call where it is.
Abort(c) ==
  /\ Faults
  /\ call[c].pc \in Steps
  /\ Answer(c, "error")
  /\ UNCHANGED <<alert, status, shown>>

Step(c) == ResolveRow(c) \/ Reread(c) \/ SetStatus(c) \/ Publish(c)

Request(c) ==
  \E a \in Alerts : Resolve(c, a) \/ \E t \in Types : Raise(c, a, t)

Next == \E c \in Callers : Request(c) \/ Step(c) \/ Abort(c)

Spec == Init /\ [][Next]_vars

-----------------------------------------------------------------------------
(* Properties *)

\* The rows stay within their ENUMs, the locals within the Go types.
TypeOK ==
  /\ alert \in [Alerts -> [type : Types, stage : Stages]]
  /\ status \in Statuses
  /\ shown \in [Alerts -> Stages]
  /\ call \in [Callers -> Call]

Quiet == \A c \in Callers : At(c, "idle")
InTrouble == \E t \in OpenTypes : Blocking(t)

\* The vehicle shows trouble exactly when a blocking alert is open, whenever no
\* call is at work (Raise, restoreVehicleStatus). Calls that overlap or fail
\* break it; MCRallyAlerts says when it holds.
TroubleAgrees == Quiet => (status # "ok" <=> InTrouble)

\* No frame runs ahead of the database, and no alert reopens: what the monitor
\* was last told of an alert is its state or an earlier one, whichever calls
\* race or die halfway (Raise, Resolve, publish).
ShownWasStored ==
  \A a \in Alerts :
    \/ shown[a] = "none"
    \/ shown[a] = "open" /\ alert[a].stage # "none"
    \/ shown[a] = "resolved" /\ alert[a].stage = "resolved"

Reported(s) ==
  s # "ok" => \E a \in Alerts : alert[a].stage # "none" /\ alert[a].type = s

\* No car is shown in a kind of trouble nobody ever reported, whatever stale
\* status a slow call writes (SetStatus, restoreVehicleStatus).
TroubleWasReported == Reported(status)

-----------------------------------------------------------------------------
(* The inductive invariant the proofs rest on *)

\* A call at work is about a stored alert, and what it will publish of that
\* alert is stored by the time it gets there.
Backed(r) ==
  /\ r.pc # "idle" => r.id \in Alerts
  /\ r.pc = "resolve" => r.stage = "resolved" /\ alert[r.id].stage # "none"
  /\ r.pc \in {"reread", "set", "publish"} =>
       \/ r.stage = "open" /\ alert[r.id].stage # "none"
       \/ r.stage = "resolved" /\ alert[r.id].stage = "resolved"

AlertInv == TypeOK /\ ShownWasStored /\ \A c \in Callers : Backed(call[c])

\* What a call has decided to write was reported too, be it minutes ago.
TroubleInv ==
  /\ Reported(status)
  /\ \A c \in Callers : At(c, "set") => Reported(call[c].next)

=============================================================================
