# Rally: models, checks and proofs

TLA+ models of the WSO2 Motor Rally service (`src/`): a Go backend over MySQL
with a WebSocket hub, an organizer web app and the scaffold of an in-car micro
app. The models are about what tests hardly reach: several phones of one car,
and several organizers, whose HTTP handlers interleave statement by statement
in the database; handlers that die between two of their statements; frames that
are lost or overtaken on their way to a screen.

## 1. The system

| Part | State | Operations | Hard behaviour | What makes it correct |
|---|---|---|---|---|
| `sessions` | `team_session`, `session_device`, `session_waypoint_visit`, `task_submission`, `voucher`; a team token per phone | `Join`, `Ping`, `Finish`, `SubmitTask`, `RaiseCrewAlert`, reads | up to four phones of a car race on one row; read-modify-write of whole rows; first answer wins; edge-triggered boundaries; `finish` writes in three steps | the crew shares one run; a boundary begins once; points are backed by stored answers; arrival implies a voucher; a finished run is over |
| `alerts` | `vehicle_alert`, `vehicle.status` | `Raise`, `Resolve` | the status is derived from rows read earlier | list, status and monitor agree; nothing is shown that was never reported |
| `vehicles` | `vehicle`, `crew_member` | `Create`, `Update`, `Delete`, `SetStatus`, CSV import and export | `Update` reads, edits and writes the row and replaces the crew, which cascades into `session_device`; a sheet comes back edited | a re-typed roster never deletes a score; a crew is one list; sheet and form obey the same rules |
| `routes` | `route`, `waypoint`, `waypoint_task` | add, update, delete, reorder, attach | positions are computed from a count read earlier | the order is 0..n-1 without holes or ties |
| `events` | `event` | `Create`, `Update`, `Publish` | whole-row write-back races `Publish` | nothing opens to crews before both geofences are placed |
| `tasks`, `taskengine` | `task`; none | library CRUD; one scoring function per type | rounding, negative and unbounded inputs; retuning while cars answer | awards stay within the task's points; nearer is never worse |
| `scoring` | none | `Rank`, `Leaderboard`, `MonitorSnapshot` | ties, runs without a finish time | competition ranking |
| `realtime` hub | subscribers per topic, bounded buffers | `Subscribe`, `Broadcast`, unsubscribe, `ServeWS` | slow readers lose frames; unsubscribe races broadcast | no send on a closed channel; nobody blocks; order kept per subscriber |
| `cmd/server` | none | broadcasters, WebSocket handler, routing | a leaderboard is recomputed after every score | a leaderboard with every score follows |
| `middleware`, `authz` | none | token checks | two kinds of token in two places of a request | a team token acts on its own session |
| web app monitor | snapshot moved on by frames | fold, reconnect, refetch | frames lost, late or duplicated around a snapshot | shows what is stored once things are quiet |
| `debrief`, `geo`, `config`, `httpx`, `apperr`, API documents, other web pages, micro app | little or none | CRUD, helpers | none | not modelled |

How they interact: handlers share nothing but MySQL and the hub. `sessions`
calls `alerts.Raise`; `alerts` calls `vehicles.SetStatus`; both broadcast to
topics (`event:<id>` for organizers, `session:<id>` for a car) through functions
wired in `cmd/server/realtime.go`. Every repository call is an autocommit
statement except the few that use `store.InTx`. An organizer's page reads a
snapshot over REST and then listens to the event's topic.

## 2. Modules

| Module | What it is |
|---|---|
| `RallyLedger` | abstract: what a run writes once (answers, visits, vouchers) and in which order the crew is told |
| `RallySession` | one car's run, all its phones; implements `RallyLedger` |
| `RallyAlerts` | one car's alerts, its status and the alert frames |
| `RallyRoster` | the fleet: organizers' edits and deletes against a joining, answering crew and alerts |
| `RallySheet` | the fleet as a spreadsheet: parsing, the rules of the form, export, import |
| `RallyRoutes` | the course: organizers' edits against each other and against a driving car |
| `RallyEvents` | setup, publish, and what a published event opens: runs, tokens, ciphers, topics |
| `RallyAccess` | whom a credential names and what each door lets through (operators, used by `RallyEvents`) |
| `RallyTaskEngine` | the validator of every task type (operators, used by `RallyScoreboard`) |
| `RallyScoreboard` | the task library, graded answers, finishes, and the ranking of the runs |
| `RallyChannel` | abstract: the lossy ordered channel each live view may rely on |
| `RallyHub` | topics, goroutines, the lock, buffers, the broadcaster; implements `RallyChannel` |
| `RallyMonitor` | one organizer's page: snapshot query, socket, reducer, over that channel |
| `MC...` | the instance, symmetry and history variables TLC uses for the module of that name (`MCRallyCalm`: `RallySession` with a history of overlaps) |
| `Rally..._proofs` | the theorems about the module of that name: `Session` (over `MCRallyCalm`), `Alerts`, `Roster` (which also holds those about `RallySheet`, of the same Go package), `Events`, `Routes`, `Scoreboard`, `Hub`, `Monitor` |

One action is one autocommit statement or one transaction; what a handler has
read and still holds is in its record (`call`, `edit`, `join`, `query`). Reads
before the first write are merged when nobody changes the rows they touch in that
module. A request refused before it writes changes nothing and mostly has no
action. No module stands alone for the whole system: where two meet, the one
that studies the meeting repeats the part of the other it needs.

### RallySession

A phone (`Phones`) has at most one request in flight. `call[p]` is the handler's
program counter and local variables, above all `held`, the `Session` struct that
`Ping` and `Finish` read, edit and finally write back whole. Two calls of one
device are two members of `Phones`.

| Code | Actions |
|---|---|
| `Join`, `liveOrNewSession`, `CreateSession`, `UpsertDevice` | `JoinStart`, `JoinFind`, `JoinCreate`, `JoinRefind`, `JoinDevice` |
| `Ping`: reads, `isPlausibleMove`, `EvaluatePing` | `PingStart` |
| `ClaimWaypointVisits`, one insert per boundary | `PingClaim` |
| `UpdateSession` | `UpdateSession` |
| `Finish`, `finish`, `issueVoucher` | `FinishStart`, `UpdateSession`, `IssueVoucher` |
| arrival broadcast, `broadcastSessionEvents` | `Announce` |
| `SubmitTask`, `requireUnlocked`, `Validate` | `SubmitStart` |
| `SaveSubmission` (one transaction) | `SaveSubmission` |
| `publishScore` | `PublishScore` |
| a statement fails, the request is cancelled, the server dies | `Abort` |

- **Score.** `total_score` is `SUM(awarded_points)`. The model keeps the *set* of
  tasks the stored number includes: two numbers computed from different answers
  are then different whatever the points are.
- **Position.** A place stands for a position; `Inside` says in which circles it
  lies, `FinishPlaces` which lie in the finish geofence. Whether a new place is a
  plausible move depends on the clock, so both verdicts are possible except where
  the code leaves no choice (first fix, no distance).
- **Time.** `bound_at`, `started_at`, `finished_at`, `last_ping_at` are left out.
- **Constants during a run.** The event is active, the crew on the roster, the
  route and the tasks do not change: `RallyEvents`, `RallyRoster`, `RallyRoutes`
  and `RallyScoreboard` are where they do.
- **Merged statements.** `issueVoucher`'s check and insert are one step, since both
  outcomes leave one voucher. The broadcasts at the end of `Ping` are one step.
  `SaveSubmission` is one step: its sub-select locks the rows it sums.
- **`Sessions`** bounds the runs of the car; when none is left, the insert fails
  as a failing statement does.
- **Left out.** `TouchDevice`, logging, and the pure reads.

### RallyAlerts

`Raise` inserts (`Raise`), sets the status when the type is blocking
(`SetStatus`) and broadcasts (`Publish`). `Resolve` reads (`Resolve`), closes
the row (`ResolveRow`), lists the open alerts (`Reread`), sets the status and
broadcasts. What an organizer's own edit does to the status is in `RallyRoster`.

### RallyRoster and RallySheet

`RallyRoster` has the rows that hang together by foreign keys: `vehicle`,
`crew_member`, `session_device`, `task_submission`. An `Update` is `EditStart`
(read the vehicle), `EditCrew` (read its crew), `EditWrite` (the transaction that
writes the row back and replaces the crew; `Unattributed` is what the keys do);
a `Delete` is `DeleteStart`, `DeleteCheck` (`HasRun`), `DeleteRow` (the statement
with the anti-join). Against them run a phone's `Join` in four steps and its
`Submit`, and the `SetStatus` of an alert. A crew member is an address and a
generation, so a re-typed person is a new row; `Generations` bounds how often.

`RallySheet` treats a text as the sequence of its words and separators, because
the point of the CSV is what colons, pipes and blanks inside a name do to it.
`Import` is `parseCSV`, the rows to cars, `buildVehicle` and `CreateMany` in the
order of the code, so that a refusal at any stage stores nothing. `Export` lists the
cars `ORDER BY code` (`Listings`) and each crew by name (`ByName`), in any order where
names are equal; `SplitN` and `Join` are those of Go's `strings`, `Entries` and `Parts`
the two splits of `splitCrew`. `SoundMember` is one turn of `buildCrew`'s loop,
with the role it checks; a role the form leaves out is a node's before that. `Resave`
and `TypeRow` are what a spreadsheet program and its user do.

### RallyRoutes

`AddWaypoint` reads the route and its count and inserts later; `ReorderWaypoints`
checks the permutation before its transaction; `DeleteWaypoint` removes and
renumbers in one. A car's `Ping` reads the course, claims and writes back across
those edits. The history variable `clean` turns false when an add or a reorder lands
that had read the course before another edit changed it.

### RallyEvents and RallyAccess

`Update` and `Publish` read the row (`UpdateStart`, `PublishStart`) and write it
whole (`UpdateWrite`, `PublishWrite`). `Join` reads the status, then finds or
makes a run, then mints a token. What a request may do is decided by
`RallyAccess`, from its credentials: a header, a list of subprotocols, or both. A
token stands for one whose signature holds; `Expire` ends it.

### RallyScoreboard and RallyTaskEngine

`Submit` grades with the task it read, `Save` stores the award and the sum;
`UpdateStart`/`UpdateWrite` retune the task in between; `FinishStart`/`FinishWrite`
write back the row they read, with a clock of `MaxTime` ticks. `Leaderboard`,
`Compare` and `Rank` are `scoring.go`; `Leaderboard` is any list sorted by `Compare`,
as `slices.SortFunc` promises no more about runs that tie. `Validate` gives the *set*
of results of a submission: where the code rounds a product of a measured quality and
the points, the two neighbours of half a point are both results, since the float may
fall on either side; a quality of nothing or of everything has one result.

### RallyHub and RallyChannel

A critical section of the writer lock is one action; a broadcast takes the
reader lock (`RLock`), offers to one view after another (`Send`), and leaves
(`RUnlock`). After a score the broadcaster reads the standings (`Query`, or
`QueryFails` at its timeout) and broadcasts them. `HangUp` covers pings and writes
that time out, which may take a frame with them. The refinement mapping of
`ChannelSpec` makes a view open while it is served, a frame in sending while its
handler holds it, and over when it has returned.

### RallyMonitor

`stored` is the database and `owes` what handlers have still to broadcast, so frames
of two handlers may cross. An answer is stored as completed whether right or wrong,
its points are any of `Awards`, and only a right one owes a `task_completed`;
`stored.right`, which no column holds, counts those. A car may answer any task of the
event (`Library`), while the page counts against its route (`Size`). `wire` is the
buffer of one `RallyChannel` subscriber. The page's `Connect`, `OnOpen`, `Drop`,
`OnMessage` and its query (`ReadProgress`, `ReadOpenAlerts`, `Respond`, `GiveUp`) are
events of one browser tab. The server accepts a connection before it subscribes it,
so the page may refetch too early. A retried request has read nothing yet and counts
as still asked. Left out: positions and the car's status, the length of the alert
strip (a listed alert is never forgotten here), the second frame of a double
`Resolve`, and the choice of another event.

## 3. Runs

`Faults` says whether a call can die between two statements. Deadlock is checked
except in `hub` (its frames run out) and `scoreboard` (every run over).

| Run | Instance | Shows |
|---|---|---|
| `session_join` | 2 phones, 2 runs, 1 task, no waypoints, every fix plausible, faults | types; the crew is not split over two runs; no credit without an answer |
| `session_race` | 2 phones, 1 run, 1 sensor task, 2 overlapping waypoints, 3 places, both verdicts of the plausibility check, faults | a boundary begins once; the invariant of the proofs, and in it that the voucher comes before the arrival; refinement of `RallyLedger`; and while phones take turns, exact totals and finished runs that stay finished |
| `session_live` | 2 phones, 2 runs, 1 waypoint, fairness | finished runs get vouchers, claimed boundaries are announced; at no moment is what a run owes its crew out of every call's hands |
| `alerts` | 2 callers, 3 alerts, faults | no frame ahead of the database, no unreported trouble; one call at a time: status, list and monitor agree |
| `roster_race` | 2 organizers, 1 car, 2 people, 1 phone | runs and answers survive; phones and winners are on the car's list; the list is one that was typed; only an alert, an edit that says so or an overtaken one changes the status |
| `routes` | 2 organizers, 3 waypoints, a car, faults | dense order unless an outdated write landed, and again after a delete; only a reorder reorders; the car is shown where it has been |
| `events` | 2 organizers (one also crew), 2 cars, 2 runs, 1 screen, tokens with odd claims | nothing opens before a publish with both pins; a runnable event stops being so only by a lifted pin or an overtaking edit; nobody hears or ends another car's run |
| `hub` | 1 view, 2 topics, 2 handlers, buffer of 2, 4 frames, fairness | no send on a closed channel; a leaderboard with every score; no broadcast blocks; refinement of `RallyChannel` |
| `scoreboard` | 3 runs, 1 task of any type, right, near and wrong payloads, 2 requests, a retune | fair awards, competition ranking, no setback |
| `sheet` | 2 events, 5 forms, a sheet with every kind of mistake | one set of rules for form and sheet; an untouched export comes back |
| `monitor` | 2 handlers, a car of 2 tasks, 1 alert, buffer of 2, fairness | from a snapshot nothing overtook the page keeps up with points, right answers and open alerts; after a reconnect it asks for a newer one and gets it |
| `claim_total` | the smallest that shows it | a sentence of the code's comments that the code does not keep |

Why the bounds are enough. The races of this code are between two handlers: one
that holds something it read and one that writes. Two phones, callers, organizers
or handlers give every such pair; two runs give a run brought back to life beside a
newer one; two overlapping circles give a claim of two statements with another
phone's claim in between. Calls repeat without bound where they can, since a caller
may call again after every response. Counters that only grow are bounded:
`Sessions`, `Alerts`, `Generations`, `Legs`, `MaxFrames`, `MaxTime`, `MaxRows`. A
buffer of two is filled, so frames are lost as well as delivered late. Three runs on
the board give a tie in the middle of a ranking. Three waypoints give a hole that is
not at an end. One view is enough for the hub, since subscribers share only the
topic map and its lock; two handlers give a walk beside a walk, with a waiting
writer. In `session_join` and `session_race`, runs and waypoints are not both
plural: that is beyond minutes of TLC, and what one run does to the boundaries of
another is covered by the theorems, as are more phones, runs, tasks and waypoints.
One alert in `monitor` can be open before the page loads, be raised and be resolved,
which is every case of the badge; that several alerts do not disturb each other is
not exercised there. Its two answers, right or wrong, with a point or without, are both
tasks of the route; a car that answers more than those on its route takes a third
answer, which is beyond minutes of TLC with two answers on the route, and is left to the
theorem.
Safety runs use the symmetry of interchangeable members; liveness runs do not.

Fairness. `net/http` runs a handler it has started to its end, so each phone's
steps of a request in flight are weakly fair in `session_live`, and the goroutines
of the hub (`Serving`, `Casting`) in `hub`. In `monitor` the server's two reads and
the delivery of the response are. Nothing is assumed of people: they need not call,
come, stay or go; `Abort`, `Drop`, `HangUp` and `GiveUp` are never fair.
`session_live` has `Faults = FALSE`, since a handler that dies delivers nothing.
`VisitAnnounced` names the one way left in which an announcement is lost: another
run of the car has started and the live-session index refuses the write that stands
between the claim and the broadcast. `CatchesUp` gives up when the connection breaks
again, which starts the same promise anew, or the request fails.

History variables (`calm`, `overtaken`, `clean`, `launched`, `source`, `lost`,
`steady`, `sound`, `counted`, `owed`) only record; no guard reads them. Those a property needs
with one instance only are in the `MC` module.

## 4. Findings

`claim_total`: "the total recomputed from the stored attempts is monotonic"
(`sessions/repo.go:589`), but a `Ping` writes back the total it read before a
submission was stored, and the car loses those points until its next answer.

Met while modelling, part of the models, and the reason why some properties are
stated with a condition:

- `sessions`. A `Ping` that read the run before the finish writes `active` over
  `finished` (`sessions.go:61`: "the session is over and no longer accepts input").
  An answer checked before the finish is stored after it (`sessions.go:79`: "its
  score is locked"). `finish` that fails after the status leaves a finished run
  without a voucher, and `Finish` is then a no-op (`sessions.go:63`). Two finishes
  race and the later one moves `finished_at`. The loser of the join race can be
  answered `ErrNoLiveSession` (`service.go:249`). Driving back into an earlier
  circle moves `CurrentWaypointID` back (`service.go:412`; "furthest boundary",
  `sessions.go:97`). When any boundary is fresh the tasks of every circle around the
  car are announced again (`service.go:672`). A position filtered out as implausible
  is stored all the same, so a second report from there counts.
- `alerts`. A slow `Resolve` sets `ok` over a newer breakdown (`alerts.go:21`:
  status and list "always agree"). `Resolve` that fails after closing the alert
  leaves the status, and its retry is a no-op (`service.go:119`). A device issue
  raised during a breakdown lowers the status (`service.go:108`).
- `vehicles`. An edit writes back the status it read (`service.go:83`). The form
  accepts colons in names that `csv.go:34` says cannot appear, and the export then
  reads back differently; an export also forgets the origin country, and makes the
  first member by name the navigator. The form accepts a route of another event,
  which an export writes as blank. An import into the exporting event always meets
  its own codes. An export that fails midway has already answered 200.
- `routes`. Two adds, or an add and a delete, make ties or holes in the order.
- `events`. No code writes the status "complete". `Update` lifts a geofence of an active event (`service.go:156`:
  without both "the rally would be unrunnable"; `events.go:49`: "Only setup events
  are editable"), and an edit can overwrite a publish.
- `tasks`, `taskengine`. "A retune can never leave a task the engine cannot score"
  (`tasks/service.go:94`), but only the configuration's being an object is checked: a
  task whose type is changed keeps the keys of its old type and scores with zero
  values. So an unconfigured `INPUT_SELECT`, `SCAN_BARCODE` or `MULTI_SELECT` pays a
  blank answer in full. A rest that was not reached is stored as completed.
- `middleware`. `RequireAdmin` "gates the organizer actions that change an event's shape,
  such as publishing it" (`auth.go:123`), but no route mounts it: those actions take any
  organizer.
- `scoring`. The board lists a row per run, so a car that joined again after
  finishing is listed twice.
- monitor. `done` means "Tasks answered correctly so far" to the page
  (`types/monitor.ts:28`) and every completed submission, right or wrong, to the
  snapshot (`scoring/repo.go:96`, `sessions/submit.go:136`), while `task_completed`
  is broadcast for right answers only (`submit.go:215`). So a page misses every wrong
  answer since its snapshot until the next one, whose count then jumps. A car that
  answers tasks that are not on its route can make a frame lower the count
  (`monitorState.ts:111`). A snapshot read before frames that were already applied
  puts the older values back until the next frame (`MonitorPage.tsx:83`). Frames
  between the first snapshot and the subscription are never seen
  (`useEventSocket.ts:152`). Resolving an alert known only from the snapshot's count
  leaves the badge one too high (`monitorState.ts:171`). No frame changes a car's
  status on the map.

## 5. Proofs

Every theorem holds for all values of the constants that satisfy the named
assumption of its module. TLC evaluates each assumption in the run of that module.

| Module | Assumption | Says |
|---|---|---|
| `RallySession` | `ConstantsAssumption` | where the circles are, that sensor tasks are tasks; any number of phones, runs, tasks, waypoints and places, faults or not |
| `RallyAlerts` | `AlertConstants` | nothing but that `None` is no alert |
| `RallyRoster` | `RosterConstants` | phones are people's, lists are of people, a patch is a patch |
| `RallySheet` | `SheetConstants` | a route has an event and a name; a form and a row have the fields of a car; the two separators differ |
| `RallyEvents` | `EventConstants` | `authz` tells the two issuers apart: nobody's sign-in is a team token |
| `RallyRoutes` | `RoutesConstants` | waypoint ids are finitely many numbers |
| `RallyScoreboard` | `ScoreboardConstants` | finitely many runs and tasks; what is authored is a definition with integral points, a patch has the type's shape |
| `RallyHub` | `HubConstants` | a buffer has room for a frame |
| `RallyMonitor` | `MonitorConstants` | finitely many handlers and alerts, whole points, a buffer with room for a frame |

A property is seldom inductive as it stands, because what goes wrong goes wrong
through what a handler still *holds*. The invariants below therefore speak of the
calls. Each was checked by TLC before it was proved; each is proved by one step per
action, and under it one per conjunct the action can disturb.

### A car's run (`RallySession_proofs`)

`TypeCorrect`, `Invariance` (`IInv`), and from it `CrewIsNotSplit`,
`BoundariesUnlockOnce`, `CreditIsBacked`, `VoucherFirst`, `WaypointIsVisited`,
`SensorsAreEarned`, the action property `OffTheGrid`, the refinement
`KeepsLedger` (`Spec => LedgerSpec`), and `NothingIsForgotten`. `IInv` has these parts:

- `TypeInv`: types, and a request past its first read knows its session and task;
- `OneLive`: one live row per vehicle. `CrewNotSplit` follows: it is about tokens,
  which outlive the runs they name;
- `EdgeInv`: a fresh boundary is visited, not yet announced and fresh to one call
  only, and everything announced is visited;
- `CreditInv`: every copy of a total in a call counts stored answers only.
  Answers are never removed, so a stale copy stays sound though not complete,
  which is why `NeverOverCredited` holds and `TotalNeverDrops` does not;
- `VoucherInv`: a call about to announce an arrival has its voucher;
- `GridInv`: a bound row has no fix, so the first ping always starts the run and
  no call holds a bound row it would write back;
- `PlaceInv`: a call that will write a waypoint has claimed it or is about to, and
  one that will store a sensor task's answer belongs to a car with a visit row.
  Visit rows are never removed, so a stale copy of a waypoint stays true, even
  when it is no longer the latest.

`KeepsLedger` maps the steps of `Join`, `PingStart`, `UpdateSession`, `PublishScore`,
`Abort` and `Return` to stutters, `PingClaim` to `Cross` or a stutter,
`SaveSubmission` to `Win` or a stutter, `IssueVoucher` to `Issue` or a stutter
and `Announce` to `Tell`.

`NothingIsForgotten` (`NothingForgotten`) is the safety part of the two liveness
promises of `session_live`: where no statement fails, a finished run without a voucher,
or without its announcement, is in the hands of a call on its way to it, and so is a
claimed boundary of a car on its only run. `Carried` adds to `IInv` that the boundaries
a call holds are those around the fix it read, and that only a call that finishes the
run writes it finished; a second run of the car is the one way out, since its
live-session index refuses the write between the claim and the announcement.

`CalmTotalsAreExact` and `CalmFinishStands` are about the histories in which the
phones of a car take turns (`MCSpec` of `MCRallyCalm`, whose steps are steps of
`Spec`, so that `IInv` may be used). They say that the divergences of section 4 need
an overlap: `CalmInv` adds to `IInv` that at most one call is at work, that what it
holds is the row as stored (`Alone`), and, calm or not, that an answer and a token
belong to a run that was created (`MadeInv`).

### Alerts (`RallyAlerts_proofs`)

`AlertTypes`, `NoFrameAhead` from `AlertInv` (a call at work is about a stored alert
whose state it will publish is already stored). `NoTroubleMadeUp` needs
`TroubleInv`: not only the status, but also the status a `Resolve` has computed and
not yet written was reported; rows keep their type, so a list read long ago still
names types that were raised. `CalmCallsAgree` is "the two always agree"
(`alerts.go:21`) for calls that come one at a time: `CalmInv` says for every point of
the one call which of row, status and frame it still owes.

### The fleet (`RallyRoster_proofs`)

`RosterTypes`; `PhonesAreCrew` from `RosterInv`: a token, and a join between its
statements, names a car and a row of that car's list, current or gone (`Named`), and
an answer belongs to a run (`OfRuns`). `ScoresOutliveRosters` (`ResultsSurvive`) is the
action property of a re-typed roster: the cascade reaches devices and sets an answer's
author to null, and the delete's own anti-join keeps a car with a run, whatever
`DeleteCheck` had seen. `CrewsAreTyped` needs `CrewInv`: an edit's list and the crew it
read are one list each, since they are written back together with a row that may have
been read before. `AlertsStatusStands` (over `MCSpec`, with the history `overtaken`)
needs `StatusInv`: unless it was overtaken, an edit holds the status as stored.

`NoWayRoundTheRules` (`OneSetOfRules`): whatever was typed, exported, resaved and
imported, the stored fleet obeys `buildVehicle`'s rules. `SheetInv` adds that fleets
and sheet are finite and hold things with a car's fields. The form's and the import's
rules are about lists, the theorem about the stored sets: `SoundAdded` carries the one
to the other for a batch that shares no code with the fleet.

`ExportsComeBack` (`ComesBack`) says that an export nobody touched can be imported, for
any number of cars and members and texts of any length. `Untouched`, in `SheetInv`, keeps
the rows tied to the cars they were written for. The rest is about texts: `Climb` is an
induction up to a bound, from the well-foundedness of the numbers; `Recursion` gives the
function a recursive definition names, so that `JoinBy`, `SplitBy` and `EntriesBy` may
unfold `Join`, `SplitN` and `Entries`; `SplitAppend` reads a text word by word; and
`SplitJoin` says that splitting undoes joining when only the last part, if any, holds
the separator and the limit is its number. `EntryParts`, `FieldEntries`, `CrewReadBack`
and `CarReadBack` apply it to a member, a crew and a car. Without the condition `Plain`
it is false, as section 4 says.

### Events and access (`RallyEvents_proofs`)

`EventTypes`, `PublishComesFirst`, `CrewsWatchThemselves` and the action property
`PublishStands`. `EventInv` adds that every token in a wallet was minted for its holder
and a run of a car that lists them (`Joined`, of a join between its steps too), and
that a join under way has seen a launched event, an edit under way writes `active` only
over one, and a publish writes a row with both pins (`Asked`). The lemmas about
`RallyAccess` (`OwnToken`, `LoginIsNoPhone`, `TeamTokenIsPhone`, `SenderKnown`) say whom
each door takes a request for, for any claims in any place of the request.

### The course (`RallyRoutes_proofs`)

`RouteTypes`; `CarStaysOnCourse` from `RouteInv`: the waypoint a `Ping` holds was visited,
is about to be claimed, or is deleted (`Claimed`). `SequenceIsDense` needs `DenseInv`: a
call that was not overtaken has the right count, or a permutation of the legs there are
(`UpToDate`). Its lemmas `RankIsDense`, `PositionIsDense` and `PermutationIsDense` say
that renumbering after a delete, adding at the end, and numbering by a permutation each
give 0..n-1. `LegsKeepOrder`: the renumbering of a delete preserves the order.

### Scores and ranks (`RallyScoreboard_proofs`)

`ScoreTypes` and `AwardsStayFair` from `ScoreInv`: library, patches under way, stored
answers and answers about to be stored are all valid, resp. earned by some definition
that was in the library; it is about awards as they were graded, not about the task as
it is now. `AwardBounds` and `NearerEarnsMore` are the lemmas on `Validate`, for any
points, ranges and payloads and either side of each half; the arithmetic is in
`ScaleBounds` and `ScaleGrows`. `TotalIsNumber` is a sum whatever is stored.
`BoardIsCompetition` (`BoardIsRanked`): `BoardExists` shows that a list sorted by
`Compare` exists for any finite number of runs, `RankCounts` that `Rank` gives one more
than the number of runs that did better. `NobodyFallsBehind` (`NoSetback`) follows from
ranks being counts.

### The hub (`RallyHub_proofs`)

`HubTypes`, `ChannelsOutliveWalks`, `StandingsFollow` and the refinement `HubIsChannel`
(`Spec => ChannelSpec`). `HubInv` adds that a registered view is served or about to
unsubscribe (`Registered`), that a broadcast under way has a frame of its own and only
views before it that cannot leave while it walks (`Walking`), and that a frame still to
be offered to a view has not come to it (`Once`). `StandingsInv` says who owes the next
leaderboard: a handler that broadcasts a score, one about to read the standings, or one
that has read them with every score. In the refinement a subscription maps to `Open`,
a broadcast's beginning and end to `Call` and `Return`, an offer to `Accept` or, when the
buffer is full, a stutter, a write to `Deliver`, a hang-up to `Leave`, and what only moves
the lock, the standings or the topic map to stutters.

### The monitor (`RallyMonitor_proofs`)

`MonitorHolds` and `PageKeepsUp`, over `MCSpec` with its histories `steady`, `sound`
and `counted`.
`MonitorInv` is the accounting behind the page:

- `ResolvedInv`: a frame on its way that says resolved is about a resolved row;
- `SteadyInv`: a snapshot nothing overtook is what is stored;
- `TotalInv`: at most one handler owes a total, it is the stored one, and if none
  does the last total on the wire is, or with none there the page's own;
- `DoneInv`: the completed tasks the page shows, those on the wire and those owed make
  up the right answers and the wrong ones the snapshot counted; once more tasks than
  the route's are stored (`Capped`) they are no more than that;
- `BadgeInv`: the badge is at least the alerts shown open and the open ones nobody is
  about to tell of.

The last three hold while the page is `sound`: it was reset by such a snapshot, and
since then no frame was lost and no two totals crossed.

### Only model-checked

- `FinishedGetsVoucher`, `VisitAnnounced` (`session_live`), `BroadcastReturns` (`hub`) and
  `CatchesUp` (`monitor`): liveness under fairness; the prover has no `ENABLED`.
- `TotalNeverDrops` (`claim_total`) is false.

Every other property of a run is a theorem. That the assumptions are the code's is
read from the code; that the models are is not proved.

## 6. Plan

1. A refinement of what the monitor needs of the socket: `RallyMonitor`'s wire as a
   view of `RallyChannel`, so that `HubIsChannel` and `PageKeepsUp` meet in one theorem.
   The monitor's frames carry values and the channel's are told apart by number, so
   the wire would need numbers as a history.
2. The liveness promises themselves, when the prover has `ENABLED`: their safety parts
   are `NothingIsForgotten` for a run and `PageKeepsUp` for the page.

## 7. Not modelled

- `geo`: trigonometry on floats; only which circles a position lies in matters to
  the rest, and that is a constant of `RallySession`. For the same reason the
  plausibility filter has no distances or clock; both of its verdicts are tried.
- `debrief`: an insert and a list of links nothing else reads.
- `config`, `httpx`, `apperr`, handlers' decoding and response shapes, the API
  documents: parsing and layout, no state several actors share. Whom a handler acts
  for is in `RallyAccess` and `RallyEvents`.
- `tasks.Redact`: a function on JSON whose result nothing else reads.
- `vehicles.Search`, listings and counts: reads that decide nothing.
- The other pages of the web app: forms and tables over REST in one tab. The micro
  app: a theme and an empty page.
- Start-up, migrations and shutdown: I/O. The tables, unique indexes, foreign keys
  and transactions are in the modules that use them.
