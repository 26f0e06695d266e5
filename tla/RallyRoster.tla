---------------------------- MODULE RallyRoster ----------------------------
(***************************************************************************)
(* The fleet and its crews (backend/internal/vehicles) while organizers    *)
(* edit them and crews drive: vehicle and crew_member, and the rows that   *)
(* hang off them by foreign keys, team_session, session_device and         *)
(* task_submission.  An organizer's Update and Delete, and a phone's Join, *)
(* are one action per statement or transaction; what a handler has read is *)
(* in its record.  A car has at most one run here, named by the car: how   *)
(* phones agree on it is RallySession's subject.  A request refused before *)
(* it has read or written anything changes nothing and has no action.      *)
(***************************************************************************)
EXTENDS Naturals, Sequences, SequencesExt

CONSTANTS
  Organizers,   \* organizers' requests that may be in flight
  People,       \* crew members by e-mail address
  Phones,       \* those of them whose phone joins
  Vehicles,     \* vehicle ids
  Codes,        \* organizer-facing vehicle codes
  Generations,  \* ids that one person's place in one car may have at once
  Tasks,
  Lists,        \* the crew lists an organizer may type
  Patches,      \* the edits an organizer may send: code, status and list
  Reports,      \* the statuses alerts may set
  None,         \* no row, no id
  Nobody,       \* crew_member_id IS NULL in a stored answer
  Keep          \* a field the PATCH leaves out

\* A crew_member id: the car and the e-mail it was made for, which no statement
\* changes, and a number, since every insert takes a new id.
Members == Vehicles \X People \X (1..Generations)
Statuses == {"ok", "breakdown", "device_issue"}

ASSUME RosterConstants ==
  /\ Phones \subseteq People
  /\ Generations \in Nat \ {0}
  /\ Lists \subseteq Seq(People)
  /\ None \notin Vehicles \cup Codes \cup Members
  /\ Nobody \notin Members \cup {None}
  /\ Keep \notin Codes \cup Lists \cup Statuses
  /\ Reports \subseteq Statuses
  /\ Patches \subseteq [code : Codes \cup {Keep}, status : Statuses \cup {Keep},
                        list : Lists \cup {Keep}]

VARIABLES
  vehicle,  \* vehicle rows; code None where there is no row
  crew,     \* the ids of the crew_member rows
  run,      \* the vehicles that have a team_session row
  device,   \* session_device: pairs <<vehicle, member>>
  answer,   \* task_submission: who answered each task of each run
  token,    \* the run and the member each phone's team token names
  edit,     \* each organizer's request in flight
  join      \* each phone's Join in flight

vars == <<vehicle, crew, run, device, answer, token, edit, join>>

NoCar == [code |-> None, status |-> "ok"]
NoToken == [run |-> None, member |-> None]
NoJoin == [pc |-> "idle", car |-> None, member |-> None]
NoEdit == [pc |-> "idle", car |-> None, row |-> NoCar, crew |-> {},
           list |-> Keep, status |-> Keep]

Init ==
  /\ vehicle = [v \in Vehicles |-> NoCar]
  /\ crew = {}
  /\ run = {}
  /\ device = {}
  /\ answer = [v \in Vehicles |-> [t \in Tasks |-> None]]
  /\ token = [p \in Phones |-> NoToken]
  /\ edit = [o \in Organizers |-> NoEdit]
  /\ join = [p \in Phones |-> NoJoin]

-----------------------------------------------------------------------------
(* The rows *)

Car(m) == m[1]
Who(m) == m[2]
Exists(v) == vehicle[v].code # None
CrewOf(v) == {m \in crew : Car(m) = v}
PeopleOf(members) == {Who(m) : m \in members}

\* NewID: an id neither stored, nor held by a call, nor in a token is as good as
\* new.  The smallest stands for all of them.
Fresh(m) ==
  /\ m \notin crew
  /\ \A p \in Phones : m \notin {token[p].member, join[p].member}
  /\ \A o \in Organizers : m \notin edit[o].crew
NewMember(v, p) ==
  LET free == {n \in 1..Generations : Fresh(<<v, p, n>>)} IN
  <<v, p, CHOOSE n \in free : \A k \in free : n <= k>>

FreshVehicle(v) ==
  /\ ~Exists(v)
  /\ \A o \in Organizers : edit[o].car # v
  /\ \A p \in Phones : v \notin {token[p].run, join[p].car}

\* Bound: Generations is large enough for an id to be left for everyone on the list.
Room(v, list) == \A p \in ToSet(list) : \E n \in 1..Generations : Fresh(<<v, p, n>>)

\* buildCrew: a list that names an address twice is refused.
Sound(list) == IsInjective(list)
Built(v, list) == {NewMember(v, p) : p \in ToSet(list)}

\* uq_vehicle_code: another vehicle of the event has the code.
CodeTaken(v, code) == \E w \in Vehicles \ {v} : vehicle[w].code = code

\* What the foreign keys make of the answers won by crew rows that go: they stay
\* and lose their name.
Unattributed(gone) ==
  [v \in Vehicles |-> [t \in Tasks |->
     IF answer[v][t] \in gone THEN Nobody ELSE answer[v][t]]]

-----------------------------------------------------------------------------
(* Organizers *)

\* Create, and ImportCSV of a file with several cars: the whole file is validated,
\* then one transaction inserts every vehicle with its crew, or none of them.
Provision(cars, code, list) ==
  /\ \A v \in cars : FreshVehicle(v) /\ Sound(list[v]) /\ ~CodeTaken(v, code[v])
  /\ \A v \in cars : Room(v, list[v])
  /\ IsInjective([v \in cars |-> code[v]])
  /\ vehicle' = [v \in Vehicles |->
       IF v \in cars THEN [code |-> code[v], status |-> "ok"] ELSE vehicle[v]]
  /\ crew' = crew \cup UNION {Built(v, list[v]) : v \in cars}
  /\ UNCHANGED <<run, device, answer, token, edit, join>>

\* The status an edit is to write: the one it names, or the one it read.
StatusAfterDefaulted(v, patch) == IF patch.status = Keep THEN "ok" ELSE patch.status
StatusAfter(v, patch) == IF patch.status = Keep THEN vehicle[v].status ELSE patch.status

\* Update: repo.Get's read of the vehicle row, and the PATCH it is to apply.
EditStart(o, v, patch) ==
  /\ edit[o].pc = "idle"
  /\ Exists(v)
  /\ patch.list # Keep => Sound(patch.list)
  /\ edit' = [edit EXCEPT ![o] =
       [NoEdit EXCEPT !.pc = "crew", !.car = v, !.list = patch.list, !.status = patch.status,
          !.row.code = IF patch.code = Keep THEN vehicle[v].code ELSE patch.code,
          !.row.status = StatusAfter(v, patch)]]
  /\ UNCHANGED <<vehicle, crew, run, device, answer, token, join>>

\* crewOf, the second statement of Get; then a typed list replaces what it read.
EditCrew(o) ==
  LET e == edit[o] IN
  /\ e.pc = "crew"
  /\ e.list # Keep => Room(e.car, e.list)
  /\ edit' = [edit EXCEPT ![o].pc = "write",
                          ![o].crew = IF e.list = Keep THEN CrewOf(e.car)
                                                       ELSE Built(e.car, e.list)]
  /\ UNCHANGED <<vehicle, crew, run, device, answer, token, join>>

\* repo.Update, one transaction: the row, then the crew, deleted and inserted
\* again even where it stays the same.  ErrNotFound and ErrDuplicateCode roll back.
Added(v, members) == crew \cup members
Replaced(v, members) == (crew \ CrewOf(v)) \cup members
EditWrite(o) ==
  LET e == edit[o] IN
  /\ e.pc = "write"
  /\ edit' = [edit EXCEPT ![o] = NoEdit]
  /\ \/ /\ ~Exists(e.car) \/ CodeTaken(e.car, e.row.code)
        /\ UNCHANGED <<vehicle, crew, device, answer>>
     \/ /\ Exists(e.car)
        /\ ~CodeTaken(e.car, e.row.code)
        /\ vehicle' = [vehicle EXCEPT ![e.car] = e.row]
        /\ crew' = Replaced(e.car, e.crew)
        /\ device' = {d \in device : d[2] \notin CrewOf(e.car)}
        /\ answer' = Unattributed(CrewOf(e.car))
  /\ UNCHANGED <<run, token, join>>

\* Delete: Get, then HasRun, both before the delete statement.
DeleteStart(o, v) ==
  /\ edit[o].pc = "idle"
  /\ Exists(v)
  /\ edit' = [edit EXCEPT ![o] = [NoEdit EXCEPT !.pc = "hasRun", !.car = v]]
  /\ UNCHANGED <<vehicle, crew, run, device, answer, token, join>>

DeleteCheck(o) ==
  /\ edit[o].pc = "hasRun"
  /\ edit' = [edit EXCEPT ![o] =
       IF edit[o].car \in run THEN NoEdit ELSE [@ EXCEPT !.pc = "delete"]]
  /\ UNCHANGED <<vehicle, crew, run, device, answer, token, join>>

\* repo.Delete: the join with team_session is part of the delete statement, so a
\* run begun after HasRun still spares the car.  What hangs off the row goes too.
DeletableWhenChecked(v) == Exists(v)
Deletable(v) == Exists(v) /\ v \notin run
DeleteRow(o) ==
  LET v == edit[o].car IN
  /\ edit[o].pc = "delete"
  /\ edit' = [edit EXCEPT ![o] = NoEdit]
  /\ \/ /\ ~Deletable(v)
        /\ UNCHANGED <<vehicle, crew, run, device, answer>>
     \/ /\ Deletable(v)
        /\ vehicle' = [vehicle EXCEPT ![v] = NoCar]
        /\ crew' = crew \ CrewOf(v)
        /\ run' = run \ {v}
        /\ device' = {d \in device : d[1] # v}
        /\ answer' = [Unattributed(CrewOf(v)) EXCEPT ![v] = [t \in Tasks |-> None]]
  /\ UNCHANGED <<token, join>>

\* SetStatus, called by the alerts service.
SetStatus(v, status) ==
  /\ Exists(v)
  /\ vehicle' = [vehicle EXCEPT ![v].status = status]
  /\ UNCHANGED <<crew, run, device, answer, token, edit, join>>

-----------------------------------------------------------------------------
(* Phones *)

\* Join: JoinTargetOf and memberOf; someone who is not on the car's list is
\* refused.  The event is active.
OnRoster(v, p) == {m \in CrewOf(v) : Who(m) = p}
JoinStart(p, v) ==
  /\ join[p].pc = "idle"
  /\ Exists(v)
  /\ \E m \in OnRoster(v, p) :
       join' = [join EXCEPT ![p] = [pc |-> "run", car |-> v, member |-> m]]
  /\ UNCHANGED <<vehicle, crew, run, device, answer, token, edit>>

\* liveOrNewSession: a new run needs its vehicle row.
JoinRun(p) ==
  LET v == join[p].car IN
  /\ join[p].pc = "run"
  /\ \/ /\ Exists(v)
        /\ run' = run \cup {v}
        /\ join' = [join EXCEPT ![p].pc = "device"]
     \/ /\ ~Exists(v)
        /\ join' = [join EXCEPT ![p] = NoJoin]
        /\ UNCHANGED run
  /\ UNCHANGED <<vehicle, crew, device, answer, token, edit>>

\* UpsertDevice's insert: the run and the member must be stored still.
JoinDevice(p) ==
  LET j == join[p] IN
  /\ j.pc = "device"
  /\ \/ /\ j.car \in run
        /\ j.member \in crew
        /\ device' = device \cup {<<j.car, j.member>>}
        /\ join' = [join EXCEPT ![p].pc = "token"]
     \/ /\ j.car \notin run \/ j.member \notin crew
        /\ join' = [join EXCEPT ![p] = NoJoin]
        /\ UNCHANGED device
  /\ UNCHANGED <<vehicle, crew, run, answer, token, edit>>

\* UpsertDevice's read back, joined to crew_member, and Mint.
JoinToken(p) ==
  LET j == join[p] IN
  /\ j.pc = "token"
  /\ join' = [join EXCEPT ![p] = NoJoin]
  /\ \/ /\ <<j.car, j.member>> \in device
        /\ token' = [token EXCEPT ![p] = [run |-> j.car, member |-> j.member]]
     \/ /\ <<j.car, j.member>> \notin device
        /\ UNCHANGED token
  /\ UNCHANGED <<vehicle, crew, run, device, answer, edit>>

\* SubmitTask: the row takes the member the token names, if the foreign key
\* finds it; a phone that joined under a replaced list has to join again.
StoredOrNot(m) == TRUE
MemberStored(m) == m \in crew
Submit(p, t) ==
  LET v == token[p].run IN
  /\ v \in run
  /\ answer[v][t] = None
  /\ MemberStored(token[p].member)
  /\ answer' = [answer EXCEPT ![v][t] = token[p].member]
  /\ UNCHANGED <<vehicle, crew, run, device, token, edit, join>>

-----------------------------------------------------------------------------

Provisioning ==
  \E cars \in SUBSET Vehicles \ {{}} :
  \E code \in [cars -> Codes], list \in [cars -> Lists] : Provision(cars, code, list)

Organizing(o) ==
  \/ \E v \in Vehicles, patch \in Patches : EditStart(o, v, patch)
  \/ EditCrew(o) \/ EditWrite(o)
  \/ \E v \in Vehicles : DeleteStart(o, v)
  \/ DeleteCheck(o) \/ DeleteRow(o)

Driving(p) ==
  \/ \E v \in Vehicles : JoinStart(p, v)
  \/ JoinRun(p) \/ JoinDevice(p) \/ JoinToken(p)
  \/ \E t \in Tasks : Submit(p, t)

Next ==
  \/ Provisioning
  \/ \E o \in Organizers : Organizing(o)
  \/ \E v \in Vehicles, status \in Reports : SetStatus(v, status)
  \/ \E p \in Phones : Driving(p)

Spec == Init /\ [][Next]_vars

-----------------------------------------------------------------------------
(* Properties *)

\* The tables hold ids and ENUM values, the calls what the handlers read.
TypeOK ==
  /\ vehicle \in [Vehicles -> [code : Codes \cup {None}, status : Statuses]]
  /\ crew \subseteq Members
  /\ run \subseteq Vehicles
  /\ device \subseteq Vehicles \X Members
  /\ answer \in [Vehicles -> [Tasks -> Members \cup {None, Nobody}]]
  /\ token \in [Phones -> [run : Vehicles \cup {None}, member : Members \cup {None}]]
  /\ join \in [Phones -> [pc : {"idle", "run", "device", "token"},
                          car : Vehicles \cup {None}, member : Members \cup {None}]]
  /\ edit \in [Organizers -> [pc : {"idle", "crew", "write", "hasRun", "delete"},
                              car : Vehicles \cup {None},
                              row : [code : Codes \cup {None}, status : Statuses],
                              crew : SUBSET Members,
                              list : Lists \cup {Keep},
                              status : Statuses \cup {Keep}]]

\* "A re-typed roster must never delete the score the car earned" (task_submission),
\* and a car that has run is not deleted (repo.Delete): whatever organizers do at
\* whatever moment, runs and answers stay, an answer loses at most its name.
ResultsSurvive ==
  [][/\ run \subseteq run'
     /\ \A v \in Vehicles, t \in Tasks :
          answer[v][t] # None => answer'[v][t] \in {answer[v][t], Nobody}]_vars

\* A phone in a run and the winner of an answer are on the list of that very car,
\* though both come from a roster read several statements earlier and from tokens
\* that outlive it (JoinTargetOf, UpsertDevice, SaveSubmission).
RunIsCrewed ==
  /\ \A d \in device : d[1] \in run /\ d[2] \in CrewOf(d[1])
  /\ \A v \in Vehicles, t \in Tasks :
       answer[v][t] \in {None, Nobody} \cup CrewOf(v)

\* The crew of a car is at all times a list somebody typed as a whole, each person
\* on it once ("never twice in the same car"): two editors, or an editor who writes
\* back the list it read before another wrote, never mix two lists.
CrewIsOneList ==
  \A v \in Vehicles : Exists(v) =>
    \E list \in Lists :
      PeopleOf(CrewOf(v)) = ToSet(list) /\ Cardinality(CrewOf(v)) = Len(list)

-----------------------------------------------------------------------------
(* The inductive invariants the proofs rest on *)

\* What a token, a Join or an edit names is one car and members of it.
Aboard(car, member) == car \in Vehicles /\ member \in Members /\ Car(member) = car
Named ==
  /\ \A p \in Phones : token[p] # NoToken => Aboard(token[p].run, token[p].member)
  /\ \A p \in Phones : join[p].pc # "idle" => Aboard(join[p].car, join[p].member)
  /\ \A o \in Organizers :
       /\ edit[o].pc # "idle" => edit[o].car \in Vehicles
       /\ \A m \in edit[o].crew : Car(m) = edit[o].car
OfRuns == \A v \in Vehicles, t \in Tasks : answer[v][t] # None => v \in run
RosterInv == TypeOK /\ RunIsCrewed /\ Named /\ OfRuns

\* Members of one car who are, each once, the people of one list.
OneList(members) ==
  /\ \A m, n \in members : Who(m) = Who(n) => m = n
  /\ \E list \in Lists : Sound(list) /\ PeopleOf(members) = ToSet(list)

\* A list read or typed is written only to the car it was meant for: that car is
\* not deleted and made anew in between.
CrewInv ==
  /\ \A m \in crew : Exists(Car(m))
  /\ \A v \in Vehicles : Exists(v) => OneList(CrewOf(v))
  /\ \A o \in Organizers :
       /\ edit[o].list # Keep => Sound(edit[o].list)
       /\ edit[o].pc \in {"crew", "write"} => edit[o].row.code # None
       /\ edit[o].pc = "write" /\ Exists(edit[o].car) => OneList(edit[o].crew)

=============================================================================
