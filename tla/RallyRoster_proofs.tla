------------------------- MODULE RallyRoster_proofs ------------------------
(***************************************************************************)
(* Theorems of RallyRoster, for any fleet, any people and any lists.       *)
(***************************************************************************)
EXTENDS MCRallyRoster, RallySheet, FiniteSetTheorems, WellFoundedInduction, TLAPS

-----------------------------------------------------------------------------
(* The rows *)

\* A set of numbers that is not empty has a least one.
LEMMA LeastNumber ==
  ASSUME NEW S \in SUBSET Nat, S # {}
  PROVE  \E n \in S : \A k \in S : n <= k
  <1>1. PICK n \in S : \A k \in S : ~(<<k, n>> \in OpToRel(<, Nat))
    BY NatLessThanWellFounded, WFMin, Zenon
  <1>2. \A k \in S : ~(k < n)
    BY <1>1 DEF OpToRel
  <1>3. \A k \in S : n <= k
    BY <1>2
  <1> QED BY <1>3

\* A new id is one of the car and the person it is made for.
LEMMA NewMemberFacts ==
  ASSUME NEW v \in Vehicles, NEW p \in People,
         \E n \in 1..Generations : Fresh(<<v, p, n>>)
  PROVE  NewMember(v, p) \in Members /\ Fresh(NewMember(v, p))
  <1> DEFINE free == {k \in 1..Generations : Fresh(<<v, p, k>>)}
             least == CHOOSE n \in free : \A k \in free : n <= k
  <1>1. PICK i \in 1..Generations : Fresh(<<v, p, i>>)
    OBVIOUS
  <1>2. free \in SUBSET Nat /\ i \in free
    BY <1>1, RosterConstants
  <1>3. NewMember(v, p) = <<v, p, least>>
    BY DEF NewMember
  <1>4. least \in free
    <2> HIDE DEF free
    <2> QED BY <1>2, LeastNumber
  <1> HIDE DEF least
  <1>5. least \in 1..Generations /\ Fresh(<<v, p, least>>)
    BY <1>4
  <1> QED BY <1>3, <1>5 DEF Members

\* Whatever its number, it belongs to that car and that person.
LEMMA NewMemberNames ==
  ASSUME NEW v, NEW p
  PROVE  Car(NewMember(v, p)) = v /\ Who(NewMember(v, p)) = p
  BY DEF NewMember, Car, Who

\* A crew built from a list: ids of that car, for the people on the list, each once.
LEMMA BuiltFacts ==
  ASSUME NEW v \in Vehicles, NEW list \in Lists, Sound(list), Room(v, list)
  PROVE  /\ Built(v, list) \subseteq Members
         /\ \A m \in Built(v, list) : Car(m) = v
         /\ OneList(Built(v, list))
  <1>1. ToSet(list) \subseteq People
    BY RosterConstants DEF ToSet
  <1>2. Built(v, list) \subseteq Members /\ \A m \in Built(v, list) : Car(m) = v
    BY <1>1, NewMemberFacts, NewMemberNames DEF Built, Room
  <1>3. \A m, n \in Built(v, list) : Who(m) = Who(n) => m = n
    BY NewMemberNames DEF Built
  <1>4. PeopleOf(Built(v, list)) = ToSet(list)
    BY NewMemberNames DEF Built, PeopleOf
  <1> QED BY <1>2, <1>3, <1>4 DEF OneList

\* The answers after their winners' rows have gone.
LEMMA UnattributedFacts ==
  ASSUME TypeOK, NEW gone \in SUBSET Members
  PROVE  /\ Unattributed(gone) \in [Vehicles -> [Tasks -> Members \cup {None, Nobody}]]
         /\ \A v \in Vehicles, t \in Tasks :
              /\ Unattributed(gone)[v][t] \in {answer[v][t], Nobody}
              /\ answer[v][t] = None => Unattributed(gone)[v][t] = None
              /\ Unattributed(gone)[v][t] \notin gone
  <1>1. \A v \in Vehicles, t \in Tasks :
          Unattributed(gone)[v][t] = IF answer[v][t] \in gone THEN Nobody ELSE answer[v][t]
    BY DEF Unattributed
  <1>2. \A v \in Vehicles, t \in Tasks : answer[v][t] \in Members \cup {None, Nobody}
    BY DEF TypeOK
  <1>3. None \notin Members /\ Nobody \notin Members
    BY RosterConstants
  <1> QED BY <1>1, <1>2, <1>3 DEF Unattributed

-----------------------------------------------------------------------------
(* Runs, tokens and answers name the crew *)

\* An empty fleet.
LEMMA RosterInit == Init => RosterInv
  <1> SUFFICES ASSUME Init
               PROVE  RosterInv
    OBVIOUS
  <1>1. TypeOK
    BY DEF Init, TypeOK, NoCar, NoToken, NoJoin, NoEdit, Statuses
  <1>2. RunIsCrewed /\ Named /\ OfRuns
    BY DEF Init, RunIsCrewed, Named, OfRuns, NoJoin, NoEdit
  <1> QED BY <1>1, <1>2 DEF RosterInv

\* A step of one edit that touches no row: what it holds is of its own car.
LEMMA EditHolds ==
  ASSUME RosterInv, NEW o \in Organizers, NEW e, edit' = [edit EXCEPT ![o] = e],
         e \in [pc : {"idle", "crew", "write", "hasRun", "delete"},
                car : Vehicles \cup {None}, row : [code : Codes \cup {None}, status : Statuses],
                crew : SUBSET Members, list : Lists \cup {Keep}, status : Statuses \cup {Keep}],
         e.pc # "idle" => e.car \in Vehicles, \A m \in e.crew : Car(m) = e.car,
         UNCHANGED <<vehicle, crew, run, device, answer, token, join>>
  PROVE  RosterInv'
  <1>1. TypeOK'
    BY DEF RosterInv, TypeOK
  <1>2. RunIsCrewed' /\ OfRuns'
    BY DEF RosterInv, RunIsCrewed, CrewOf, OfRuns
  <1>3. Named'
    <2>1. edit'[o] = e /\ \A q \in Organizers \ {o} : edit'[q] = edit[q]
      BY DEF RosterInv, TypeOK
    <2> QED BY <2>1 DEF RosterInv, Named
  <1> QED BY <1>1, <1>2, <1>3 DEF RosterInv

\* A step of one Join that stores nothing but its phone's device or run.
LEMMA JoinHolds ==
  ASSUME RosterInv, NEW p \in Phones, NEW j, join' = [join EXCEPT ![p] = j],
         j = NoJoin \/ (j.pc # "idle" /\ Aboard(j.car, j.member)),
         j \in [pc : {"idle", "run", "device", "token"},
                car : Vehicles \cup {None}, member : Members \cup {None}],
         run \subseteq run', run' \subseteq Vehicles,
         device' \subseteq Vehicles \X Members,
         \A d \in device' : d \in device \/ (d[1] \in run' /\ d[2] \in CrewOf(d[1])),
         token' \in [Phones -> [run : Vehicles \cup {None}, member : Members \cup {None}]],
         \A q \in Phones : \/ token'[q] = token[q]
                         \/ Aboard(token'[q].run, token'[q].member),
         UNCHANGED <<vehicle, crew, answer, edit>>
  PROVE  RosterInv'
  <1>1. TypeOK'
    BY DEF RosterInv, TypeOK
  <1>2. RunIsCrewed' /\ OfRuns'
    BY DEF RosterInv, RunIsCrewed, CrewOf, OfRuns
  <1>3. Named'
    <2>1. join'[p] = j /\ \A q \in Phones \ {p} : join'[q] = join[q]
      BY DEF RosterInv, TypeOK
    <2>2. \A q \in Phones : join'[q].pc # "idle" => Aboard(join'[q].car, join'[q].member)
      BY <2>1 DEF RosterInv, Named, NoJoin
    <2>3. \A q \in Phones : token'[q] # NoToken => Aboard(token'[q].run, token'[q].member)
      BY DEF RosterInv, Named
    <2> QED BY <2>2, <2>3 DEF RosterInv, Named, Aboard
  <1> QED BY <1>1, <1>2, <1>3 DEF RosterInv

\* Whatever cars are created, the rows there were stay.
LEMMA ProvisionKeeps ==
  ASSUME RosterInv,
         NEW cars \in SUBSET Vehicles, NEW code \in [cars -> Codes], NEW list \in [cars -> Lists],
         Provision(cars, code, list)
  PROVE  RosterInv'
  <1>1. vehicle' \in [Vehicles -> [code : Codes \cup {None}, status : Statuses]]
    BY DEF RosterInv, TypeOK, Provision, Statuses
  <1>2. \A v \in cars : Built(v, list[v]) \subseteq Members
    BY BuiltFacts DEF Provision
  <1>3. crew \subseteq crew' /\ crew' \subseteq Members
    BY <1>2 DEF RosterInv, TypeOK, Provision
  <1>4. UNCHANGED <<run, device, answer, token, edit, join>>
    BY DEF Provision
  <1>5. TypeOK'
    BY <1>1, <1>3, <1>4 DEF RosterInv, TypeOK
  <1>6. RunIsCrewed' /\ OfRuns'
    BY <1>3, <1>4 DEF RosterInv, RunIsCrewed, CrewOf, OfRuns
  <1>7. Named'
    BY <1>4 DEF RosterInv, Named, Aboard
  <1> QED BY <1>5, <1>6, <1>7 DEF RosterInv

\* A crew is written anew, or a car goes: its phones and its answers lose their
\* names with it, and no other car's do.
LEMMA CrewLeaves ==
  ASSUME RosterInv, NEW v \in Vehicles, NEW members \in SUBSET Members,
         \A m \in members : Car(m) = v,
         vehicle' \in [Vehicles -> [code : Codes \cup {None}, status : Statuses]],
         crew' = (crew \ CrewOf(v)) \cup members, run' = run,
         device' \subseteq device, \A d \in device' : d[2] \notin CrewOf(v),
         answer' = Unattributed(CrewOf(v)),
         NEW o \in Organizers, edit' = [edit EXCEPT ![o] = NoEdit],
         UNCHANGED <<token, join>>
  PROVE  RosterInv'
  <1>a. TypeOK /\ RunIsCrewed /\ Named /\ OfRuns /\ CrewOf(v) \subseteq Members
    BY DEF RosterInv, TypeOK, CrewOf
  <1>b. NoEdit \in [pc : {"idle", "crew", "write", "hasRun", "delete"},
                car : Vehicles \cup {None}, row : [code : Codes \cup {None}, status : Statuses],
                crew : SUBSET Members, list : Lists \cup {Keep}, status : Statuses \cup {Keep}]
        /\ NoEdit.crew = {} /\ NoEdit.pc = "idle"
    BY DEF NoEdit, NoCar, Statuses
  <1>1. /\ answer' \in [Vehicles -> [Tasks -> Members \cup {None, Nobody}]]
        /\ \A w \in Vehicles, t \in Tasks :
             /\ answer'[w][t] \in {answer[w][t], Nobody} /\ answer'[w][t] \notin CrewOf(v)
             /\ answer[w][t] = None => answer'[w][t] = None
    BY <1>a, UnattributedFacts
  <1>2. TypeOK'
    <2>1. /\ crew' \subseteq Members /\ run' \subseteq Vehicles
          /\ device' \subseteq Vehicles \X Members
      BY <1>a DEF TypeOK
    <2>2. edit' \in [Organizers -> [pc : {"idle", "crew", "write", "hasRun", "delete"},
                car : Vehicles \cup {None}, row : [code : Codes \cup {None}, status : Statuses],
                crew : SUBSET Members, list : Lists \cup {Keep}, status : Statuses \cup {Keep}]]
      BY <1>a, <1>b DEF TypeOK
    <2> QED BY <1>a, <1>1, <2>1, <2>2 DEF TypeOK
  <1>3. ASSUME NEW w \in Vehicles, NEW m \in CrewOf(w), m \notin CrewOf(v)
        PROVE  m \in CrewOf(w)'
    BY <1>3 DEF CrewOf
  <1>4. RunIsCrewed'
    <2>1. \A d \in device' : d[1] \in run /\ d[2] \in CrewOf(d[1])'
      BY <1>a, <1>3 DEF RunIsCrewed, TypeOK
    <2>2. \A w \in Vehicles, t \in Tasks : answer'[w][t] \in {None, Nobody} \cup CrewOf(w)'
      BY <1>a, <1>1, <1>3 DEF RunIsCrewed
    <2> QED BY <2>1, <2>2 DEF RunIsCrewed
  <1>5. Named'
    <2>1. /\ edit'[o].crew = {} /\ edit'[o].pc = "idle"
          /\ \A q \in Organizers \ {o} : edit'[q] = edit[q]
      BY <1>a, <1>b DEF TypeOK
    <2> QED BY <1>a, <2>1 DEF Named, Aboard
  <1>6. OfRuns'
    BY <1>a, <1>1 DEF OfRuns
  <1> QED BY <1>2, <1>4, <1>5, <1>6 DEF RosterInv

\* Every statement of every handler preserves the invariant.
LEMMA RosterNext == RosterInv /\ [Next]_vars => RosterInv'
  <1> SUFFICES ASSUME RosterInv, [Next]_vars
               PROVE  RosterInv'
    OBVIOUS
  <1> DEFINE Edits == [pc : {"idle", "crew", "write", "hasRun", "delete"},
                car : Vehicles \cup {None}, row : [code : Codes \cup {None}, status : Statuses],
                crew : SUBSET Members, list : Lists \cup {Keep}, status : Statuses \cup {Keep}]
             Joins == [pc : {"idle", "run", "device", "token"},
                car : Vehicles \cup {None}, member : Members \cup {None}]
  <1>a. /\ vehicle \in [Vehicles -> [code : Codes \cup {None}, status : Statuses]]
        /\ edit \in [Organizers -> Edits] /\ join \in [Phones -> Joins]
        /\ token \in [Phones -> [run : Vehicles \cup {None}, member : Members \cup {None}]]
        /\ answer \in [Vehicles -> [Tasks -> Members \cup {None, Nobody}]]
        /\ device \subseteq Vehicles \X Members /\ crew \subseteq Members /\ run \subseteq Vehicles
        /\ TypeOK /\ RunIsCrewed /\ Named /\ OfRuns
    BY DEF RosterInv, TypeOK
  <1>b. /\ NoEdit \in Edits /\ NoEdit.crew = {} /\ NoEdit.pc = "idle" /\ NoJoin \in Joins
    BY DEF NoEdit, NoCar, NoJoin, Statuses
  <1>c. \A v \in Vehicles : CrewOf(v) \subseteq Members /\ \A m \in CrewOf(v) : Car(m) = v
    BY <1>a DEF CrewOf
  <1>1. ASSUME NEW o \in Organizers, NEW v \in Vehicles, NEW patch \in Patches,
               EditStart(o, v, patch)
        PROVE  RosterInv'
    <2> DEFINE e == [NoEdit EXCEPT !.pc = "crew", !.car = v, !.list = patch.list,
                       !.status = patch.status,
                       !.row.code = IF patch.code = Keep THEN vehicle[v].code ELSE patch.code,
                       !.row.status = StatusAfter(v, patch)]
    <2>1. /\ patch.code \in Codes \cup {Keep} /\ patch.status \in Statuses \cup {Keep}
          /\ patch.list \in Lists \cup {Keep}
      BY RosterConstants
    <2>2. StatusAfter(v, patch) \in Statuses
      BY <1>a, <2>1 DEF StatusAfter
    <2>3. e \in Edits /\ e.crew = {} /\ e.car = v
      BY <1>a, <2>1, <2>2 DEF NoEdit, NoCar
    <2>4. /\ edit' = [edit EXCEPT ![o] = e]
          /\ UNCHANGED <<vehicle, crew, run, device, answer, token, join>>
      BY <1>1 DEF EditStart
    <2> HIDE DEF e
    <2> QED BY <2>3, <2>4, EditHolds
  <1>2. ASSUME NEW o \in Organizers, EditCrew(o)
        PROVE  RosterInv'
    <2> DEFINE members == IF edit[o].list = Keep THEN CrewOf(edit[o].car)
                                                 ELSE Built(edit[o].car, edit[o].list)
               e == [edit[o] EXCEPT !.pc = "write", !.crew = members]
    <2>1. members \subseteq Members /\ \A m \in members : Car(m) = edit[o].car
      <3>1. CASE edit[o].list = Keep
        BY <1>a, <3>1 DEF CrewOf
      <3>2. CASE edit[o].list # Keep
        <4>1. edit[o].list \in Lists /\ edit[o].car \in Vehicles
          BY <1>2, <1>a, <3>2 DEF EditCrew, Named
        <4>2. ToSet(edit[o].list) \subseteq People
          BY <4>1, RosterConstants DEF ToSet
        <4>3. Room(edit[o].car, edit[o].list)
          BY <1>2, <3>2 DEF EditCrew
        <4> QED BY <3>2, <4>1, <4>2, <4>3, NewMemberFacts, NewMemberNames DEF Built, Room
      <3> QED BY <3>1, <3>2
    <2> HIDE DEF members
    <2>2. edit[o] \in Edits /\ edit[o].car \in Vehicles
      BY <1>2, <1>a DEF EditCrew, Named
    <2>4. e \in Edits /\ e.crew = members /\ e.car = edit[o].car
      BY <2>1, <2>2
    <2>3. /\ edit' = [edit EXCEPT ![o] = e]
          /\ UNCHANGED <<vehicle, crew, run, device, answer, token, join>>
      BY <1>2, <1>a DEF EditCrew, members
    <2> HIDE DEF e
    <2> QED BY <2>1, <2>2, <2>3, <2>4, EditHolds
  <1>3. ASSUME NEW o \in Organizers, EditWrite(o)
        PROVE  RosterInv'
    <2> DEFINE v == edit[o].car
    <2>1. CASE UNCHANGED <<vehicle, crew, device, answer>>
      BY <1>3, <1>b, <2>1, EditHolds DEF EditWrite
    <2>2. CASE /\ Exists(v) /\ vehicle' = [vehicle EXCEPT ![v] = edit[o].row]
               /\ crew' = Replaced(v, edit[o].crew)
               /\ device' = {d \in device : d[2] \notin CrewOf(v)}
               /\ answer' = Unattributed(CrewOf(v))
      <3>1. edit[o] \in Edits /\ v \in Vehicles /\ \A m \in edit[o].crew : Car(m) = v
        BY <1>3, <1>a DEF EditWrite, Named
      <3>2. vehicle' \in [Vehicles -> [code : Codes \cup {None}, status : Statuses]]
        BY <1>a, <2>2, <3>1
      <3>3. edit[o].crew \in SUBSET Members
        BY <3>1
      <3>4. /\ edit' = [edit EXCEPT ![o] = NoEdit]
            /\ UNCHANGED <<run, token, join>>
        BY <1>3 DEF EditWrite
      <3> HIDE DEF v
      <3> QED BY <2>2, <3>1, <3>2, <3>3, <3>4, CrewLeaves DEF Replaced
    <2> QED BY <1>3, <2>1, <2>2 DEF EditWrite
  <1>4. ASSUME NEW o \in Organizers, NEW v \in Vehicles, DeleteStart(o, v)
        PROVE  RosterInv'
    <2> DEFINE e == [NoEdit EXCEPT !.pc = "hasRun", !.car = v]
    <2>1. e \in Edits /\ e.crew = {} /\ e.car = v
      BY DEF NoEdit, NoCar, Statuses
    <2>2. /\ edit' = [edit EXCEPT ![o] = e]
          /\ UNCHANGED <<vehicle, crew, run, device, answer, token, join>>
      BY <1>4 DEF DeleteStart
    <2> HIDE DEF e
    <2> QED BY <2>1, <2>2, EditHolds
  <1>5. ASSUME NEW o \in Organizers, DeleteCheck(o)
        PROVE  RosterInv'
    <2> DEFINE e == IF edit[o].car \in run THEN NoEdit ELSE [edit[o] EXCEPT !.pc = "delete"]
    <2>1. /\ e \in Edits /\ \A m \in e.crew : Car(m) = e.car
          /\ e.pc # "idle" => e.car \in Vehicles
      BY <1>5, <1>a, <1>b DEF Named, DeleteCheck
    <2>2. /\ edit' = [edit EXCEPT ![o] = e]
          /\ UNCHANGED <<vehicle, crew, run, device, answer, token, join>>
      BY <1>5, <1>a DEF DeleteCheck
    <2> HIDE DEF e
    <2> QED BY <2>1, <2>2, EditHolds
  <1>6. ASSUME NEW o \in Organizers, DeleteRow(o)
        PROVE  RosterInv'
    <2> DEFINE v == edit[o].car
    <2>1. CASE UNCHANGED <<vehicle, crew, run, device, answer>>
      BY <1>6, <1>b, <2>1, EditHolds DEF DeleteRow
    <2>2. CASE /\ Deletable(v) /\ vehicle' = [vehicle EXCEPT ![v] = NoCar]
               /\ crew' = crew \ CrewOf(v) /\ run' = run \ {v}
               /\ device' = {d \in device : d[1] # v}
               /\ answer' = [Unattributed(CrewOf(v)) EXCEPT ![v] = [t \in Tasks |-> None]]
      <3>1. v \in Vehicles /\ v \notin run
        BY <1>6, <1>a, <2>2 DEF DeleteRow, Named, Deletable
      <3>2. vehicle' \in [Vehicles -> [code : Codes \cup {None}, status : Statuses]]
        BY <1>a, <2>2, <3>1 DEF NoCar, Statuses
      <3>3. \A t \in Tasks : Unattributed(CrewOf(v))[v][t] = None
        BY <1>a, <1>c, <3>1, UnattributedFacts DEF OfRuns
      <3>4. /\ Unattributed(CrewOf(v)) \in [Vehicles -> [Tasks -> Members \cup {None, Nobody}]]
        BY <1>a, <1>c, <3>1, UnattributedFacts
      <3>5. answer' = Unattributed(CrewOf(v))
        <4>1. Unattributed(CrewOf(v))[v] = [t \in Tasks |-> None]
          BY <3>1, <3>3, <3>4
        <4> QED BY <2>2, <3>1, <3>4, <4>1
      <3>6. \A d \in device' : d[2] \notin CrewOf(v)
        BY <1>a, <1>c, <2>2 DEF RunIsCrewed, CrewOf
      <3>7. run' = run /\ device' \subseteq device /\ crew' = (crew \ CrewOf(v)) \cup {}
        BY <2>2, <3>1
      <3>8. /\ edit' = [edit EXCEPT ![o] = NoEdit]
            /\ UNCHANGED <<token, join>>
        BY <1>6 DEF DeleteRow
      <3>9. {} \in SUBSET Members
        OBVIOUS
      <3> HIDE DEF v
      <3> QED BY <3>1, <3>2, <3>5, <3>6, <3>7, <3>8, <3>9, CrewLeaves
    <2> QED BY <1>6, <2>1, <2>2 DEF DeleteRow
  <1>7. ASSUME NEW v \in Vehicles, NEW status \in Reports, SetStatus(v, status)
        PROVE  RosterInv'
    <2>1. status \in Statuses
      BY RosterConstants
    <2>2. TypeOK'
      <3>1. vehicle' \in [Vehicles -> [code : Codes \cup {None}, status : Statuses]]
        <4>1. [vehicle[v] EXCEPT !.status = status]
                \in [code : Codes \cup {None}, status : Statuses]
          BY <1>a, <2>1
        <4>2. vehicle' = [vehicle EXCEPT ![v] = [vehicle[v] EXCEPT !.status = status]]
          BY <1>7, <1>a DEF SetStatus
        <4> QED BY <1>a, <4>1, <4>2
      <3>2. UNCHANGED <<crew, run, device, answer, token, edit, join>>
        BY <1>7 DEF SetStatus
      <3> QED BY <1>a, <3>1, <3>2 DEF TypeOK
    <2>3. RunIsCrewed' /\ Named' /\ OfRuns'
      BY <1>7, <1>a DEF SetStatus, RunIsCrewed, CrewOf, Named, Aboard, OfRuns
    <2> QED BY <2>2, <2>3 DEF RosterInv
  <1>8. ASSUME NEW p \in Phones, NEW v \in Vehicles, JoinStart(p, v)
        PROVE  RosterInv'
    <2>1. PICK m \in OnRoster(v, p) :
            join' = [join EXCEPT ![p] = [pc |-> "run", car |-> v, member |-> m]]
      BY <1>8 DEF JoinStart
    <2>2. m \in Members /\ Car(m) = v
      BY <1>c DEF OnRoster
    <2>3. UNCHANGED <<vehicle, crew, run, device, answer, token, edit>>
      BY <1>8 DEF JoinStart
    <2> QED BY <1>a, <2>1, <2>2, <2>3, JoinHolds DEF Aboard
  <1>9. ASSUME NEW p \in Phones, JoinRun(p)
        PROVE  RosterInv'
    <2>1. join[p].pc = "run" /\ Aboard(join[p].car, join[p].member)
      BY <1>9, <1>a DEF JoinRun, Named
    <2>2. UNCHANGED <<vehicle, crew, device, answer, token, edit>>
      BY <1>9 DEF JoinRun
    <2>3. CASE run' = run \cup {join[p].car} /\ join' = [join EXCEPT ![p].pc = "device"]
      <3> DEFINE j == [join[p] EXCEPT !.pc = "device"]
      <3>1. j \in Joins /\ j.pc # "idle" /\ Aboard(j.car, j.member)
        BY <1>a, <2>1
      <3>2. join' = [join EXCEPT ![p] = j]
        BY <1>a, <2>3
      <3> HIDE DEF j
      <3>3. run \subseteq run' /\ run' \subseteq Vehicles
        BY <1>a, <2>1, <2>3 DEF Aboard
      <3>4. \A d \in device' : d \in device
        BY <2>2
      <3>5. token' \in [Phones -> [run : Vehicles \cup {None}, member : Members \cup {None}]]
        BY <1>a, <2>2
      <3>6. \A q \in Phones : token'[q] = token[q]
        BY <2>2
      <3>7. device' \subseteq Vehicles \X Members
        BY <1>a, <2>2
      <3> QED BY <2>2, <3>1, <3>2, <3>3, <3>4, <3>5, <3>6, <3>7, JoinHolds
    <2>4. CASE run' = run /\ join' = [join EXCEPT ![p] = NoJoin]
      BY <1>a, <1>b, <2>2, <2>4, JoinHolds
    <2> QED BY <1>9, <2>3, <2>4 DEF JoinRun
  <1>10. ASSUME NEW p \in Phones, JoinDevice(p)
        PROVE  RosterInv'
    <2> DEFINE d == <<join[p].car, join[p].member>>
    <2>1. join[p].pc = "device" /\ Aboard(join[p].car, join[p].member)
      BY <1>10, <1>a DEF JoinDevice, Named
    <2>2. UNCHANGED <<vehicle, crew, run, answer, token, edit>>
      BY <1>10 DEF JoinDevice
    <2>3. CASE /\ join[p].car \in run /\ join[p].member \in crew /\ device' = device \cup {d}
               /\ join' = [join EXCEPT ![p].pc = "token"]
      <3> DEFINE j == [join[p] EXCEPT !.pc = "token"]
      <3>1. j \in Joins /\ j.pc # "idle" /\ Aboard(j.car, j.member)
        BY <1>a, <2>1
      <3>2. join' = [join EXCEPT ![p] = j]
        BY <1>a, <2>3
      <3>3. d \in Vehicles \X Members /\ d[1] \in run /\ d[2] \in CrewOf(d[1])
        BY <2>1, <2>3 DEF Aboard, CrewOf
      <3> HIDE DEF j, d
      <3>4. device' \subseteq Vehicles \X Members
        BY <1>a, <2>3, <3>3
      <3>5. \A x \in device' : x \in device \/ (x[1] \in run' /\ x[2] \in CrewOf(x[1]))
        BY <2>2, <2>3, <3>3
      <3> QED BY <1>a, <2>2, <3>1, <3>2, <3>4, <3>5, JoinHolds
    <2>4. CASE device' = device /\ join' = [join EXCEPT ![p] = NoJoin]
      BY <1>a, <1>b, <2>2, <2>4, JoinHolds
    <2> QED BY <1>10, <2>3, <2>4 DEF JoinDevice
  <1>11. ASSUME NEW p \in Phones, JoinToken(p)
        PROVE  RosterInv'
    <2>1. Aboard(join[p].car, join[p].member)
      BY <1>11, <1>a DEF JoinToken, Named
    <2>2. /\ join' = [join EXCEPT ![p] = NoJoin]
          /\ \/ token' = [token EXCEPT ![p] = [run |-> join[p].car, member |-> join[p].member]]
             \/ token' = token
          /\ UNCHANGED <<vehicle, crew, run, device, answer, edit>>
      BY <1>11 DEF JoinToken
    <2>3. /\ token' \in [Phones -> [run : Vehicles \cup {None}, member : Members \cup {None}]]
          /\ \A q \in Phones : \/ token'[q] = token[q]
                             \/ Aboard(token'[q].run, token'[q].member)
      BY <1>a, <2>1, <2>2 DEF Aboard
    <2> QED BY <1>a, <1>b, <2>2, <2>3, JoinHolds
  <1>12. ASSUME NEW p \in Phones, NEW t \in Tasks, Submit(p, t)
        PROVE  RosterInv'
    <2> DEFINE v == token[p].run
               m == token[p].member
    <2>1. /\ v \in run /\ m \in crew /\ answer' = [answer EXCEPT ![v][t] = m]
          /\ UNCHANGED <<vehicle, crew, run, device, token, edit, join>>
      BY <1>12 DEF Submit, MemberStored
    <2>2. token[p] # NoToken
      BY <1>a, <2>1, RosterConstants DEF NoToken
    <2>3. v \in Vehicles /\ m \in CrewOf(v) /\ m \in Members
      BY <1>a, <2>1, <2>2 DEF Named, Aboard, CrewOf
    <2> HIDE DEF v, m
    <2>4. /\ answer' \in [Vehicles -> [Tasks -> Members \cup {None, Nobody}]]
          /\ \A w \in Vehicles, u \in Tasks :
               answer'[w][u] = answer[w][u] \/ (w = v /\ answer'[w][u] = m)
      BY <1>a, <2>1, <2>3
    <2>5. TypeOK'
      BY <1>a, <2>1, <2>4 DEF TypeOK
    <2>6. RunIsCrewed'
      BY <1>a, <2>1, <2>3, <2>4 DEF RunIsCrewed, CrewOf
    <2>7. Named' /\ OfRuns'
      BY <1>a, <2>1, <2>4 DEF Named, Aboard, OfRuns
    <2> QED BY <2>5, <2>6, <2>7 DEF RosterInv
  <1>13. CASE UNCHANGED vars
    BY <1>13 DEF vars, RosterInv, TypeOK, RunIsCrewed, CrewOf, Named, Aboard, OfRuns
  <1> QED
    BY <1>1, <1>2, <1>3, <1>4, <1>5, <1>6, <1>7, <1>8, <1>9, <1>10, <1>11, <1>12, <1>13,
       ProvisionKeeps
    DEF Next, Provisioning, Organizing, Driving

\* The tables hold what their columns may, at every moment and in any fleet.
THEOREM RosterTypes == Spec => []TypeOK
  <1>1. RosterInv => TypeOK
    BY DEF RosterInv
  <1> QED BY <1>1, RosterInit, RosterNext, PTL DEF Spec

\* Phones in runs and winners of answers stay on the list of their car.
THEOREM PhonesAreCrew == Spec => []RunIsCrewed
  <1>1. RosterInv => RunIsCrewed
    BY DEF RosterInv
  <1> QED BY <1>1, RosterInit, RosterNext, PTL DEF Spec

-----------------------------------------------------------------------------
(* Runs and answers survive the organizers *)

\* No statement of anyone ends a run, or takes from an answer more than its name.
LEMMA ResultsStay ==
  ASSUME RosterInv, [Next]_vars
  PROVE  /\ run \subseteq run'
         /\ \A v \in Vehicles, t \in Tasks :
              answer[v][t] # None => answer'[v][t] \in {answer[v][t], Nobody}
  <1> DEFINE Stay == /\ run \subseteq run'
                     /\ \A v \in Vehicles, t \in Tasks :
                          answer[v][t] # None => answer'[v][t] \in {answer[v][t], Nobody}
  <1>a. TypeOK /\ OfRuns
    BY DEF RosterInv
  <1>b. answer \in [Vehicles -> [Tasks -> Members \cup {None, Nobody}]]
    BY <1>a DEF TypeOK
  <1>c. \A v \in Vehicles : CrewOf(v) \in SUBSET Members
    BY <1>a DEF TypeOK, CrewOf
  <1>1. CASE UNCHANGED vars
    BY <1>1 DEF vars
  <1>2. CASE Provisioning
    BY <1>2 DEF Provisioning, Provision
  <1>3. ASSUME NEW o \in Organizers, Organizing(o)
        PROVE  Stay
    <2>1. CASE \E v \in Vehicles, patch \in Patches : EditStart(o, v, patch)
      BY <2>1 DEF EditStart
    <2>2. CASE EditCrew(o) \/ (\E v \in Vehicles : DeleteStart(o, v)) \/ DeleteCheck(o)
      BY <2>2 DEF EditCrew, DeleteStart, DeleteCheck
    <2>3. CASE EditWrite(o)
      <3>1. edit[o].car \in Vehicles
        BY <2>3 DEF EditWrite, RosterInv, Named
      <3>2. run' = run /\ (answer' = answer \/ answer' = Unattributed(CrewOf(edit[o].car)))
        BY <2>3 DEF EditWrite
      <3> QED BY <1>a, <1>c, <3>1, <3>2, UnattributedFacts
    <2>4. CASE DeleteRow(o)
      <3>1. edit[o].car \in Vehicles
        BY <2>4 DEF DeleteRow, RosterInv, Named
      <3>2. CASE UNCHANGED <<run, answer>>
        BY <3>2
      <3>3. CASE /\ Deletable(edit[o].car) /\ run' = run \ {edit[o].car}
                 /\ answer' = [Unattributed(CrewOf(edit[o].car))
                                 EXCEPT ![edit[o].car] = [t \in Tasks |-> None]]
        <4> DEFINE c == edit[o].car
        <4>1. c \notin run /\ \A t \in Tasks : answer[c][t] = None
          BY <1>a, <3>1, <3>3 DEF Deletable, OfRuns
        <4>2. /\ Unattributed(CrewOf(c)) \in [Vehicles -> [Tasks -> Members \cup {None, Nobody}]]
              /\ \A v \in Vehicles, t \in Tasks :
                   Unattributed(CrewOf(c))[v][t] \in {answer[v][t], Nobody}
          BY <1>a, <1>c, <3>1, UnattributedFacts
        <4>3. \A v \in Vehicles \ {c} : answer'[v] = Unattributed(CrewOf(c))[v]
          BY <3>3, <4>2
        <4> QED BY <3>3, <4>1, <4>2, <4>3
      <3> QED BY <2>4, <3>2, <3>3 DEF DeleteRow
    <2> QED BY <1>3, <2>1, <2>2, <2>3, <2>4 DEF Organizing
  <1>4. CASE \E v \in Vehicles, status \in Reports : SetStatus(v, status)
    BY <1>4 DEF SetStatus
  <1>5. ASSUME NEW p \in Phones, Driving(p)
        PROVE  Stay
    <2>1. CASE (\E v \in Vehicles : JoinStart(p, v)) \/ JoinRun(p)
      BY <2>1 DEF JoinStart, JoinRun
    <2>2. CASE JoinDevice(p) \/ JoinToken(p)
      BY <2>2 DEF JoinDevice, JoinToken
    <2>3. CASE \E t \in Tasks : Submit(p, t)
      BY <2>3, <1>b DEF Submit
    <2> QED BY <1>5, <2>1, <2>2, <2>3 DEF Driving
  <1> QED BY <1>1, <1>2, <1>3, <1>4, <1>5 DEF Next

\* A re-typed roster never deletes a score: the statement of ResultsSurvive.
THEOREM ScoresOutliveRosters == Spec => ResultsSurvive
  <1>1. RosterInv /\ [Next]_vars =>
          [/\ run \subseteq run'
           /\ \A v \in Vehicles, t \in Tasks :
                answer[v][t] # None => answer'[v][t] \in {answer[v][t], Nobody}]_vars
    BY ResultsStay
  <1> QED BY <1>1, RosterInit, RosterNext, PTL DEF Spec, ResultsSurvive

-----------------------------------------------------------------------------
(* The crew of a car is one typed list *)

\* An empty fleet has no crews.
LEMMA CrewInit == Init => CrewInv
  BY DEF Init, CrewInv, Exists, NoCar, NoEdit

\* An edit that touches no row.
LEMMA CrewHolds ==
  ASSUME RosterInv, CrewInv, NEW o \in Organizers, NEW e, edit' = [edit EXCEPT ![o] = e],
         e.list # Keep => Sound(e.list),
         e.pc \in {"crew", "write"} => e.row.code # None,
         e.pc = "write" /\ Exists(e.car) => OneList(e.crew),
         UNCHANGED <<vehicle, crew>>
  PROVE  CrewInv'
  <1>1. edit'[o] = e /\ \A q \in Organizers \ {o} : edit'[q] = edit[q]
    BY DEF RosterInv, TypeOK
  <1>2. \A q \in Organizers :
          /\ edit'[q].list # Keep => Sound(edit'[q].list)
          /\ edit'[q].pc \in {"crew", "write"} => edit'[q].row.code # None
          /\ edit'[q].pc = "write" /\ Exists(edit'[q].car) => OneList(edit'[q].crew)
    BY <1>1 DEF CrewInv
  <1>3. \A v : Exists(v)' <=> Exists(v)
    BY DEF Exists
  <1>4. \A v : CrewOf(v)' = CrewOf(v)
    BY DEF CrewOf
  <1> QED BY <1>2, <1>3, <1>4 DEF CrewInv

\* The crew of one car is written, or goes with it: no other car's changes.
LEMMA CrewWritten ==
  ASSUME RosterInv, CrewInv, NEW v \in Vehicles, NEW row, NEW members,
         vehicle' = [vehicle EXCEPT ![v] = row],
         crew' = (crew \ CrewOf(v)) \cup members, \A m \in members : Car(m) = v,
         row.code # None => Exists(v) /\ OneList(members),
         row.code = None => members = {},
         NEW o \in Organizers, edit' = [edit EXCEPT ![o] = NoEdit]
  PROVE  CrewInv'
  <1>a. /\ vehicle'[v] = row /\ \A w \in Vehicles \ {v} : vehicle'[w] = vehicle[w]
        /\ edit'[o] = NoEdit /\ \A q \in Organizers \ {o} : edit'[q] = edit[q]
        /\ NoEdit.pc = "idle" /\ NoEdit.list = Keep
        /\ crew \subseteq Members
    BY DEF RosterInv, TypeOK, NoEdit
  <1>b. CrewOf(v)' = members /\ \A w \in Vehicles \ {v} : CrewOf(w)' = CrewOf(w)
    BY DEF CrewOf
  <1>c. /\ Exists(v)' <=> row.code # None
        /\ \A w \in Vehicles \ {v} : Exists(w)' <=> Exists(w)
    BY <1>a DEF Exists
  <1>1. \A m \in crew' : Exists(Car(m))'
    <2>1. \A m \in members : Exists(Car(m))'
      BY <1>c
    <2>2. \A m \in crew \ CrewOf(v) : Car(m) \in Vehicles \ {v}
      BY <1>a DEF CrewOf, Car, Members
    <2> QED BY <1>c, <2>1, <2>2 DEF CrewInv
  <1>2. \A w \in Vehicles : Exists(w)' => OneList(CrewOf(w)')
    BY <1>b, <1>c DEF CrewInv
  <1>3. ASSUME NEW q \in Organizers
        PROVE  (/\ edit[q].list # Keep => Sound(edit[q].list)
                /\ edit[q].pc \in {"crew", "write"} => edit[q].row.code # None
                /\ edit[q].pc = "write" /\ Exists(edit[q].car) => OneList(edit[q].crew))'
    <2>1. CASE q = o
      BY <1>a, <2>1
    <2>2. CASE q # o
      <3>1. edit[q].pc = "write" => edit[q].car \in Vehicles
        BY DEF RosterInv, Named
      <3>2. edit'[q] = edit[q]
        BY <1>a, <2>2
      <3>3. edit[q].pc = "write" /\ vehicle'[edit[q].car].code # None => Exists(edit[q].car)
        BY <1>a, <3>1 DEF Exists
      <3>4. edit[q].pc = "write" /\ Exists(edit[q].car) => OneList(edit[q].crew)
        BY DEF CrewInv
      <3>5. /\ edit[q].list # Keep => Sound(edit[q].list)
            /\ edit[q].pc \in {"crew", "write"} => edit[q].row.code # None
        BY DEF CrewInv
      <3> QED BY <3>2, <3>3, <3>4, <3>5 DEF Exists, OneList, PeopleOf
    <2> QED BY <2>1, <2>2
  <1>4. (\A w \in Vehicles : Exists(w) => OneList(CrewOf(w)))'
    BY <1>2 DEF OneList
  <1> QED BY <1>1, <1>3, <1>4 DEF CrewInv

\* New cars get the crew that was typed for them, and no edit was under way on them.
LEMMA CrewProvided ==
  ASSUME RosterInv, CrewInv,
         NEW cars \in SUBSET Vehicles, NEW code \in [cars -> Codes], NEW list \in [cars -> Lists],
         Provision(cars, code, list)
  PROVE  CrewInv'
  <1>a. /\ \A v \in cars : vehicle'[v].code = code[v] /\ code[v] # None
        /\ \A v \in Vehicles \ cars : vehicle'[v] = vehicle[v]
        /\ \A v \in cars : ~Exists(v) /\ \A o \in Organizers : edit[o].car # v
        /\ edit' = edit
    BY RosterConstants DEF Provision, FreshVehicle
  <1>b. \A v \in cars :
          /\ \A m \in Built(v, list[v]) : Car(m) = v
          /\ OneList(Built(v, list[v]))
    BY BuiltFacts DEF Provision
  <1>c. \A v \in cars : CrewOf(v)' = Built(v, list[v])
    <2>1. \A v \in cars : CrewOf(v) = {}
      BY <1>a DEF CrewInv, CrewOf
    <2>2. crew' = crew \cup UNION {Built(v, list[v]) : v \in cars}
      BY DEF Provision
    <2> QED BY <1>b, <2>1, <2>2 DEF CrewOf
  <1>d. \A v \in Vehicles \ cars : CrewOf(v)' = CrewOf(v)
    BY <1>b DEF CrewOf, Provision
  <1>1. \A m \in crew' : vehicle'[Car(m)].code # None
    <2>1. \A m \in crew : Car(m) \in Vehicles /\ Exists(Car(m))
      BY DEF RosterInv, TypeOK, CrewInv, Car, Members
    <2>2. \A m \in crew' : m \in crew \/ Car(m) \in cars
      BY <1>b DEF Provision
    <2> QED BY <1>a, <2>1, <2>2 DEF Exists
  <1>2. \A v \in Vehicles : vehicle'[v].code # None => OneList(CrewOf(v)')
    BY <1>a, <1>b, <1>c, <1>d DEF CrewInv, Exists
  <1>3. \A o \in Organizers :
          edit[o].pc = "write" /\ vehicle'[edit[o].car].code # None => OneList(edit[o].crew)
    BY <1>a DEF RosterInv, Named, CrewInv, Exists
  <1>4. \A o \in Organizers :
          /\ edit[o].list # Keep => Sound(edit[o].list)
          /\ edit[o].pc \in {"crew", "write"} => edit[o].row.code # None
    BY DEF CrewInv
  <1> QED BY <1>a, <1>1, <1>2, <1>3, <1>4 DEF CrewInv, Exists, OneList, PeopleOf

\* Every statement of every handler keeps each crew one list.
LEMMA CrewNext == RosterInv /\ CrewInv /\ [Next]_vars => CrewInv'
  <1> SUFFICES ASSUME RosterInv, CrewInv, [Next]_vars
               PROVE  CrewInv'
    OBVIOUS
  <1>a. /\ vehicle \in [Vehicles -> [code : Codes \cup {None}, status : Statuses]]
        /\ edit \in [Organizers -> [pc : {"idle", "crew", "write", "hasRun", "delete"},
                car : Vehicles \cup {None}, row : [code : Codes \cup {None}, status : Statuses],
                crew : SUBSET Members, list : Lists \cup {Keep}, status : Statuses \cup {Keep}]]
        /\ Named
    BY DEF RosterInv, TypeOK
  <1>b. NoEdit.pc = "idle" /\ NoEdit.list = Keep
    BY DEF NoEdit
  <1>1. ASSUME NEW o \in Organizers, NEW v \in Vehicles, NEW patch \in Patches,
               EditStart(o, v, patch)
        PROVE  CrewInv'
    <2> DEFINE code == IF patch.code = Keep THEN vehicle[v].code ELSE patch.code
               e == [NoEdit EXCEPT !.pc = "crew", !.car = v, !.list = patch.list,
                       !.status = patch.status, !.row.code = code,
                       !.row.status = StatusAfter(v, patch)]
    <2>1. code # None
      BY <1>1, RosterConstants DEF EditStart, Exists
    <2> HIDE DEF code
    <2>2. e.pc = "crew" /\ e.list = patch.list /\ e.row.code = code
      BY DEF NoEdit, NoCar
    <2>3. edit' = [edit EXCEPT ![o] = e] /\ UNCHANGED <<vehicle, crew>>
      BY <1>1 DEF EditStart, code
    <2>4. patch.list # Keep => Sound(patch.list)
      BY <1>1 DEF EditStart
    <2> HIDE DEF e
    <2> QED BY <2>1, <2>2, <2>3, <2>4, CrewHolds
  <1>2. ASSUME NEW o \in Organizers, EditCrew(o)
        PROVE  CrewInv'
    <2> DEFINE v == edit[o].car
               list == edit[o].list
               members == IF list = Keep THEN CrewOf(v) ELSE Built(v, list)
               e == [edit[o] EXCEPT !.pc = "write", !.crew = members]
    <2>1. v \in Vehicles /\ edit[o].row.code # None
      BY <1>2, <1>a DEF EditCrew, Named, CrewInv
    <2>2. Exists(v) => OneList(members)
      <3>1. CASE list = Keep
        BY <2>1, <3>1 DEF CrewInv
      <3>2. CASE list # Keep
        <4>1. list \in Lists /\ Sound(list) /\ Room(v, list)
          BY <1>2, <1>a, <3>2 DEF EditCrew, CrewInv
        <4> QED BY <2>1, <3>2, <4>1, BuiltFacts
      <3> QED BY <3>1, <3>2
    <2> HIDE DEF members
    <2>3. e.crew = members /\ e.car = v /\ e.list = list /\ e.row = edit[o].row
      BY <1>a
    <2>4. edit' = [edit EXCEPT ![o] = e] /\ UNCHANGED <<vehicle, crew>>
      BY <1>2, <1>a DEF EditCrew, members
    <2>5. list # Keep => Sound(list)
      BY DEF CrewInv
    <2> HIDE DEF e
    <2> QED BY <2>1, <2>2, <2>3, <2>4, <2>5, CrewHolds
  <1>3. ASSUME NEW o \in Organizers, EditWrite(o)
        PROVE  CrewInv'
    <2> DEFINE v == edit[o].car
    <2>1. CASE UNCHANGED <<vehicle, crew>>
      BY <1>3, <1>b, <2>1, CrewHolds DEF EditWrite
    <2>2. CASE /\ Exists(v) /\ vehicle' = [vehicle EXCEPT ![v] = edit[o].row]
               /\ crew' = Replaced(v, edit[o].crew)
      <3>1. /\ v \in Vehicles /\ \A m \in edit[o].crew : Car(m) = v
            /\ edit[o].row.code # None /\ OneList(edit[o].crew)
            /\ edit' = [edit EXCEPT ![o] = NoEdit]
        BY <1>3, <1>a, <2>2 DEF EditWrite, Named, CrewInv
      <3> HIDE DEF v
      <3> QED BY <2>2, <3>1, CrewWritten DEF Replaced
    <2> QED BY <1>3, <2>1, <2>2 DEF EditWrite
  <1>4. ASSUME NEW o \in Organizers, NEW v \in Vehicles, DeleteStart(o, v)
        PROVE  CrewInv'
    <2> DEFINE e == [NoEdit EXCEPT !.pc = "hasRun", !.car = v]
    <2>1. e.pc = "hasRun" /\ e.list = Keep
      BY DEF NoEdit
    <2>2. edit' = [edit EXCEPT ![o] = e] /\ UNCHANGED <<vehicle, crew>>
      BY <1>4 DEF DeleteStart
    <2> HIDE DEF e
    <2> QED BY <2>1, <2>2, CrewHolds
  <1>5. ASSUME NEW o \in Organizers, DeleteCheck(o)
        PROVE  CrewInv'
    <2> DEFINE e == IF edit[o].car \in run THEN NoEdit ELSE [edit[o] EXCEPT !.pc = "delete"]
    <2>1. e.pc \in {"idle", "delete"} /\ (e.list # Keep => Sound(e.list))
      BY <1>a, <1>b DEF CrewInv
    <2>2. edit' = [edit EXCEPT ![o] = e] /\ UNCHANGED <<vehicle, crew>>
      BY <1>5, <1>a DEF DeleteCheck
    <2> HIDE DEF e
    <2> QED BY <2>1, <2>2, CrewHolds
  <1>6. ASSUME NEW o \in Organizers, DeleteRow(o)
        PROVE  CrewInv'
    <2> DEFINE v == edit[o].car
    <2>1. CASE UNCHANGED <<vehicle, crew>>
      BY <1>6, <1>b, <2>1, CrewHolds DEF DeleteRow
    <2>2. CASE /\ vehicle' = [vehicle EXCEPT ![v] = NoCar] /\ crew' = crew \ CrewOf(v)
      <3>1. v \in Vehicles /\ edit' = [edit EXCEPT ![o] = NoEdit]
        BY <1>6, <1>a DEF DeleteRow, Named
      <3>2. NoCar.code = None /\ crew' = (crew \ CrewOf(v)) \cup {}
        BY <2>2 DEF NoCar
      <3>3. PICK members : members = {}
        OBVIOUS
      <3>4. /\ \A m \in members : Car(m) = v
            /\ crew' = (crew \ CrewOf(v)) \cup members
        BY <3>2, <3>3
      <3>5. PICK row : row = NoCar
        OBVIOUS
      <3>6. row.code = None /\ vehicle' = [vehicle EXCEPT ![v] = row]
        BY <2>2, <3>2, <3>5
      <3> HIDE DEF v
      <3> QED BY <3>1, <3>3, <3>4, <3>6, CrewWritten
    <2> QED BY <1>6, <2>1, <2>2 DEF DeleteRow
  <1>7. ASSUME NEW v \in Vehicles, NEW status \in Reports, SetStatus(v, status)
        PROVE  CrewInv'
    <2>1. \A w \in Vehicles : vehicle'[w].code = vehicle[w].code
      BY <1>7, <1>a DEF SetStatus
    <2>2. UNCHANGED <<crew, edit>>
      BY <1>7 DEF SetStatus
    <2>3. \A m \in crew : Car(m) \in Vehicles
      BY DEF RosterInv, TypeOK, Car, Members
    <2>4. \A o \in Organizers : edit[o].pc = "write" => edit[o].car \in Vehicles
      BY <1>a DEF Named
    <2>5. \A w : CrewOf(w)' = CrewOf(w)
      BY <2>2 DEF CrewOf
    <2> QED BY <2>1, <2>2, <2>3, <2>4, <2>5 DEF CrewInv, Exists, OneList, PeopleOf
  <1>8. CASE UNCHANGED <<vehicle, crew, edit>>
    BY <1>8 DEF CrewInv, Exists, CrewOf, OneList, PeopleOf
  <1>9. ASSUME NEW p \in Phones, Driving(p)
        PROVE  UNCHANGED <<vehicle, crew, edit>>
    BY <1>9 DEF Driving, JoinStart, JoinRun, JoinDevice, JoinToken, Submit
  <1> QED
    BY <1>1, <1>2, <1>3, <1>4, <1>5, <1>6, <1>7, <1>8, <1>9, CrewProvided
    DEF Next, Provisioning, Organizing, vars

\* Members who are, each once, the people on a list are as many as the list is long.
LEMMA OneListSize ==
  ASSUME NEW members \in SUBSET Members, NEW list \in Lists, Sound(list),
         \A m, n \in members : Who(m) = Who(n) => m = n,
         PeopleOf(members) = ToSet(list)
  PROVE  Cardinality(members) = Len(list)
  <1> DEFINE place == [i \in 1..Len(list) |-> CHOOSE m \in members : Who(m) = list[i]]
  <1>1. list \in Seq(People) /\ Len(list) \in Nat /\ DOMAIN list = 1..Len(list)
    BY RosterConstants
  <1>2. \A i \in 1..Len(list) : place[i] \in members /\ Who(place[i]) = list[i]
    <2>1. \A i \in 1..Len(list) : \E m \in members : Who(m) = list[i]
      BY <1>1 DEF PeopleOf, ToSet
    <2> QED BY <2>1
  <1> HIDE DEF place
  <1>3. place \in [1..Len(list) -> members]
    BY <1>2 DEF place
  <1>4. \A i, j \in 1..Len(list) : place[i] = place[j] => i = j
    BY <1>1, <1>2 DEF Sound, IsInjective
  <1>5. \A m \in members : \E i \in 1..Len(list) : place[i] = m
    <2> SUFFICES ASSUME NEW m \in members
                 PROVE  \E i \in 1..Len(list) : place[i] = m
      OBVIOUS
    <2>1. PICK i \in 1..Len(list) : Who(m) = list[i]
      BY <1>1 DEF PeopleOf, ToSet
    <2> QED BY <1>2, <2>1
  <1>6. ExistsBijection(1..Len(list), members)
    BY <1>3, <1>4, <1>5
    DEF ExistsBijection, Bijection, Injection, Surjection, IsInjective
  <1>7. IsFiniteSet(1..Len(list)) /\ Cardinality(1..Len(list)) = Len(list)
    BY <1>1, FS_Interval
  <1> QED BY <1>6, <1>7, FS_Bijection

\* The crew of a car is a list somebody typed, whatever edits overlap.
THEOREM CrewsAreTyped == Spec => []CrewIsOneList
  <1>1. RosterInv /\ CrewInv => CrewIsOneList
    <2> SUFFICES ASSUME RosterInv, CrewInv, NEW v \in Vehicles, Exists(v)
                 PROVE  \E list \in Lists :
                          /\ PeopleOf(CrewOf(v)) = ToSet(list)
                          /\ Cardinality(CrewOf(v)) = Len(list)
      BY DEF CrewIsOneList
    <2>1. CrewOf(v) \in SUBSET Members
      BY DEF RosterInv, TypeOK, CrewOf
    <2>2. \A m, n \in CrewOf(v) : Who(m) = Who(n) => m = n
      BY DEF CrewInv, OneList
    <2>3. PICK list \in Lists : Sound(list) /\ PeopleOf(CrewOf(v)) = ToSet(list)
      BY DEF CrewInv, OneList
    <2> QED BY <2>1, <2>2, <2>3, OneListSize
  <1> QED BY <1>1, RosterInit, RosterNext, CrewInit, CrewNext, PTL DEF Spec

-----------------------------------------------------------------------------
(* The status of a car *)

\* An edit that goes on keeps what it read and what it was asked to change.
LEMMA EditGoesOn ==
  ASSUME RosterInv, Next, NEW o \in Organizers
  PROVE  /\ edit[o].pc # "idle" /\ edit'[o].pc \in {"crew", "write"} =>
              /\ edit[o].pc \in {"crew", "write"}
              /\ edit'[o].car = edit[o].car /\ edit'[o].row = edit[o].row
              /\ edit'[o].status = edit[o].status
         /\ edit[o].pc = "idle" /\ edit'[o].pc \in {"crew", "write"} /\ edit'[o].status = Keep =>
              vehicle' = vehicle /\ edit'[o].row.status = vehicle[edit'[o].car].status
  <1> DEFINE
        Kept == edit[o].pc # "idle" /\ edit'[o].pc \in {"crew", "write"} =>
                  /\ edit[o].pc \in {"crew", "write"}
                  /\ edit'[o].car = edit[o].car /\ edit'[o].row = edit[o].row
                  /\ edit'[o].status = edit[o].status
        Read == (/\ edit[o].pc = "idle" /\ edit'[o].pc \in {"crew", "write"}
                 /\ edit'[o].status = Keep) =>
                  vehicle' = vehicle /\ edit'[o].row.status = vehicle[edit'[o].car].status
        Goal == Kept /\ Read
  <1>a. edit \in [Organizers -> [pc : {"idle", "crew", "write", "hasRun", "delete"},
                car : Vehicles \cup {None}, row : [code : Codes \cup {None}, status : Statuses],
                crew : SUBSET Members, list : Lists \cup {Keep}, status : Statuses \cup {Keep}]]
    BY DEF RosterInv, TypeOK
  <1>b. NoEdit.pc = "idle"
    BY DEF NoEdit
  <1>1. CASE edit' = edit
    BY <1>1
  <1>2. ASSUME NEW q \in Organizers, Organizing(q)
        PROVE  Goal
    <2>1. CASE q # o
      <3>1. edit'[o] = edit[o]
        BY <1>2, <1>a, <2>1
        DEF Organizing, EditStart, EditCrew, EditWrite, DeleteStart, DeleteCheck, DeleteRow
      <3> QED BY <3>1
    <2>2. ASSUME q = o, NEW v \in Vehicles, NEW patch \in Patches, EditStart(o, v, patch)
          PROVE  Goal
      <3>1. /\ edit'[o].car = v /\ edit'[o].status = patch.status
            /\ edit'[o].row.status = StatusAfter(v, patch)
            /\ edit[o].pc = "idle" /\ vehicle' = vehicle
        BY <1>a, <2>2 DEF EditStart, NoEdit, NoCar
      <3> QED BY <3>1 DEF StatusAfter
    <2>3. CASE q = o /\ EditCrew(o)
      <3>1. /\ edit'[o].car = edit[o].car /\ edit'[o].row = edit[o].row
            /\ edit'[o].status = edit[o].status /\ edit[o].pc = "crew"
        BY <1>a, <2>3 DEF EditCrew
      <3> QED BY <3>1
    <2>4. CASE q = o /\ (EditWrite(o) \/ DeleteRow(o))
      <3>1. edit'[o].pc = "idle"
        BY <1>a, <1>b, <2>4 DEF EditWrite, DeleteRow
      <3> QED BY <3>1
    <2>5. CASE q = o /\ ((\E v \in Vehicles : DeleteStart(o, v)) \/ DeleteCheck(o))
      <3>1. edit'[o].pc \notin {"crew", "write"}
        <4>1. CASE \E v \in Vehicles : DeleteStart(o, v)
          BY <1>a, <4>1 DEF DeleteStart, NoEdit
        <4>2. CASE DeleteCheck(o)
          BY <1>a, <1>b, <4>2 DEF DeleteCheck
        <4> QED BY <2>5, <4>1, <4>2
      <3> QED BY <3>1
    <2> HIDE DEF Goal
    <2> QED BY <1>2, <2>1, <2>2, <2>3, <2>4, <2>5 DEF Organizing
  <1>3. CASE Provisioning \/ \E v \in Vehicles, status \in Reports : SetStatus(v, status)
    BY <1>1, <1>3 DEF Provisioning, Provision, SetStatus
  <1>4. CASE \E p \in Phones : Driving(p)
    BY <1>1, <1>4 DEF Driving, JoinStart, JoinRun, JoinDevice, JoinToken, Submit
  <1> QED BY <1>2, <1>3, <1>4 DEF Next

\* An edit that keeps the status, and was not overtaken, holds the stored one.
LEMMA StatusNext ==
  RosterInv /\ StatusInv /\ [MCNext]_<<vars, overtaken>> => StatusInv'
  <1>1. ASSUME RosterInv, StatusInv, MCNext
        PROVE  StatusInv'
    <2> SUFFICES ASSUME NEW o \in Organizers, edit'[o].pc \in {"crew", "write"},
                        edit'[o].status = Keep, o \notin overtaken'
                 PROVE  edit'[o].row.status = vehicle'[edit'[o].car].status
      BY DEF StatusInv
    <2>1. CASE edit[o].pc = "idle"
      BY <1>1, <2>1, EditGoesOn DEF MCNext
    <2>2. CASE edit[o].pc # "idle"
      <3>1. o \notin overtaken /\ vehicle'[edit[o].car].status = vehicle[edit[o].car].status
        BY <1>1, <2>2 DEF MCNext
      <3>2. /\ edit[o].pc \in {"crew", "write"} /\ edit'[o].car = edit[o].car
            /\ edit'[o].row = edit[o].row /\ edit'[o].status = edit[o].status
        BY <1>1, <2>2, EditGoesOn DEF MCNext
      <3> QED BY <1>1, <3>1, <3>2 DEF StatusInv
    <2> QED BY <2>1, <2>2
  <1>2. ASSUME StatusInv, UNCHANGED <<vars, overtaken>>
        PROVE  StatusInv'
    BY <1>2 DEF StatusInv, vars
  <1> QED BY <1>1, <1>2

\* The status of a car changes for a reason: the statement of StatusStands, of one step.
LEMMA StatusChanges ==
  ASSUME RosterInv, StatusInv, MCNext, NEW v \in Vehicles,
         Exists(v), Exists(v)', vehicle'[v].status # vehicle[v].status, edit' # edit
  PROVE  \E o \in Organizers :
           /\ edit[o].car = v /\ edit[o].pc = "write" /\ edit'[o].pc = "idle"
           /\ edit[o].status # Keep \/ o \in overtaken
  <1>a. /\ vehicle \in [Vehicles -> [code : Codes \cup {None}, status : Statuses]]
        /\ DOMAIN edit = Organizers
        /\ Next
    BY DEF RosterInv, TypeOK, MCNext
  <1>1. PICK o \in Organizers : Organizing(o)
    <2>1. ~Provisioning /\ ~\E w \in Vehicles, status \in Reports : SetStatus(w, status)
      BY DEF Provisioning, Provision, SetStatus
    <2>2. ~\E p \in Phones : Driving(p)
      BY DEF Driving, JoinStart, JoinRun, JoinDevice, JoinToken, Submit
    <2> QED BY <1>a, <2>1, <2>2 DEF Next
  <1>2. ~DeleteRow(o)
    <2> SUFFICES ASSUME DeleteRow(o)
                 PROVE  FALSE
      OBVIOUS
    <2>1. vehicle' = [vehicle EXCEPT ![edit[o].car] = NoCar]
      BY DEF DeleteRow
    <2>2. edit[o].car # v
      BY <1>a, <2>1 DEF Exists, NoCar
    <2> QED BY <1>a, <2>1, <2>2
  <1>3. EditWrite(o) /\ vehicle' = [vehicle EXCEPT ![edit[o].car] = edit[o].row]
    BY <1>1, <1>2 DEF Organizing, EditStart, EditCrew, EditWrite, DeleteStart, DeleteCheck
  <1>4. edit[o].car = v /\ edit[o].pc = "write" /\ edit'[o].pc = "idle"
    BY <1>a, <1>3 DEF EditWrite, NoEdit
  <1>5. edit[o].row.status # vehicle[v].status
    BY <1>a, <1>3, <1>4
  <1> QED BY <1>4, <1>5 DEF StatusInv

\* An alert's status is not lost to an edit that did not mean it: StatusStands.
THEOREM AlertsStatusStands == MCSpec => StatusStands
  <1> DEFINE Stands ==
        \A v \in Vehicles :
          Exists(v) /\ Exists(v)' /\ vehicle'[v].status # vehicle[v].status =>
            \/ edit' = edit
            \/ \E o \in Organizers :
                 /\ edit[o].car = v /\ edit[o].pc = "write" /\ edit'[o].pc = "idle"
                 /\ edit[o].status # Keep \/ o \in overtaken
  <1>1. MCInit => RosterInv /\ StatusInv
    <2>1. MCInit => StatusInv
      BY DEF MCInit, Init, StatusInv, NoEdit
    <2> QED BY <2>1, RosterInit DEF MCInit
  <1>2. [MCNext]_<<vars, overtaken>> => [Next]_vars
    BY DEF MCNext
  <1>3. RosterInv /\ StatusInv /\ [MCNext]_<<vars, overtaken>> => [Stands]_vars
    BY StatusChanges
  <1>4. MCSpec => [][Stands]_vars
    BY <1>1, <1>2, <1>3, RosterNext, StatusNext, PTL DEF MCSpec
  <1> QED BY <1>4 DEF StatusStands

-----------------------------------------------------------------------------
(***************************************************************************)
(* The spreadsheet (RallySheet).  The same package provisions the fleets   *)
(* whose races are above; here one organizer works at a time, and what is  *)
(* proved is that neither way in goes round the rules, and that an export  *)
(* comes back.  That needs to know what the recursive definitions over     *)
(* texts give, of any length: Climb is an induction over numbers up to a   *)
(* bound, Recursion says that a recursion over them has a function.        *)
(***************************************************************************)

\* A text of rows holds finitely many.
LEMMA RowCount ==
  ASSUME NEW S, NEW rows, rows \in Seq(S)
  PROVE  IsFiniteSet(ToSet(rows)) /\ rows \in Seq(ToSet(rows))
<1>1. DOMAIN rows = 1..Len(rows) /\ Len(rows) \in Nat /\ 0 \in Int /\ 1 \in Int
  OBVIOUS
<1>2. IsFiniteSet(DOMAIN rows)
  BY <1>1, FS_Interval
<1>3. rows \in Surjection(DOMAIN rows, ToSet(rows))
  BY <1>1 DEF Surjection, ToSet
<1>4. IsFiniteSet(ToSet(rows))
  BY <1>2, <1>3, FS_Surjection
<1>5. rows \in Seq(ToSet(rows))
  BY <1>1 DEF ToSet
<1> QED
  BY <1>4, <1>5

\* What holds at 0 and is handed on up to a number holds up to it.
LEMMA Climb ==
  ASSUME NEW N \in Nat, NEW S, 0 \in S, \A n \in 0..N : n < N /\ n \in S => n + 1 \in S
  PROVE  \A n \in 0..N : n \in S
<1> SUFFICES ASSUME NEW n \in 0..N, n \notin S
             PROVE  FALSE
  OBVIOUS
<1> DEFINE bad == {k \in 0..N : k \notin S}
<1>1. bad \in SUBSET Nat /\ bad # {}
  OBVIOUS
<1>2. \E k \in bad : \A m \in bad : k <= m
  <2> HIDE DEF bad
  <2> QED
    BY <1>1, LeastNumber
<1>3. PICK k \in bad : \A m \in bad : k <= m
  BY <1>2
<1>4. k \in 0..N /\ k \notin S /\ k # 0
  BY <1>3
<1>5. k - 1 \in 0..N /\ k - 1 < N /\ k - 1 \notin bad /\ (k - 1) + 1 = k
  BY <1>3, <1>4
<1> QED
  BY <1>4, <1>5

\* A start and a step, over the numbers up to a bound, and the function they recur to.
Stepper(N, S, start, step) == N \in Nat /\ start \in S /\ step \in [(1..N) \X S -> S]
Steps(f, N, S, start, step) ==
  f \in [0..N -> S] /\ f[0] = start /\ \A n \in 1..N : f[n] = step[<<n, f[n - 1]>>]

\* Such a recursion always has its function.
LEMMA Recursion ==
  ASSUME NEW N, NEW S, NEW start, NEW step, Stepper(N, S, start, step)
  PROVE  \E f : Steps(f, N, S, start, step)
<1> USE DEF Stepper
<1> DEFINE Defined(k, f) ==
             f \in [0..k -> S] /\ f[0] = start /\ \A n \in 1..k : f[n] = step[<<n, f[n - 1]>>]
           done == {k \in 0..N : \E f : Defined(k, f)}
<1>1. 0 \in done
  <2> DEFINE f == [n \in 0..0 |-> start]
  <2>1. Defined(0, f)
    OBVIOUS
  <2> HIDE DEF f, Defined
  <2> QED
    BY <2>1
<1>2. ASSUME NEW k \in 0..N, k < N, k \in done
      PROVE  k + 1 \in done
  <2>1. PICK f : Defined(k, f)
    BY <1>2
  <2> DEFINE g == [n \in 0..(k + 1) |-> IF n <= k THEN f[n] ELSE step[<<n, f[k]>>]]
  <2>2. k \in Nat /\ k + 1 \in 1..N /\ k \in 0..k /\ (k + 1) - 1 = k
    BY <1>2
  <2>3. step[<<k + 1, f[k]>>] \in S
    BY <2>1, <2>2
  <2>4. g \in [0..(k + 1) -> S]
    BY <2>1, <2>2, <2>3
  <2>5. g[0] = start
    BY <2>1, <2>2
  <2>6. ASSUME NEW n \in 1..(k + 1)
        PROVE  g[n] = step[<<n, g[n - 1]>>]
    <3>1. CASE n = k + 1
      BY <2>2, <3>1
    <3>2. CASE n # k + 1
      <4>1. n \in 1..k /\ n \in 0..(k+1) /\ n - 1 \in 0..(k+1) /\ n <= k /\ n - 1 <= k
        BY <2>2, <3>2
      <4>2. g[n] = f[n] /\ g[n - 1] = f[n - 1]
        BY <4>1
      <4> QED
        BY <2>1, <4>1, <4>2
    <3> QED
      BY <3>1, <3>2
  <2>7. Defined(k + 1, g)
    BY <2>4, <2>5, <2>6
  <2>8. k + 1 \in 0..N
    BY <2>2
  <2> QED
    BY <2>7, <2>8
<1> HIDE DEF done
<1>3. N \in done
  BY <1>1, <1>2, Climb
<1> QED
  BY <1>3 DEF done, Steps

\* f is Join, text by text.
Joined(f, W, texts, sep) ==
  /\ f \in [0..Len(texts) -> Seq(W)]
  /\ Join(texts, sep) = f[Len(texts)]
  /\ f[0] = <<>>
  /\ \A n \in 1..Len(texts) :
       f[n] = IF n = 1 THEN texts[1] ELSE f[n - 1] \o <<sep>> \o texts[n]

\* Join puts one text after another, a separator between them.
LEMMA JoinBy ==
  ASSUME NEW W, NEW texts \in Seq(Seq(W)), NEW sep \in W
  PROVE  \E f : Joined(f, W, texts, sep)
<1> DEFINE N == Len(texts)
           S == Seq(W)
           Next1(n, t) == IF n = 1 THEN texts[1] ELSE t \o <<sep>> \o texts[n]
           step == [x \in (1..N) \X S |-> Next1(x[1], x[2])]
           f == CHOOSE h : h = [n \in 0..N |->
                  IF n = 0 THEN <<>> ELSE IF n = 1 THEN texts[1]
                  ELSE h[n - 1] \o <<sep>> \o texts[n]]
<1>1. N \in Nat /\ <<>> \in Seq(W) /\ \A n \in 1..N : texts[n] \in Seq(W)
  OBVIOUS
<1>2. step \in [(1..N) \X S -> S]
  <2>1. \A n \in 1..N, t \in S : Next1(n, t) \in Seq(W)
    BY <1>1
  <2> HIDE DEF Next1
  <2> QED
    BY <2>1
<1>3. \A n \in 1..N, t \in S : step[<<n, t>>] = Next1(n, t)
  <2> HIDE DEF Next1
  <2> QED
    OBVIOUS
<1> HIDE DEF step, S
<1>4. PICK g : Steps(g, N, S, <<>>, step)
  <2>1. Stepper(N, S, <<>>, step)
    BY <1>1, <1>2 DEF Stepper, S
  <2> HIDE DEF N, S
  <2> QED
    BY <2>1, Recursion
<1>g. g \in [0..N -> S] /\ g[0] = <<>> /\ \A n \in 1..N : g[n] = step[<<n, g[n - 1]>>]
  BY <1>4 DEF Steps
<1>5. \A n \in 1..N : n - 1 \in 0..N /\ n \in 0..N /\ n # 0
  BY <1>1
<1>6. \A n \in 1..N : g[n] = Next1(n, g[n - 1])
  BY <1>3, <1>g, <1>5
<1>7. g = [n \in 0..N |->
            IF n = 0 THEN <<>> ELSE IF n = 1 THEN texts[1] ELSE g[n - 1] \o <<sep>> \o texts[n]]
  <2>1. \A n \in 0..N : n = 0 \/ n \in 1..N
    BY <1>1
  <2>2. \A n \in 0..N : g[n] =
          IF n = 0 THEN <<>> ELSE IF n = 1 THEN texts[1] ELSE g[n - 1] \o <<sep>> \o texts[n]
    BY <1>g, <1>6, <2>1
  <2> QED
    BY <1>g, <2>2
<1>8. f = [n \in 0..N |->
            IF n = 0 THEN <<>> ELSE IF n = 1 THEN texts[1] ELSE f[n - 1] \o <<sep>> \o texts[n]]
  BY <1>7
<1>9. Join(texts, sep) = f[N]
  BY DEF Join
<1> HIDE DEF f, N
<1>10. f[0] = <<>> /\ \A n \in 1..N :
         f[n] = IF n = 1 THEN texts[1] ELSE f[n - 1] \o <<sep>> \o texts[n]
  <2>1. 0 \in 0..N
    BY <1>1
  <2>2. f[0] = <<>>
    BY <1>8, <2>1
  <2>3. ASSUME NEW n \in 1..N
        PROVE  f[n] = IF n = 1 THEN texts[1] ELSE f[n - 1] \o <<sep>> \o texts[n]
    BY <1>5, <1>8
  <2> QED
    BY <2>2, <2>3
<1>11. \A n \in 0..N : f[n] \in S
  <2> DEFINE good == {n \in 0..N : f[n] \in S}
  <2>1. 0 \in good
    <3>1. 0 \in 0..N /\ f[0] = <<>> /\ <<>> \in S
      BY <1>1, <1>10 DEF S
    <3> QED
      BY <3>1
  <2>2. ASSUME NEW n \in 0..N, n < N, n \in good
        PROVE  n + 1 \in good
    <3>1. n + 1 \in 1..N /\ (n + 1) - 1 = n /\ n + 1 \in 0..N /\ f[n] \in S
      BY <1>1, <2>2
    <3>2. Next1(n + 1, f[n]) \in S
      BY <1>1, <3>1 DEF S
    <3>3. f[n + 1] = Next1(n + 1, f[n])
      BY <1>10, <3>1
    <3> HIDE DEF Next1
    <3> QED
      BY <3>1, <3>2, <3>3
  <2> HIDE DEF good
  <2>3. \A n \in 0..N : n \in good
    BY <1>1, <2>1, <2>2, Climb
  <2> QED
    BY <2>3 DEF good
<1>12. f \in [0..N -> S]
  BY <1>8, <1>11
<1> QED
  BY <1>9, <1>10, <1>12 DEF N, S, Joined

\* One word is read: a separator begins a new part while there may be one more, any
\* other word goes to the last part.
Read(parts, word, sep, limit) ==
  IF word = sep /\ Len(parts) < limit
    THEN Append(parts, <<>>)
    ELSE [parts EXCEPT ![Len(parts)] = Append(@, word)]

\* Parts remain parts, and at most one is new.
LEMMA ReadType ==
  ASSUME NEW W, NEW parts \in Seq(Seq(W)) \ {<<>>}, NEW word \in W, NEW sep, NEW limit
  PROVE  /\ Read(parts, word, sep, limit) \in Seq(Seq(W)) \ {<<>>}
         /\ Len(Read(parts, word, sep, limit)) <= Len(parts) + 1
<1>1. Len(parts) \in 1..Len(parts) /\ parts[Len(parts)] \in Seq(W) /\ <<>> \in Seq(W)
  OBVIOUS
<1>2. /\ Append(parts, <<>>) \in Seq(Seq(W)) \ {<<>>}
      /\ Len(Append(parts, <<>>)) = Len(parts) + 1
  BY <1>1
<1> DEFINE last == Append(parts[Len(parts)], word)
           more == [parts EXCEPT ![Len(parts)] = last]
<1>3. last \in Seq(W)
  BY <1>1
<1> HIDE DEF last
<1>4. more \in Seq(Seq(W)) /\ Len(more) = Len(parts)
  BY <1>1, <1>3
<1>5. more # <<>>
  BY <1>1, <1>4
<1>6. Read(parts, word, sep, limit) \in {Append(parts, <<>>), more}
  BY DEF Read, last
<1> HIDE DEF more
<1>7. CASE Read(parts, word, sep, limit) = more
  BY <1>1, <1>4, <1>5, <1>7
<1>8. CASE Read(parts, word, sep, limit) = Append(parts, <<>>)
  BY <1>2, <1>8
<1> QED
  BY <1>6, <1>7, <1>8

\* f is SplitN, word by word.
Parted(f, W, text, sep, limit) ==
  /\ f \in [0..Len(text) -> Seq(Seq(W)) \ {<<>>}]
  /\ SplitN(text, sep, limit) = f[Len(text)]
  /\ f[0] = << <<>> >>
  /\ \A n \in 1..Len(text) : f[n] = Read(f[n - 1], text[n], sep, limit)

\* SplitN reads a text word by word.
LEMMA SplitBy ==
  ASSUME NEW W, NEW text \in Seq(W), NEW sep, NEW limit
  PROVE  \E f : Parted(f, W, text, sep, limit)
<1> DEFINE N == Len(text)
           S == Seq(Seq(W)) \ {<<>>}
           step == [x \in (1..N) \X S |-> Read(x[2], text[x[1]], sep, limit)]
           f == CHOOSE h : h = [n \in 0..N |->
                  IF n = 0 THEN << <<>> >> ELSE
                  IF text[n] = sep /\ Len(h[n - 1]) < limit THEN Append(h[n - 1], <<>>)
                  ELSE [h[n - 1] EXCEPT ![Len(h[n - 1])] = Append(@, text[n])]]
<1>1. N \in Nat /\ << <<>> >> \in S /\ \A n \in 1..N : text[n] \in W
  OBVIOUS
<1>2. step \in [(1..N) \X S -> S]
  <2>1. \A n \in 1..N, p \in S : Read(p, text[n], sep, limit) \in S
    BY <1>1, ReadType
  <2> HIDE DEF S
  <2> QED
    BY <2>1
<1>3. \A n \in 1..N, p \in S : step[<<n, p>>] = Read(p, text[n], sep, limit)
  OBVIOUS
<1> HIDE DEF step, S
<1>4. PICK g : Steps(g, N, S, << <<>> >>, step)
  <2>1. Stepper(N, S, << <<>> >>, step)
    BY <1>1, <1>2 DEF Stepper
  <2> HIDE DEF N, S
  <2> QED
    BY <2>1, Recursion
<1>g. g \in [0..N -> S] /\ g[0] = << <<>> >> /\ \A n \in 1..N : g[n] = step[<<n, g[n - 1]>>]
  BY <1>4 DEF Steps
<1>5. \A n \in 1..N : n - 1 \in 0..N /\ n \in 0..N /\ n # 0
  BY <1>1
<1>6. \A n \in 1..N : g[n] = Read(g[n - 1], text[n], sep, limit)
  BY <1>3, <1>g, <1>5
<1>7. g = [n \in 0..N |->
            IF n = 0 THEN << <<>> >> ELSE
            IF text[n] = sep /\ Len(g[n - 1]) < limit THEN Append(g[n - 1], <<>>)
            ELSE [g[n - 1] EXCEPT ![Len(g[n - 1])] = Append(@, text[n])]]
  <2>1. \A n \in 0..N : n = 0 \/ n \in 1..N
    BY <1>1
  <2>2. \A n \in 0..N : g[n] =
            IF n = 0 THEN << <<>> >> ELSE
            IF text[n] = sep /\ Len(g[n - 1]) < limit THEN Append(g[n - 1], <<>>)
            ELSE [g[n - 1] EXCEPT ![Len(g[n - 1])] = Append(@, text[n])]
    BY <1>g, <1>6, <2>1 DEF Read
  <2> QED
    BY <1>g, <2>2
<1>8. f = [n \in 0..N |->
            IF n = 0 THEN << <<>> >> ELSE
            IF text[n] = sep /\ Len(f[n - 1]) < limit THEN Append(f[n - 1], <<>>)
            ELSE [f[n - 1] EXCEPT ![Len(f[n - 1])] = Append(@, text[n])]]
  BY <1>7
<1>9. SplitN(text, sep, limit) = f[N]
  BY DEF SplitN
<1> HIDE DEF f, N
<1>10. f[0] = << <<>> >> /\ \A n \in 1..N : f[n] = Read(f[n - 1], text[n], sep, limit)
  <2>1. 0 \in 0..N
    BY <1>1
  <2>2. f[0] = << <<>> >>
    BY <1>8, <2>1
  <2>3. ASSUME NEW n \in 1..N
        PROVE  f[n] = Read(f[n - 1], text[n], sep, limit)
    BY <1>5, <1>8 DEF Read
  <2> QED
    BY <2>2, <2>3
<1>11. \A n \in 0..N : f[n] \in S
  <2> DEFINE good == {n \in 0..N : f[n] \in S}
  <2>1. 0 \in good
    <3>1. 0 \in 0..N /\ f[0] = << <<>> >> /\ << <<>> >> \in S
      BY <1>1, <1>10
    <3> QED
      BY <3>1
  <2>2. ASSUME NEW n \in 0..N, n < N, n \in good
        PROVE  n + 1 \in good
    <3>1. n + 1 \in 1..N /\ (n + 1) - 1 = n /\ n + 1 \in 0..N /\ f[n] \in S
      BY <1>1, <2>2
    <3>2. Read(f[n], text[n + 1], sep, limit) \in S
      BY <1>1, <3>1, ReadType DEF S
    <3> QED
      BY <1>10, <3>1, <3>2
  <2> HIDE DEF good
  <2>3. \A n \in 0..N : n \in good
    BY <1>1, <2>1, <2>2, Climb
  <2> QED
    BY <2>3 DEF good
<1>12. f \in [0..N -> S]
  BY <1>8, <1>11
<1> QED
  BY <1>9, <1>10, <1>12 DEF N, S, Parted

\* A word that begins no part goes to the last one.
LEMMA ReadOn ==
  ASSUME NEW W, NEW done \in Seq(Seq(W)), NEW part \in Seq(W), NEW word \in W, NEW sep, NEW limit,
         word # sep \/ ~(Len(done) + 1 < limit)
  PROVE  Read(Append(done, part), word, sep, limit) = Append(done, Append(part, word))
<1> DEFINE parts == Append(done, part)
           more == Append(part, word)
<1>1. parts \in Seq(Seq(W)) /\ Len(parts) = Len(done) + 1 /\ parts[Len(parts)] = part
  OBVIOUS
<1>2. more \in Seq(W)
  OBVIOUS
<1>3. Read(parts, word, sep, limit) = [parts EXCEPT ![Len(parts)] = more]
  BY <1>1 DEF Read
<1> HIDE DEF more
<1> DEFINE longer == [parts EXCEPT ![Len(parts)] = more]
           other == Append(done, more)
<1>4. longer = other
  <2>1. /\ longer \in Seq(Seq(W)) /\ Len(longer) = Len(done) + 1
        /\ other \in Seq(Seq(W)) /\ Len(other) = Len(done) + 1
    BY <1>1, <1>2
  <2>2. ASSUME NEW i \in 1..(Len(done) + 1)
        PROVE  longer[i] = other[i]
    <3>1. Len(done) \in Nat /\ i \in DOMAIN parts
      BY <1>1
    <3>2. CASE i = Len(done) + 1
      <4>1. longer[i] = more
        BY <1>1, <3>1, <3>2
      <4>2. other[i] = more
        BY <1>2, <3>2
      <4> QED
        BY <4>1, <4>2
    <3>3. CASE i # Len(done) + 1
      <4>1. i \in 1..Len(done)
        BY <3>1, <3>3
      <4>2. longer[i] = parts[i]
        BY <1>1, <3>1, <3>3
      <4>3. other[i] = done[i] /\ parts[i] = done[i]
        BY <1>2, <4>1
      <4> QED
        BY <4>2, <4>3
    <3> QED
      BY <3>2, <3>3
  <2> HIDE DEF longer, other
  <2> QED
    BY <2>1, <2>2
<1> QED
  BY <1>3, <1>4 DEF more

\* A separator begins the next part while there may be one.
LEMMA ReadNext ==
  ASSUME NEW W, NEW done \in Seq(Seq(W)), NEW sep, NEW limit, Len(done) < limit
  PROVE  Read(done, sep, sep, limit) = Append(done, <<>>)
BY DEF Read

\* Nothing parts into one part without words.
LEMMA SplitNothing ==
  ASSUME NEW sep, NEW limit
  PROVE  SplitN(<<>>, sep, limit) = << <<>> >>
<1>1. PICK f : Parted(f, {}, <<>>, sep, limit)
  <2>1. <<>> \in Seq({})
    OBVIOUS
  <2> QED
    BY <2>1, SplitBy
<1> QED
  BY <1>1 DEF Parted

\* One word more at the end of the text is one word more to read.
LEMMA SplitAppend ==
  ASSUME NEW W, NEW text \in Seq(W), NEW word \in W, NEW sep, NEW limit
  PROVE  SplitN(Append(text, word), sep, limit) = Read(SplitN(text, sep, limit), word, sep, limit)
<1> DEFINE N == Len(text)
           longer == Append(text, word)
           P == Seq(Seq(W)) \ {<<>>}
<1>1. /\ N \in Nat /\ longer \in Seq(W) /\ Len(longer) = N + 1 /\ longer[N + 1] = word
      /\ \A n \in 1..N : longer[n] = text[n]
  OBVIOUS
<1> HIDE DEF N, longer
<1>2. PICK f : Parted(f, W, text, sep, limit)
  BY SplitBy
<1>3. PICK g : Parted(g, W, longer, sep, limit)
  BY <1>1, SplitBy
<1>4. /\ SplitN(text, sep, limit) = f[N] /\ f[0] = << <<>> >>
      /\ \A n \in 1..N : f[n] = Read(f[n - 1], text[n], sep, limit)
  BY <1>2 DEF Parted, N
<1>5. /\ SplitN(longer, sep, limit) = g[N + 1] /\ g[0] = << <<>> >>
      /\ \A n \in 1..(N + 1) : g[n] = Read(g[n - 1], longer[n], sep, limit)
  BY <1>1, <1>3 DEF Parted
<1> DEFINE same == {n \in 0..N : f[n] = g[n]}
<1>6. 0 \in same /\ N \in Nat
  <2>1. N \in Nat /\ 0 \in 0..N
    BY <1>1
  <2>2. f[0] = g[0]
    BY <1>4, <1>5
  <2> QED
    BY <2>1, <2>2
<1>7. ASSUME NEW n \in 0..N, n < N, n \in same
      PROVE  n + 1 \in same
  <2>1. n + 1 \in 1..N /\ n + 1 \in 1..(N + 1) /\ (n + 1) - 1 = n /\ n + 1 \in 0..N
    BY <1>6, <1>7
  <2>2. f[n + 1] = Read(f[n], text[n + 1], sep, limit)
    BY <1>4, <2>1
  <2>3. g[n + 1] = Read(g[n], text[n + 1], sep, limit)
    BY <1>1, <1>5, <2>1
  <2> QED
    BY <1>7, <2>1, <2>2, <2>3
<1> HIDE DEF same
<1>8. N \in same
  <2>1. \A n \in 0..N : n \in same
    BY <1>6, <1>7, Climb
  <2> QED
    BY <1>6, <2>1
<1>9. f[N] = g[N]
  BY <1>8 DEF same
<1>10. g[N + 1] = Read(g[N], word, sep, limit)
  BY <1>1, <1>5, <1>6
<1> QED
  BY <1>4, <1>5, <1>9, <1>10 DEF longer

\* A part has just begun after a text, and the text t to come begins no further one.
GoesOn(text, t, W, done, sep, limit) ==
  /\ text \in Seq(W) /\ t \in Seq(W) /\ done \in Seq(Seq(W))
  /\ SplitN(text, sep, limit) = Append(done, <<>>)
  /\ t \in Seq(W \ {sep}) \/ ~(Len(done) + 1 < limit)

\* A text that holds no separator, or comes when no further part may begin, goes on the
\* part just begun, to its last word.
LEMMA SplitOn ==
  ASSUME NEW W, NEW text, NEW t, NEW done, NEW sep, NEW limit, GoesOn(text, t, W, done, sep, limit)
  PROVE  SplitN(text \o t, sep, limit) = Append(done, t)
<1>0. /\ text \in Seq(W) /\ t \in Seq(W) /\ done \in Seq(Seq(W))
      /\ SplitN(text, sep, limit) = Append(done, <<>>)
      /\ t \in Seq(W \ {sep}) \/ ~(Len(done) + 1 < limit)
  BY DEF GoesOn
<1> DEFINE N == Len(t)
           upTo(j) == SubSeq(t, 1, j)
           good == {j \in 0..N : SplitN(text \o upTo(j), sep, limit) = Append(done, upTo(j))}
<1>1. N \in Nat /\ upTo(0) = <<>> /\ text \o <<>> = text /\ upTo(N) = t
  BY <1>0
<1>2. 0 \in good
  <2>1. 0 \in 0..N
    BY <1>1
  <2>2. SplitN(text \o upTo(0), sep, limit) = Append(done, upTo(0))
    BY <1>0, <1>1
  <2> HIDE DEF upTo
  <2> QED
    BY <2>1, <2>2
<1>3. ASSUME NEW j \in 0..N, j < N, j \in good
      PROVE  j + 1 \in good
  <2>1. j + 1 \in 1..N /\ j \in Nat /\ j + 1 \in 0..N
    BY <1>1, <1>3
  <2>2. t[j + 1] \in W /\ upTo(j) \in Seq(W)
    BY <1>0, <2>1
  <2>3. upTo(j + 1) = Append(upTo(j), t[j + 1])
    BY <1>0, <2>1
  <2>4. text \o upTo(j) \in Seq(W)
    BY <1>0, <2>2
  <2>5. text \o Append(upTo(j), t[j + 1]) = Append(text \o upTo(j), t[j + 1])
    <3>1. \A s \in Seq(W), w \in W : text \o Append(s, w) = Append(text \o s, w)
      OBVIOUS
    <3> HIDE DEF upTo
    <3> QED
      BY <1>0, <2>2, <3>1
  <2>6. t[j + 1] # sep \/ ~(Len(done) + 1 < limit)
    BY <1>0, <2>1
  <2> HIDE DEF upTo
  <2>7. SplitN(text \o upTo(j), sep, limit) = Append(done, upTo(j))
    BY <1>3
  <2>8. SplitN(Append(text \o upTo(j), t[j + 1]), sep, limit)
          = Read(Append(done, upTo(j)), t[j + 1], sep, limit)
    <3> DEFINE so == text \o upTo(j)
    <3>1. so \in Seq(W)
      BY <2>4
    <3> HIDE DEF so
    <3>2. SplitN(Append(so, t[j + 1]), sep, limit)
            = Read(SplitN(so, sep, limit), t[j + 1], sep, limit)
      BY <2>2, <3>1, SplitAppend
    <3> QED
      BY <2>7, <3>2 DEF so
  <2>9. Read(Append(done, upTo(j)), t[j + 1], sep, limit) = Append(done, Append(upTo(j), t[j + 1]))
    BY <1>0, <2>2, <2>6, ReadOn
  <2> QED
    BY <2>1, <2>3, <2>5, <2>8, <2>9
<1> HIDE DEF good, upTo
<1>4. \A n \in 0..N : n \in good
  <2>1. N \in Nat
    BY <1>1
  <2> QED
    BY <1>2, <1>3, <2>1, Climb
<1>5. N \in good
  BY <1>1, <1>4
<1> QED
  BY <1>1, <1>5 DEF good

\* Texts that were joined part into what they were, as long as none holds a separator
\* or the one that does is the last that may begin.
LEMMA SplitJoin ==
  ASSUME NEW W, NEW texts \in Seq(Seq(W)), NEW sep \in W, NEW limit \in Int,
         Len(texts) >= 1,
         \A i \in 1..Len(texts) : i <= limit,
         \A i \in 1..Len(texts) :
           texts[i] \in Seq(W \ {sep}) \/ (i = Len(texts) /\ ~(i < limit))
  PROVE  SplitN(Join(texts, sep), sep, limit) = texts
<1> DEFINE N == Len(texts)
           upTo(n) == SubSeq(texts, 1, n)
<1>1. PICK f : Joined(f, W, texts, sep)
  BY JoinBy
<1>2. /\ Join(texts, sep) = f[N] /\ f[1] = texts[1] /\ f[1] \in Seq(W)
      /\ \A n \in 2..N : f[n] = f[n - 1] \o <<sep>> \o texts[n] /\ f[n - 1] \in Seq(W)
  <2> HIDE DEF N
  <2>1. /\ N \in Nat /\ 1 \in 1..N /\ f \in [0..N -> Seq(W)] /\ Join(texts, sep) = f[N]
        /\ \A n \in 1..N : f[n] = IF n = 1 THEN texts[1] ELSE f[n - 1] \o <<sep>> \o texts[n]
    <3>1. N \in Nat /\ 1 \in 1..N
      BY DEF N
    <3>2. /\ f \in [0..N -> Seq(W)] /\ Join(texts, sep) = f[N]
          /\ \A n \in 1..N : f[n] = IF n = 1 THEN texts[1] ELSE f[n - 1] \o <<sep>> \o texts[n]
      BY <1>1 DEF Joined, N
    <3> QED
      BY <3>1, <3>2
  <2>2. f[1] = texts[1] /\ f[1] \in Seq(W)
    BY <2>1
  <2>3. ASSUME NEW n \in 2..N
        PROVE  f[n] = f[n - 1] \o <<sep>> \o texts[n] /\ f[n - 1] \in Seq(W)
    <3>1. n \in 1..N /\ n # 1 /\ n - 1 \in 0..N
      BY <2>1
    <3> QED
      BY <2>1, <3>1
  <2> QED
    BY <2>1, <2>2, <2>3
<1> DEFINE good == {n \in 0..N : n = 0 \/ SplitN(f[n], sep, limit) = upTo(n)}
<1>3. 0 \in good /\ N \in Nat
  OBVIOUS
<1>4. ASSUME NEW n \in 0..N, n < N, n \in good
      PROVE  n + 1 \in good
  <2>1. n + 1 \in 1..N /\ n + 1 \in 0..N
    BY <1>3, <1>4
  <2>2. texts[n + 1] \in Seq(W) /\ (texts[n + 1] \in Seq(W \ {sep}) \/ ~(n + 1 < limit))
    BY <2>1
  <2>3. CASE n = 0
    <3>1. SplitN(<<>> \o texts[1], sep, limit) = Append(<<>>, texts[1])
      <4>1. SplitN(<<>>, sep, limit) = Append(<<>>, <<>>)
        BY SplitNothing
      <4>2. <<>> \in Seq(W) /\ <<>> \in Seq(Seq(W)) /\ Len(<<>>) = 0
        OBVIOUS
      <4>3. texts[1] \in Seq(W \ {sep}) \/ ~(Len(<<>>) + 1 < limit)
        BY <2>2, <2>3, <4>2
      <4>4. texts[1] \in Seq(W)
        BY <2>2, <2>3
      <4> DEFINE none == <<>>
      <4>5. /\ none \in Seq(W) /\ none \in Seq(Seq(W))
            /\ SplitN(none, sep, limit) = Append(none, <<>>)
            /\ GoesOn(none, texts[1], W, none, sep, limit)
        BY <4>1, <4>2, <4>3, <4>4 DEF GoesOn
      <4> HIDE DEF none
      <4>6. SplitN(none \o texts[1], sep, limit) = Append(none, texts[1])
        BY <4>5, SplitOn
      <4> QED
        BY <4>6 DEF none
    <3>2. <<>> \o texts[1] = texts[1] /\ Append(<<>>, texts[1]) = upTo(1)
      BY <2>1, <2>2, <2>3
    <3> QED
      BY <1>2, <2>1, <2>3, <3>1, <3>2
  <2>4. CASE n # 0
    <3>1. n + 1 \in 2..N /\ (n + 1) - 1 = n /\ n \in 1..N
      BY <2>1, <2>4
    <3>2. f[n + 1] = f[n] \o <<sep>> \o texts[n + 1] /\ f[n] \in Seq(W)
      BY <1>2, <3>1
    <3>3. upTo(n) \in Seq(Seq(W)) /\ Len(upTo(n)) = n
          /\ upTo(n + 1) = Append(upTo(n), texts[n + 1])
      <4>1. \A S : \A s \in Seq(S), k \in Nat : k + 1 <= Len(s) =>
              /\ SubSeq(s, 1, k) \in Seq(S) /\ Len(SubSeq(s, 1, k)) = k
              /\ SubSeq(s, 1, k + 1) = Append(SubSeq(s, 1, k), s[k + 1])
        OBVIOUS
      <4>2. n \in Nat /\ N \in Nat /\ n + 1 <= N
        <5> HIDE DEF N
        <5> QED
          BY <1>3, <3>1
      <4> QED
        BY <4>1, <4>2
    <3>4. SplitN(f[n], sep, limit) = upTo(n)
      BY <1>4, <2>4
    <3>5. n < limit
      BY <3>1
    <3> HIDE DEF upTo
    <3> DEFINE so == Append(f[n], sep)
    <3>6. so \in Seq(W) /\ f[n + 1] = so \o texts[n + 1]
      <4>1. \A s, t \in Seq(W) : s \o <<sep>> \o t = Append(s, sep) \o t
        OBVIOUS
      <4>2. so \in Seq(W)
        BY <3>2
      <4> QED
        BY <2>2, <3>2, <4>1, <4>2
    <3>7. SplitN(so, sep, limit) = Append(upTo(n), <<>>)
      <4>1. SplitN(so, sep, limit) = Read(upTo(n), sep, sep, limit)
        BY <3>2, <3>4, SplitAppend
      <4> HIDE DEF so
      <4> QED
        BY <3>3, <3>5, <4>1, ReadNext
    <3> HIDE DEF so
    <3>8. SplitN(so \o texts[n + 1], sep, limit) = Append(upTo(n), texts[n + 1])
      <4>1. GoesOn(so, texts[n + 1], W, upTo(n), sep, limit)
        BY <2>2, <3>3, <3>6, <3>7 DEF GoesOn
      <4> QED
        BY <4>1, SplitOn
    <3> QED
      BY <2>1, <3>3, <3>6, <3>8
  <2> QED
    BY <2>3, <2>4
<1>5. \A n \in 0..N : n \in good
  <2> HIDE DEF good
  <2> QED
    BY <1>3, <1>4, Climb
<1>6. SplitN(f[N], sep, limit) = upTo(N)
  BY <1>3, <1>5
<1>7. upTo(N) = texts
  OBVIOUS
<1> QED
  BY <1>2, <1>6, <1>7

\* Joined texts are a text, with a separator between each two of them.
LEMMA JoinLength ==
  ASSUME NEW W, NEW texts \in Seq(Seq(W)), NEW sep \in W
  PROVE  Join(texts, sep) \in Seq(W) /\ Len(texts) - 1 <= Len(Join(texts, sep))
<1> DEFINE N == Len(texts)
<1>1. PICK f : Joined(f, W, texts, sep)
  BY JoinBy
<1>2. N \in Nat /\ \A n \in 1..N : texts[n] \in Seq(W)
  OBVIOUS
<1> HIDE DEF N
<1>3. /\ f \in [0..N -> Seq(W)] /\ Join(texts, sep) = f[N]
      /\ \A n \in 1..N : f[n] = IF n = 1 THEN texts[1] ELSE f[n - 1] \o <<sep>> \o texts[n]
  BY <1>1 DEF Joined, N
<1>4. \A n \in 0..N : f[n] \in Seq(W) /\ Len(f[n]) \in Nat
  BY <1>3
<1> DEFINE good == {n \in 0..N : n - 1 <= Len(f[n])}
<1>5. 0 \in good
  BY <1>2, <1>4
<1>6. ASSUME NEW n \in 0..N, n < N, n \in good
      PROVE  n + 1 \in good
  <2>1. n + 1 \in 1..N /\ n + 1 \in 0..N /\ (n + 1) - 1 = n
    BY <1>2, <1>6
  <2>2. CASE n = 0
    BY <1>4, <2>1, <2>2
  <2>3. CASE n # 0
    <3>1. f[n + 1] = f[n] \o <<sep>> \o texts[n + 1]
      <4>1. n + 1 # 1
        BY <1>2, <2>3
      <4> QED
        BY <1>3, <2>1, <4>1
    <3>2. \A s, t \in Seq(W) : Len(s) + 1 <= Len(s \o <<sep>> \o t)
      OBVIOUS
    <3>3. Len(f[n]) + 1 <= Len(f[n + 1])
      BY <1>2, <1>4, <2>1, <3>1, <3>2
    <3>4. Len(f[n]) \in Nat /\ Len(f[n + 1]) \in Nat /\ n - 1 <= Len(f[n])
      BY <1>4, <1>6, <2>1
    <3> QED
      BY <2>1, <3>3, <3>4
  <2> QED
    BY <2>2, <2>3
<1>7. \A n \in 0..N : n \in good
  <2> HIDE DEF good
  <2> QED
    BY <1>2, <1>5, <1>6, Climb
<1>8. N - 1 <= Len(f[N]) /\ f[N] \in Seq(W)
  BY <1>2, <1>4, <1>7
<1> QED
  BY <1>3, <1>8 DEF N

\* Texts without the separator come back from what they were joined to.
LEMMA JoinedTexts ==
  ASSUME NEW W, NEW sep \in W, NEW texts \in Seq(Seq(W \ {sep})), texts # <<>>
  PROVE  Split(Join(texts, sep), sep) = texts
<1> DEFINE limit == Len(Join(texts, sep)) + 1
<1>1. /\ texts \in Seq(Seq(W)) /\ Len(texts) >= 1 /\ Len(texts) \in Nat
      /\ \A i \in 1..Len(texts) : texts[i] \in Seq(W \ {sep})
  <2>1. Seq(W \ {sep}) \subseteq Seq(W)
    OBVIOUS
  <2> QED
    BY <2>1
<1>2. Join(texts, sep) \in Seq(W) /\ Len(texts) - 1 <= Len(Join(texts, sep))
  BY <1>1, JoinLength
<1>3. limit \in Int /\ \A i \in 1..Len(texts) : i <= limit
  <2>1. Len(Join(texts, sep)) \in Nat
    BY <1>2
  <2> QED
    BY <1>1, <1>2, <2>1
<1> HIDE DEF limit
<1>4. SplitN(Join(texts, sep), sep, limit) = texts
  BY <1>1, <1>3, SplitJoin
<1> QED
  BY <1>4 DEF Split, limit

\* The parts of a text are one or more texts, no more than the limit.
LEMMA SplitType ==
  ASSUME NEW W, NEW text \in Seq(W), NEW sep, NEW limit
  PROVE  /\ SplitN(text, sep, limit) \in Seq(Seq(W)) \ {<<>>}
         /\ Split(text, sep) \in Seq(Seq(W)) \ {<<>>}
<1>1. \A lim : SplitN(text, sep, lim) \in Seq(Seq(W)) \ {<<>>}
  <2> TAKE lim
  <2>1. PICK f : Parted(f, W, text, sep, lim)
    BY SplitBy
  <2>2. f \in [0..Len(text) -> Seq(Seq(W)) \ {<<>>}] /\ SplitN(text, sep, lim) = f[Len(text)]
    BY <2>1 DEF Parted
  <2>3. Len(text) \in 0..Len(text)
    OBVIOUS
  <2> QED
    BY <2>2, <2>3
<1> QED
  BY <1>1 DEF Split

\* f is Entries, part by part.
Kept(f, W, field) ==
  LET part == Split(field, Pipe) IN
  /\ f \in [0..Len(part) -> Seq(Seq(W))]
  /\ Entries(field) = f[Len(part)]
  /\ f[0] = <<>>
  /\ \A n \in 1..Len(part) :
       f[n] = IF part[n] = <<>> THEN f[n - 1] ELSE Append(f[n - 1], part[n])

\* splitCrew keeps the parts of a field that hold something, in their order.
LEMMA EntriesBy ==
  ASSUME NEW W, NEW field \in Seq(W)
  PROVE  \E f : Kept(f, W, field)
<1> DEFINE part == Split(field, Pipe)
           N == Len(part)
           S == Seq(Seq(W))
           KeepPart(n, s) == IF part[n] = <<>> THEN s ELSE Append(s, part[n])
           step == [x \in (1..N) \X S |-> KeepPart(x[1], x[2])]
           f == CHOOSE h : h = [n \in 0..N |->
                  IF n = 0 THEN <<>> ELSE IF part[n] = <<>> THEN h[n - 1]
                  ELSE Append(h[n - 1], part[n])]
<1>1. part \in S
  BY SplitType
<1>2. Entries(field) = f[N]
  BY DEF Entries
<1> HIDE DEF part
<1>3. N \in Nat /\ <<>> \in S /\ \A n \in 1..N : part[n] \in Seq(W)
  BY <1>1
<1>4. \A n \in 1..N, s \in S : KeepPart(n, s) \in S
  BY <1>3
<1> HIDE DEF S
<1>5. step \in [(1..N) \X S -> S]
  <2> HIDE DEF KeepPart, N
  <2> QED
    BY <1>4
<1>6. \A n \in 1..N, s \in S : step[<<n, s>>] = KeepPart(n, s)
  <2> HIDE DEF KeepPart, N
  <2> QED
    OBVIOUS
<1> HIDE DEF step
<1>7. PICK g : Steps(g, N, S, <<>>, step)
  <2>1. Stepper(N, S, <<>>, step)
    BY <1>3, <1>5 DEF Stepper
  <2> HIDE DEF N
  <2> QED
    BY <2>1, Recursion
<1>8. g \in [0..N -> S] /\ g[0] = <<>> /\ \A n \in 1..N : g[n] = step[<<n, g[n - 1]>>]
  BY <1>7 DEF Steps
<1> HIDE DEF N
<1>9. \A n \in 1..N : n - 1 \in 0..N /\ n \in 0..N /\ n # 0
  BY <1>3
<1>10. \A n \in 1..N : g[n] = KeepPart(n, g[n - 1])
  <2> HIDE DEF KeepPart
  <2> QED
    BY <1>6, <1>8, <1>9
<1>11. g = [n \in 0..N |->
             IF n = 0 THEN <<>> ELSE IF part[n] = <<>> THEN g[n - 1] ELSE Append(g[n - 1], part[n])]
  <2>1. \A n \in 0..N : n = 0 \/ n \in 1..N
    BY <1>3
  <2>2. \A n \in 0..N : g[n] =
          IF n = 0 THEN <<>> ELSE IF part[n] = <<>> THEN g[n - 1] ELSE Append(g[n - 1], part[n])
    BY <1>8, <1>10, <2>1
  <2> QED
    BY <1>8, <2>2
<1>12. f = [n \in 0..N |->
             IF n = 0 THEN <<>> ELSE IF part[n] = <<>> THEN f[n - 1] ELSE Append(f[n - 1], part[n])]
  BY <1>11
<1> HIDE DEF f
<1>13. f[0] = <<>> /\ \A n \in 1..N : f[n] = KeepPart(n, f[n - 1])
  <2>1. 0 \in 0..N
    BY <1>3
  <2>2. f[0] = <<>>
    BY <1>12, <2>1
  <2>3. ASSUME NEW n \in 1..N
        PROVE  f[n] = KeepPart(n, f[n - 1])
    BY <1>9, <1>12
  <2> QED
    BY <2>2, <2>3
<1>14. \A n \in 0..N : f[n] \in S
  <2> DEFINE good == {n \in 0..N : f[n] \in S}
  <2>1. 0 \in good
    BY <1>3, <1>13
  <2>2. ASSUME NEW n \in 0..N, n < N, n \in good
        PROVE  n + 1 \in good
    <3>1. n + 1 \in 1..N /\ (n + 1) - 1 = n /\ n + 1 \in 0..N /\ f[n] \in S
      BY <1>3, <2>2
    <3> HIDE DEF KeepPart
    <3>2. KeepPart(n + 1, f[n]) \in S
      BY <1>4, <3>1
    <3> QED
      BY <1>13, <3>1, <3>2
  <2> HIDE DEF good
  <2>3. \A n \in 0..N : n \in good
    BY <1>3, <2>1, <2>2, Climb
  <2> QED
    BY <2>3 DEF good
<1>15. f \in [0..N -> S]
  BY <1>12, <1>14
<1> QED
  BY <1>2, <1>13, <1>15 DEF Kept, part, N, S

\* What is kept of a field is a list of texts; all of it is kept when no part is blank,
\* and nothing when the only part is.
LEMMA EntriesFacts ==
  ASSUME NEW W, NEW field \in Seq(W)
  PROVE  /\ Entries(field) \in Seq(Seq(W))
         /\ (\A n \in DOMAIN Split(field, Pipe) : Split(field, Pipe)[n] # <<>>)
              => Entries(field) = Split(field, Pipe)
         /\ Split(field, Pipe) = << <<>> >> => Entries(field) = <<>>
<1> DEFINE part == Split(field, Pipe)
           N == Len(part)
           upTo(n) == SubSeq(part, 1, n)
<1>1. PICK f : Kept(f, W, field)
  BY EntriesBy
<1>2. part \in Seq(Seq(W)) \ {<<>>}
  BY SplitType
<1>3. /\ f \in [0..N -> Seq(Seq(W))] /\ Entries(field) = f[N] /\ f[0] = <<>>
      /\ \A n \in 1..N :
           f[n] = IF part[n] = <<>> THEN f[n - 1] ELSE Append(f[n - 1], part[n])
  BY <1>1 DEF Kept
<1> HIDE DEF part
<1>4. N \in Nat /\ N \in 0..N /\ DOMAIN part = 1..N
  BY <1>2
<1>5. Entries(field) \in Seq(Seq(W))
  BY <1>3, <1>4
<1>6. ASSUME \A n \in 1..N : part[n] # <<>>
      PROVE  Entries(field) = part
  <2> DEFINE good == {n \in 0..N : f[n] = upTo(n)}
  <2>1. 0 \in good
    <3>1. \A S : \A s \in Seq(S) : SubSeq(s, 1, 0) = <<>>
      OBVIOUS
    <3>2. 0 \in 0..N /\ upTo(0) = <<>>
      BY <1>2, <1>4, <3>1
    <3> QED
      BY <1>3, <3>2
  <2>2. ASSUME NEW n \in 0..N, n < N, n \in good
        PROVE  n + 1 \in good
    <3>1. n + 1 \in 1..N /\ (n + 1) - 1 = n /\ n + 1 \in 0..N
      BY <1>4, <2>2
    <3>2. f[n + 1] = Append(f[n], part[n + 1])
      BY <1>3, <1>6, <3>1
    <3>3. upTo(n + 1) = Append(upTo(n), part[n + 1])
      <4>1. \A S : \A s \in Seq(S), k \in Nat : k + 1 <= Len(s) =>
              SubSeq(s, 1, k + 1) = Append(SubSeq(s, 1, k), s[k + 1])
        OBVIOUS
      <4>2. n \in Nat /\ n + 1 <= N
        BY <1>4, <3>1
      <4> QED
        BY <1>2, <4>1, <4>2
    <3> HIDE DEF upTo
    <3> QED
      BY <2>2, <3>1, <3>2, <3>3
  <2>3. \A n \in 0..N : n \in good
    <3> HIDE DEF good, N
    <3> QED
      BY <1>4, <2>1, <2>2, Climb
  <2>4. f[N] = upTo(N)
    BY <1>4, <2>3
  <2>5. upTo(N) = part
    BY <1>2
  <2> QED
    BY <1>3, <2>4, <2>5
<1>7. ASSUME part = << <<>> >>
      PROVE  Entries(field) = <<>>
  <2>1. N = 1 /\ part[1] = <<>>
    BY <1>7
  <2>2. f[1] = f[0]
    BY <1>3, <2>1
  <2> QED
    BY <1>3, <2>1, <2>2
<1> QED
  BY <1>4, <1>5, <1>6, <1>7 DEF part

\* The words of a member's entry.
Words(m) == ToSet(m.name) \cup ToSet(m.email) \cup ToSet(m.phone) \cup {Colon}

\* A member's texts make an entry of at least two words, the separators.
LEMMA EntryWords ==
  ASSUME NEW m, Worded(m)
  PROVE  /\ m.name \in Seq(Words(m)) /\ m.email \in Seq(Words(m)) /\ m.phone \in Seq(Words(m))
         /\ Entry(m) \in Seq(Words(m)) /\ Len(Entry(m)) >= 2
<1> DEFINE W == Words(m)
           texts == <<m.name, m.email, m.phone>>
<1>1. m.name \in Seq(W) /\ m.email \in Seq(W) /\ m.phone \in Seq(W) /\ Colon \in W
  <2>1. ToSet(m.name) \subseteq W /\ ToSet(m.email) \subseteq W
        /\ ToSet(m.phone) \subseteq W /\ Colon \in W
    BY DEF Words
  <2>2. m.name \in Seq(ToSet(m.name)) /\ m.email \in Seq(ToSet(m.email))
        /\ m.phone \in Seq(ToSet(m.phone))
    BY DEF Worded, IsSequence
  <2>3. \A S, T : S \subseteq T => Seq(S) \subseteq Seq(T)
    OBVIOUS
  <2> QED
    BY <2>1, <2>2, <2>3
<1> HIDE DEF W
<1>2. texts \in Seq(Seq(W)) /\ Len(texts) = 3
  BY <1>1
<1> HIDE DEF texts
<1>3. Join(texts, Colon) \in Seq(W) /\ Len(texts) - 1 <= Len(Join(texts, Colon))
  BY <1>1, <1>2, JoinLength
<1>4. Len(Join(texts, Colon)) \in Nat
  BY <1>3
<1>5. Entry(m) = Join(texts, Colon)
  BY DEF Entry, texts
<1> QED
  BY <1>1, <1>2, <1>3, <1>4, <1>5 DEF W

\* The entries of a crew make a field.
LEMMA FieldText ==
  ASSUME NEW members, IsFiniteSet(members), \A m \in members : Worded(m),
         NEW field \in CrewFields(members)
  PROVE  IsSequence(field)
<1>1. PICK list \in ByName(members) : field = Join([i \in DOMAIN list |-> Entry(list[i])], Pipe)
  BY DEF CrewFields
<1> DEFINE entries == [i \in DOMAIN list |-> Entry(list[i])]
           n == Cardinality(members)
           W == {Pipe} \cup UNION {Words(m) : m \in members}
<1>2. n \in Nat /\ list \in [1..n -> members]
  BY FS_CardinalityType DEF ByName, SetToSeqs
<1>3. \A i \in 1..n : Entry(list[i]) \in Seq(W)
  <2> TAKE i \in 1..n
  <2>1. list[i] \in members /\ Worded(list[i])
    BY <1>2
  <2>2. Entry(list[i]) \in Seq(Words(list[i])) /\ Words(list[i]) \subseteq W
    BY <2>1, EntryWords
  <2>3. Seq(Words(list[i])) \subseteq Seq(W)
    BY <2>2
  <2> QED
    BY <2>2, <2>3
<1>4. Pipe \in W
  OBVIOUS
<1> HIDE DEF W
<1>5. entries \in Seq(Seq(W))
  BY <1>2, <1>3
<1> HIDE DEF entries
<1>6. field \in Seq(W)
  BY <1>1, <1>4, <1>5, JoinLength DEF entries
<1> QED
  BY <1>6, RowCount DEF IsSequence

\* A member of whom no text holds a separator comes back from the entry.
LEMMA EntryParts ==
  ASSUME NEW m, Worded(m), Plain(m)
  PROVE  Pipe \notin Words(m) /\ Parts(Entry(m)) = <<m.name, m.email, m.phone>>
<1> DEFINE W == Words(m)
           texts == <<m.name, m.email, m.phone>>
           limit == 3
<1>1. /\ Pipe \notin ToSet(m.name) /\ Pipe \notin ToSet(m.email) /\ Pipe \notin ToSet(m.phone)
      /\ Colon \notin ToSet(m.name) /\ Colon \notin ToSet(m.email)
  <2>1. ASSUME NEW text, IsSequence(text), NEW word, ~Contains(text, word)
        PROVE  word \notin ToSet(text)
    BY <2>1 DEF IsSequence, Contains, ToSet
  <2> QED
    BY <2>1 DEF Worded, Plain
<1>2. Pipe \notin W /\ Colon \in W
  BY <1>1, SheetConstants DEF Words
<1>3. m.name \in Seq(W \ {Colon}) /\ m.email \in Seq(W \ {Colon}) /\ m.phone \in Seq(W)
  <2>1. ToSet(m.name) \subseteq W \ {Colon} /\ ToSet(m.email) \subseteq W \ {Colon}
    BY <1>1 DEF Words
  <2>2. m.name \in Seq(ToSet(m.name)) /\ m.email \in Seq(ToSet(m.email))
    BY DEF Worded, IsSequence
  <2>3. \A S, T : S \subseteq T => Seq(S) \subseteq Seq(T)
    OBVIOUS
  <2> QED
    BY <2>1, <2>2, <2>3, EntryWords
<1> HIDE DEF W
<1>4. /\ texts \in Seq(Seq(W)) /\ Len(texts) = 3
      /\ texts[1] = m.name /\ texts[2] = m.email /\ texts[3] = m.phone
  <2>1. Seq(W \ {Colon}) \subseteq Seq(W)
    OBVIOUS
  <2>2. m.name \in Seq(W) /\ m.email \in Seq(W) /\ m.phone \in Seq(W)
    BY <1>3, <2>1
  <2> QED
    BY <2>2
<1> HIDE DEF texts
<1>5. /\ limit \in Int /\ Len(texts) >= 1
      /\ \A i \in 1..Len(texts) : i <= limit /\ (i = 1 \/ i = 2 \/ i = 3)
  BY <1>4
<1>6. \A i \in 1..Len(texts) :
        texts[i] \in Seq(W \ {Colon}) \/ (i = Len(texts) /\ ~(i < limit))
  BY <1>3, <1>4, <1>5
<1> HIDE DEF limit
<1>7. SplitN(Join(texts, Colon), Colon, limit) = texts
  BY <1>2, <1>4, <1>5, <1>6, SplitJoin
<1> QED
  BY <1>2, <1>7 DEF W, texts, limit, Parts, Entry

\* A crew none of whose texts holds a separator comes back from its field, member by
\* member, in one of the orders by name.
LEMMA FieldEntries ==
  ASSUME NEW members, IsFiniteSet(members), \A m \in members : Worded(m) /\ Plain(m),
         NEW field \in CrewFields(members)
  PROVE  \E list \in ByName(members) :
           /\ Entries(field) = [i \in DOMAIN list |-> Entry(list[i])]
           /\ \A i \in DOMAIN list :
                Parts(Entry(list[i])) = <<list[i].name, list[i].email, list[i].phone>>
<1>1. PICK list \in ByName(members) : field = Join([i \in DOMAIN list |-> Entry(list[i])], Pipe)
  BY DEF CrewFields
<1> DEFINE entries == [i \in DOMAIN list |-> Entry(list[i])]
           n == Cardinality(members)
           W == {Pipe} \cup UNION {Words(m) : m \in members}
<1>2. n \in Nat /\ list \in [1..n -> members]
  BY FS_CardinalityType DEF ByName, SetToSeqs
<1>3. DOMAIN list = 1..n /\ \A i \in 1..n : list[i] \in members
  BY <1>2
<1>4. \A i \in 1..n :
        /\ Entry(list[i]) \in Seq(W \ {Pipe}) /\ Entry(list[i]) # <<>>
        /\ Parts(Entry(list[i])) = <<list[i].name, list[i].email, list[i].phone>>
  <2> TAKE i \in 1..n
  <2>1. list[i] \in members /\ Worded(list[i]) /\ Plain(list[i])
    BY <1>3
  <2>2. /\ Entry(list[i]) \in Seq(Words(list[i])) /\ Entry(list[i]) # <<>>
        /\ Pipe \notin Words(list[i])
        /\ Parts(Entry(list[i])) = <<list[i].name, list[i].email, list[i].phone>>
    BY <2>1, EntryWords, EntryParts
  <2>3. Words(list[i]) \subseteq W \ {Pipe}
    BY <2>1, <2>2
  <2>4. Seq(Words(list[i])) \subseteq Seq(W \ {Pipe})
    BY <2>3
  <2> QED
    BY <2>2, <2>4
<1>5. Pipe \in W
  OBVIOUS
<1> HIDE DEF W
<1>6. entries \in Seq(Seq(W \ {Pipe})) /\ Len(entries) = n
      /\ \A i \in 1..n : entries[i] = Entry(list[i])
  BY <1>2, <1>3, <1>4
<1> HIDE DEF entries, n
<1>7. entries \in Seq(Seq(W))
  <2>1. Seq(W \ {Pipe}) \subseteq Seq(W)
    OBVIOUS
  <2> QED
    BY <1>6, <2>1
<1>8. field \in Seq(W)
  BY <1>1, <1>5, <1>7, JoinLength DEF entries
<1>9. Entries(field) = entries
  <2>1. CASE n = 0
    <3>1. entries = <<>>
      BY <1>6, <2>1
    <3>2. field = <<>>
      <4>1. PICK f : Joined(f, W, entries, Pipe)
        BY <1>5, <1>7, JoinBy
      <4>2. Join(entries, Pipe) = f[0] /\ f[0] = <<>>
        BY <1>6, <2>1, <4>1 DEF Joined
      <4> QED
        BY <1>1, <4>2 DEF entries
    <3>3. Split(field, Pipe) = << <<>> >>
      BY <3>2, SplitNothing DEF Split
    <3> QED
      BY <1>8, <3>1, <3>3, EntriesFacts
  <2>2. CASE n # 0
    <3>1. entries # <<>>
      BY <1>2, <1>6, <2>2
    <3>2. Split(field, Pipe) = entries
      BY <1>1, <1>5, <1>6, <3>1, JoinedTexts DEF entries
    <3>3. \A i \in DOMAIN entries : entries[i] # <<>>
      BY <1>4, <1>6
    <3> QED
      BY <1>8, <3>2, <3>3, EntriesFacts
  <2> QED
    BY <2>1, <2>2
<1> QED
  BY <1>3, <1>4, <1>9 DEF entries

\* A listing of a set has every member once.
LEMMA ListingFacts ==
  ASSUME NEW S, IsFiniteSet(S), NEW list \in SetToSeqs(S)
  PROVE  /\ Cardinality(S) \in Nat /\ DOMAIN list = 1..Cardinality(S)
         /\ list \in Seq(S) /\ Len(list) = Cardinality(S)
         /\ \A i \in DOMAIN list : list[i] \in S
         /\ \A i, j \in DOMAIN list : list[i] = list[j] => i = j
         /\ \A x \in S : \E i \in DOMAIN list : list[i] = x
<1> DEFINE n == Cardinality(S)
<1>1. n \in Nat
  BY FS_CardinalityType
<1> HIDE DEF n
<1>2. list \in [1..n -> S] /\ \A i, j \in 1..n : list[i] = list[j] => i = j
  BY DEF SetToSeqs, n
<1>3. list \in Injection(1..n, S)
  BY <1>2 DEF Injection, IsInjective
<1>4. Cardinality(1..n) = Cardinality(S)
  BY <1>1, FS_Interval DEF n
<1>5. list \in Surjection(1..n, S)
  BY <1>3, <1>4, FS_Injection
<1>6. \A x \in S : \E i \in 1..n : list[i] = x
  BY <1>5 DEF Surjection
<1>7. list \in Seq(S) /\ Len(list) = n
  BY <1>1, <1>2
<1> QED
  BY <1>1, <1>2, <1>6, <1>7 DEF n

\* A crew comes back as it was, but for the roles: the first one navigates.
LEMMA CrewReadBack ==
  ASSUME NEW members, SoundMembers(members), \A m \in members : Plain(m),
         NEW field \in CrewFields(members),
         NEW mates, mates = [i \in DOMAIN Entries(field) |-> MemberOf(Entries(field)[i], i)]
  PROVE  /\ Legible(field) /\ SoundCrew(mates)
         /\ {Texts(m) : m \in ToSet(mates)} = {Texts(m) : m \in members}
         /\ ToSet(mates) = {} \/ FirstNavigates(ToSet(mates))
<1>1. IsFiniteSet(members) /\ \A m \in members : Worded(m) /\ Plain(m) /\ SoundMember(m)
  BY DEF SoundMembers
<1>2. PICK list \in ByName(members) :
        /\ Entries(field) = [i \in DOMAIN list |-> Entry(list[i])]
        /\ \A i \in DOMAIN list :
             Parts(Entry(list[i])) = <<list[i].name, list[i].email, list[i].phone>>
  BY <1>1, FieldEntries
<1> DEFINE D == DOMAIN list
<1>3. /\ \A i, j \in D : i < j => ~Before(list[j].name, list[i].name)
      /\ list \in SetToSeqs(members)
  BY DEF ByName
<1>4. /\ Cardinality(members) \in Nat /\ D = 1..Cardinality(members)
      /\ \A i \in D : list[i] \in members
      /\ \A i, j \in D : list[i] = list[j] => i = j
      /\ \A x \in members : \E i \in D : list[i] = x
  BY <1>1, <1>3, ListingFacts
<1> DEFINE Back(i) == [name |-> list[i].name, email |-> list[i].email, phone |-> list[i].phone,
                       role |-> IF i = 1 THEN "navigator" ELSE "node"]
<1>5. \A i \in D : MemberOf(Entry(list[i]), i) = Back(i)
  BY <1>2 DEF MemberOf
<1>6. DOMAIN mates = D /\ \A i \in D : mates[i] = Back(i)
  BY <1>2, <1>5
<1>7. /\ \A i \in D : /\ mates[i].name = list[i].name /\ mates[i].email = list[i].email
                      /\ mates[i].phone = list[i].phone
                      /\ mates[i].role = IF i = 1 THEN "navigator" ELSE "node"
      /\ ToSet(mates) = {mates[i] : i \in D}
  BY <1>6 DEF ToSet
<1> HIDE DEF D, Back
<1>8. Legible(field)
  BY <1>2 DEF Legible, D
<1>9. SoundCrew(mates)
  <2>1. ASSUME NEW i \in D
        PROVE  SoundMember(mates[i])
    <3>1. SoundMember(list[i])
      BY <1>1, <1>4
    <3>2. /\ mates[i].name = list[i].name /\ mates[i].email = list[i].email
          /\ mates[i].phone = list[i].phone /\ mates[i].role \in CrewRoles
      BY <1>7 DEF CrewRoles
    <3> QED
      BY <3>1, <3>2 DEF SoundMember
  <2>2. ASSUME NEW i \in D, NEW j \in D, mates[i].email = mates[j].email
        PROVE  i = j
    <3>1. list[i].email = list[j].email
      BY <1>7, <2>2
    <3>2. list[i] \in members /\ list[j] \in members
      BY <1>4
    <3>3. list[i] = list[j]
      BY <3>1, <3>2 DEF SoundMembers
    <3> QED
      BY <1>4, <3>3
  <2> QED
    BY <1>6, <2>1, <2>2 DEF SoundCrew
<1>10. {Texts(m) : m \in ToSet(mates)} = {Texts(m) : m \in members}
  <2>1. \A i \in D : Texts(mates[i]) = Texts(list[i])
    BY <1>7 DEF Texts
  <2>2. {Texts(m) : m \in ToSet(mates)} = {Texts(mates[i]) : i \in D}
    BY <1>7
  <2>3. {Texts(mates[i]) : i \in D} = {Texts(list[i]) : i \in D}
    BY <2>1
  <2>4. members = {list[i] : i \in D}
    BY <1>4
  <2>5. {Texts(list[i]) : i \in D} = {Texts(m) : m \in members}
    BY <2>4
  <2> QED
    BY <2>2, <2>3, <2>5
<1>11. ASSUME ToSet(mates) # {}
       PROVE  FirstNavigates(ToSet(mates))
  <2>1. 1 \in D /\ mates[1].role = "navigator" /\ mates[1] \in ToSet(mates)
    <3>1. PICK i \in D : TRUE
      BY <1>7, <1>11
    <3>2. 1 \in D
      BY <1>4, <3>1
    <3> QED
      BY <1>7, <3>2
  <2>2. {m \in ToSet(mates) : m.role = "navigator"} = {mates[1]}
    BY <1>7, <2>1
  <2>3. ASSUME NEW m \in ToSet(mates) \ {mates[1]}
        PROVE  ~Before(m.name, mates[1].name)
    <3>1. PICK i \in D : m = mates[i]
      BY <1>7
    <3>2. 1 < i
      BY <1>4, <2>3, <3>1
    <3> QED
      BY <1>3, <1>7, <2>1, <3>1, <3>2 DEF D
  <2> QED
    BY <2>1, <2>2, <2>3 DEF FirstNavigates
<1> QED
  BY <1>8, <1>9, <1>10, <1>11

\* What may be read back from an event's export, and what the import makes of a row that
\* was written for a car.
Exportable(e, of, car) ==
  /\ DOMAIN car = Fields /\ car.code # <<>> /\ car.team # <<>> /\ SoundMembers(car.crew)
  /\ \A m \in car.crew : Plain(m)
  /\ RouteName(of, car.route) # Null => <<e, car.route[2]>> \in Routes
Restored(e, of, car, row) ==
  LET back == CarOf(e, row) IN
  /\ row # Ragged /\ row.code = car.code /\ Legible(row.crew)
  /\ DOMAIN back = Fields /\ SoundCar(back) /\ back.route \in Routes \cup {Null}
  /\ back.code = car.code /\ back.team = car.team
  /\ RouteName(e, back.route) = RouteName(of, car.route)
  /\ {Texts(m) : m \in ToSet(back.crew)} = {Texts(m) : m \in car.crew}
  /\ ToSet(back.crew) = {} \/ FirstNavigates(ToSet(back.crew))

\* A car comes back as the rules want it, where its route is known.
LEMMA CarReadBack ==
  ASSUME NEW e, NEW of, NEW car, Exportable(e, of, car), NEW row \in RowsOf(of, car)
  PROVE  Restored(e, of, car, row)
<1> DEFINE read == CarOf(e, row)
<1>0. /\ DOMAIN car = Fields /\ car.code # <<>> /\ car.team # <<>> /\ SoundMembers(car.crew)
      /\ \A m \in car.crew : Plain(m)
      /\ RouteName(of, car.route) # Null => <<e, car.route[2]>> \in Routes
  BY DEF Exportable
<1>1. PICK field \in CrewFields(car.crew) :
        row = [car EXCEPT !.route = RouteName(of, @), !.crew = field]
  BY DEF RowsOf
<1>2. /\ DOMAIN row = Fields /\ row.code = car.code /\ row.team = car.team
      /\ row.route = RouteName(of, car.route) /\ row.crew = field
  BY <1>0, <1>1 DEF Fields
<1>3. row # Ragged
  BY <1>2 DEF Ragged, Fields
<1> DEFINE mates == [i \in DOMAIN Entries(field) |-> MemberOf(Entries(field)[i], i)]
<1>4. /\ DOMAIN read = Fields /\ read.code = car.code /\ read.team = car.team
      /\ read.crew = mates
      /\ read.route = IF row.route = Null THEN Null ELSE <<e, row.route>>
  BY <1>2 DEF CarOf, Fields
<1>5. /\ Legible(field) /\ SoundCrew(mates)
      /\ {Texts(m) : m \in ToSet(mates)} = {Texts(m) : m \in car.crew}
      /\ ToSet(mates) = {} \/ FirstNavigates(ToSet(mates))
  <2> HIDE DEF mates
  <2>1. mates = [i \in DOMAIN Entries(field) |-> MemberOf(Entries(field)[i], i)]
    BY DEF mates
  <2> QED
    BY <1>0, <2>1, CrewReadBack
<1> HIDE DEF mates, read
<1>6. SoundCar(read)
  BY <1>0, <1>4, <1>5 DEF SoundCar
<1>7. read.route \in Routes \cup {Null} /\ RouteName(e, read.route) = RouteName(of, car.route)
  <2>1. CASE RouteName(of, car.route) = Null
    BY <1>2, <1>4, <2>1 DEF RouteName
  <2>2. CASE RouteName(of, car.route) # Null
    <3>1. RouteName(of, car.route) = car.route[2]
      BY <2>2 DEF RouteName
    <3>2. read.route = <<e, car.route[2]>> /\ read.route \in Routes
      BY <1>0, <1>2, <1>4, <2>2, <3>1
    <3>3. read.route # Null
      BY <3>2, SheetConstants
    <3> QED
      BY <3>1, <3>2, <3>3 DEF RouteName
  <2> QED
    BY <2>1, <2>2
<1> QED
  BY <1>2, <1>3, <1>4, <1>5, <1>6, <1>7 DEF Restored, read

\* Cars whose codes differ are as many as their codes.
LEMMA CodesCount ==
  ASSUME NEW cars, SoundFleet(cars)
  PROVE  Cardinality(CodesOf(cars)) = Cardinality(cars)
<1> DEFINE code == [car \in cars |-> car.code]
<1>1. code \in Bijection(cars, CodesOf(cars))
  <2>1. code \in [cars -> CodesOf(cars)]
    BY DEF CodesOf
  <2>2. \A c, d \in cars : code[c] = code[d] => c = d
    BY DEF SoundFleet
  <2>3. \A k \in CodesOf(cars) : \E c \in cars : code[c] = k
    BY DEF CodesOf
  <2> HIDE DEF code
  <2> QED
    BY <2>1, <2>2, <2>3 DEF Bijection, Injection, Surjection, IsInjective
<1>2. IsFiniteSet(cars)
  BY DEF SoundFleet
<1> QED
  BY <1>1, <1>2, FS_Bijection DEF ExistsBijection

\* The invariant says that the rules are obeyed.
LEMMA SheetSound ==
  ASSUME SheetInv
  PROVE  OneSetOfRules
<1> SUFFICES ASSUME NEW e \in Events
             PROVE  /\ Cardinality(CodesOf(fleet[e])) = Cardinality(fleet[e])
                    /\ \A car \in fleet[e] :
                         /\ car.code # <<>> /\ car.team # <<>>
                         /\ \A m \in car.crew : SoundMember(m)
                         /\ \A m, n \in car.crew : m.email = n.email => m = n
  BY DEF SheetInv, OneSetOfRules
<1>1. SoundFleet(fleet[e])
  BY DEF SheetInv
<1> QED
  BY <1>1, CodesCount DEF SoundFleet, SoundMembers

\* A car as a form or a row of the sheet gives it, that the rules accept.
Typable(car) ==
  /\ DOMAIN car = Fields /\ SoundCar(car) /\ IsSequence(car.crew)
  /\ \A i \in DOMAIN car.crew : Worded(car.crew[i])

\* Stored, it has a set of members that can be told apart.
LEMMA SoundStored ==
  ASSUME NEW car, Typable(car)
  PROVE  /\ DOMAIN Stored(car) = Fields
         /\ Stored(car).code = car.code /\ Stored(car).team = car.team
         /\ Stored(car).route = car.route /\ Stored(car).crew = ToSet(car.crew)
         /\ car.code # <<>> /\ car.team # <<>> /\ SoundMembers(ToSet(car.crew))
<1>1. /\ DOMAIN Stored(car) = Fields
      /\ Stored(car).code = car.code /\ Stored(car).team = car.team
      /\ Stored(car).route = car.route /\ Stored(car).crew = ToSet(car.crew)
  BY DEF Stored, Fields, Typable
<1>2. car.code # <<>> /\ car.team # <<>> /\ SoundCrew(car.crew)
  BY DEF SoundCar, Typable
<1>3. IsFiniteSet(ToSet(car.crew))
  BY RowCount DEF Typable, IsSequence
<1>4. /\ \A m \in ToSet(car.crew) : SoundMember(m) /\ Worded(m)
      /\ \A m, n \in ToSet(car.crew) : m.email = n.email => m = n
  BY <1>2 DEF SoundCrew, ToSet, Typable
<1> QED
  BY <1>1, <1>2, <1>3, <1>4 DEF SoundMembers

\* What the rules accept and is not yet in the fleet is stored without breaking them.
LEMMA SoundAdded ==
  ASSUME NEW cars, SoundFleet(cars), NEW more, IsFiniteSet(more), \A car \in more : Typable(car),
         \A c, d \in more : c.code = d.code => c = d,
         CodesOf(more) \cap CodesOf(cars) = {}
  PROVE  SoundFleet(cars \cup {Stored(car) : car \in more})
<1> DEFINE new == {Stored(car) : car \in more}
<1>1. IsFiniteSet(cars \cup new)
  <2> DEFINE stored == [car \in more |-> Stored(car)]
  <2>1. stored \in Surjection(more, new)
    BY DEF Surjection
  <2> HIDE DEF stored, new
  <2>2. IsFiniteSet(new)
    BY <2>1, FS_Surjection
  <2>3. IsFiniteSet(cars)
    BY DEF SoundFleet
  <2> QED
    BY <2>2, <2>3, FS_Union
<1>2. ASSUME NEW car \in more
      PROVE  /\ DOMAIN Stored(car) = Fields
             /\ Stored(car).code = car.code /\ Stored(car).team = car.team
             /\ Stored(car).crew = ToSet(car.crew)
             /\ car.code # <<>> /\ car.team # <<>> /\ SoundMembers(ToSet(car.crew))
  BY SoundStored
<1>3. \A c, d \in cars \cup new : c.code = d.code => c = d
  BY <1>2 DEF SoundFleet, CodesOf
<1>4. ASSUME NEW car \in cars \cup new
      PROVE  DOMAIN car = Fields /\ car.code # <<>> /\ car.team # <<>> /\ SoundMembers(car.crew)
  BY <1>2 DEF SoundFleet
<1> HIDE DEF new
<1>5. SoundFleet(cars \cup new)
  BY <1>1, <1>3, <1>4 DEF SoundFleet
<1> QED
  BY <1>5 DEF new

\* A row that is not ragged.
Readable(row) == DOMAIN row = Fields /\ IsSequence(row.crew)

\* A sheet of such rows is a sequence of what it holds.
LEMMA SoundRows ==
  ASSUME NEW S, NEW rows, rows \in Seq(S), \A row \in S \ {Ragged} : Readable(row)
  PROVE  /\ IsSequence(rows)
         /\ \A row \in ToSet(rows) \ {Ragged} : DOMAIN row = Fields /\ IsSequence(row.crew)
<1>1. ToSet(rows) \subseteq S
  BY DEF ToSet
<1> QED
  BY <1>1, RowCount DEF IsSequence, Readable

\* A car that can be read from a row can be stored.
LEMMA RowTypable ==
  ASSUME NEW e, NEW row, Readable(row), Legible(row.crew), SoundCar(CarOf(e, row))
  PROVE  Typable(CarOf(e, row)) /\ CarOf(e, row).code = row.code
<1> DEFINE W == ToSet(row.crew)
           entries == Entries(row.crew)
           mates == [i \in DOMAIN entries |-> MemberOf(entries[i], i)]
<1>1. /\ DOMAIN CarOf(e, row) = Fields /\ CarOf(e, row).code = row.code
      /\ CarOf(e, row).crew = mates
  BY DEF CarOf, Fields, Readable
<1>2. entries \in Seq(Seq(W))
  BY EntriesFacts DEF Readable, IsSequence
<1> HIDE DEF W
<1>3. ASSUME NEW i \in DOMAIN entries
      PROVE  Worded(MemberOf(entries[i], i))
  <2> DEFINE part == Parts(entries[i])
  <2>1. part \in Seq(Seq(W)) /\ Len(part) = 3
    BY <1>2, SplitType DEF Parts, Legible
  <2>2. MemberOf(entries[i], i).name = part[1] /\ MemberOf(entries[i], i).email = part[2]
        /\ MemberOf(entries[i], i).phone = part[3]
    BY DEF MemberOf
  <2> HIDE DEF part
  <2>3. part[1] \in Seq(W) /\ part[2] \in Seq(W) /\ part[3] \in Seq(W)
    BY <2>1
  <2> QED
    BY <2>2, <2>3, RowCount DEF Worded, IsSequence
<1> HIDE DEF entries
<1>4. IsSequence(mates)
  <2> DEFINE M == {MemberOf(entries[i], i) : i \in DOMAIN entries}
  <2>1. DOMAIN entries = 1..Len(entries) /\ Len(entries) \in Nat
    BY <1>2
  <2>2. mates \in [1..Len(entries) -> M]
    BY <2>1
  <2>3. \A n \in Nat : [1..n -> M] \subseteq Seq(M)
    OBVIOUS
  <2>4. mates \in Seq(M)
    BY <2>1, <2>2, <2>3
  <2> HIDE DEF M, mates
  <2> QED
    BY <2>4, RowCount DEF IsSequence
<1>5. \A i \in DOMAIN mates : Worded(mates[i])
  BY <1>3 DEF entries
<1> QED
  BY <1>1, <1>4, <1>5 DEF Typable

\* A car leaves, or none.
LEMMA SoundLeft ==
  ASSUME NEW cars, SoundFleet(cars), NEW left, left \subseteq cars
  PROVE  SoundFleet(left)
<1>1. IsFiniteSet(left)
  BY FS_Subset DEF SoundFleet
<1> QED
  BY <1>1 DEF SoundFleet

\* Nobody is provisioned at first.
LEMMA SheetStarts ==
  ASSUME SheetInit
  PROVE  SheetInv
<1>1. sheet = [header |-> "empty", rows |-> <<>>] /\ fleet = [e \in Events |-> {}] /\ source = Null
  BY DEF SheetInit, NoSheet
<1>2. SoundFleet({})
  BY FS_EmptySet DEF SoundFleet
<1>3. /\ IsSequence(<<>>)
      /\ \A row \in ToSet(<<>>) \ {Ragged} : DOMAIN row = Fields /\ IsSequence(row.crew)
  BY DEF ToSet, IsSequence
<1> QED
  BY <1>1, <1>2, <1>3 DEF SheetInv, Headers, Untouched

\* A fleet that is edited in one event is as sound as that event's.
LEMMA FleetEdited ==
  ASSUME SheetInv, NEW e \in Events, NEW cars, SoundFleet(cars),
         fleet' = [fleet EXCEPT ![e] = cars], sheet' = sheet, source' = source
  PROVE  SheetInv'
<1>1. \A d \in Events : fleet'[d] = IF d = e THEN cars ELSE fleet[d]
  BY DEF SheetInv
<1>2. \A d \in Events : SoundFleet(fleet'[d])
  BY <1>1 DEF SheetInv
<1>3. Untouched'
  BY DEF SheetInv, Untouched
<1> QED
  BY <1>2, <1>3 DEF SheetInv

\* The fleets are unchanged and the new sheet is one: what is left to say is its source.
LEMMA SheetEdited ==
  ASSUME SheetInv, fleet' = fleet, DOMAIN sheet' = {"header", "rows"}, sheet'.header \in Headers,
         NEW S, sheet'.rows \in Seq(S), \A row \in S \ {Ragged} : Readable(row), Untouched'
  PROVE  SheetInv'
<1>1. /\ IsSequence(sheet'.rows)
      /\ \A row \in ToSet(sheet'.rows) \ {Ragged} : DOMAIN row = Fields /\ IsSequence(row.crew)
  BY SoundRows
<1> QED
  BY <1>1 DEF SheetInv

\* An export holds a row for each car.
LEMMA ExportHolds ==
  ASSUME SheetInv, NEW e \in Events, Export(e)
  PROVE  SheetInv'
<1>1. SoundFleet(fleet[e])
  BY DEF SheetInv
<1> DEFINE cars == fleet[e]
           S == UNION {RowsOf(e, car) : car \in cars}
           n == Cardinality(cars)
<1>2. PICK list \in Listings(cars), rows \in Tables(e, cars) :
        /\ DOMAIN rows = DOMAIN list /\ \A i \in DOMAIN list : rows[i] \in RowsOf(e, list[i])
        /\ sheet' = [header |-> "exact", rows |-> rows]
  BY DEF Export
<1>3. source' = [of |-> e, cars |-> cars] /\ fleet' = fleet
  BY DEF Export
<1>4. list \in SetToSeqs(cars) /\ n \in Nat /\ DOMAIN list = 1..n /\ Len(list) = n
  <2>1. list \in SetToSeqs(cars)
    BY DEF Listings
  <2>2. IsFiniteSet(cars)
    BY <1>1 DEF SoundFleet
  <2> HIDE DEF cars
  <2> QED
    BY <2>1, <2>2, ListingFacts
<1>5. rows \in [1..n -> S]
  BY DEF Tables
<1>6. ASSUME NEW row \in S
      PROVE  Readable(row)
  <2>1. PICK car \in cars : row \in RowsOf(e, car)
    OBVIOUS
  <2>2. PICK field \in CrewFields(car.crew) :
          row = [car EXCEPT !.route = RouteName(e, @), !.crew = field]
    BY <2>1 DEF RowsOf
  <2>3. DOMAIN car = Fields /\ SoundMembers(car.crew)
    BY <1>1 DEF SoundFleet
  <2>4. IsSequence(field)
    BY <2>3, FieldText DEF SoundMembers
  <2> QED
    BY <2>2, <2>3, <2>4 DEF Readable, Fields
<1>7. sheet'.rows = rows /\ sheet'.header = "exact" /\ DOMAIN sheet' = {"header", "rows"}
  BY <1>2
<1>8. source'.of = e /\ source'.cars = cars
  BY <1>3
<1> HIDE DEF S, n
<1>9. rows \in Seq(S) /\ Len(rows) = n
  BY <1>4, <1>5
<1>10. Untouched'
  <2>1. \E l \in SetToSeqs(source'.cars) :
          /\ Len(sheet'.rows) = Len(l)
          /\ \A i \in DOMAIN l : sheet'.rows[i] \in RowsOf(source'.of, l[i])
    BY <1>2, <1>4, <1>7, <1>8, <1>9
  <2>2. SoundFleet(source'.cars) /\ source'.of \in Events /\ sheet'.header \in {"exact", "bom"}
    BY <1>1, <1>7, <1>8
  <2> QED
    BY <2>1, <2>2 DEF Untouched
<1> QED
  BY <1>3, <1>6, <1>7, <1>9, <1>10, SheetEdited DEF Headers

\* An import stores what the rules accept, or nothing.
LEMMA ImportHolds ==
  ASSUME SheetInv, NEW e \in Events, Import(e)
  PROVE  SheetInv'
<1>1. /\ SoundFleet(fleet[e]) /\ IsSequence(sheet.rows)
      /\ \A row \in ToSet(sheet.rows) \ {Ragged} : DOMAIN row = Fields /\ IsSequence(row.crew)
  BY DEF SheetInv
<1> DEFINE rows == ToSet(sheet.rows)
           more == {CarOf(e, row) : row \in rows}
           new == {Stored(CarOf(e, row)) : row \in rows}
           read == IF Acceptable(e) THEN new ELSE {}
           ok == read # {} /\ CodesOf(read) \cap CodesOf(fleet[e]) = {}
<1>2. /\ fleet' = [fleet EXCEPT ![e] = IF ok THEN fleet[e] \cup read ELSE fleet[e]]
      /\ sheet' = sheet /\ source' = source
  BY DEF Import
<1> HIDE DEF rows, more, new
<1>3. CASE ~ok
  <2>1. fleet' = [fleet EXCEPT ![e] = fleet[e]]
    BY <1>2, <1>3
  <2> QED
    BY <1>1, <1>2, <2>1, FleetEdited
<1>4. CASE ok
  <2>1. /\ Acceptable(e) /\ CodesOf(new) \cap CodesOf(fleet[e]) = {}
        /\ fleet' = [fleet EXCEPT ![e] = fleet[e] \cup new]
    BY <1>2, <1>4
  <2>2. \A row \in rows : row # Ragged /\ Legible(row.crew) /\ SoundCar(CarOf(e, row))
    BY <2>1 DEF Acceptable, ToSet, rows
  <2>3. \A row, other \in rows : row.code = other.code => row = other
    BY <2>1 DEF Acceptable, ToSet, rows
  <2>4. ASSUME NEW row \in rows
        PROVE  /\ Typable(CarOf(e, row)) /\ CarOf(e, row).code = row.code
               /\ Stored(CarOf(e, row)).code = row.code
    <3>1. Readable(row)
      BY <1>1, <2>2 DEF Readable, rows
    <3>2. Typable(CarOf(e, row)) /\ CarOf(e, row).code = row.code
      BY <2>2, <3>1, RowTypable
    <3> QED
      BY <3>2, SoundStored
  <2>5. IsFiniteSet(more)
    <3> DEFINE parse == [row \in rows |-> CarOf(e, row)]
    <3>1. parse \in Surjection(rows, more)
      BY DEF Surjection, more
    <3>2. IsFiniteSet(rows)
      BY <1>1, RowCount DEF IsSequence, rows
    <3> HIDE DEF parse
    <3> QED
      BY <3>1, <3>2, FS_Surjection
  <2>6. \A car \in more : Typable(car)
    BY <2>4 DEF more
  <2>7. \A c, d \in more : c.code = d.code => c = d
    BY <2>3, <2>4 DEF more
  <2>8. CodesOf(more) \cap CodesOf(fleet[e]) = {}
    BY <2>1, <2>4 DEF CodesOf, more, new
  <2>9. {Stored(car) : car \in more} = new
    BY DEF more, new
  <2>10. SoundFleet(fleet[e] \cup {Stored(car) : car \in more})
    BY <1>1, <2>5, <2>6, <2>7, <2>8, SoundAdded
  <2> QED
    BY <1>2, <2>1, <2>9, <2>10, FleetEdited
<1> QED
  BY <1>3, <1>4

\* Every step keeps the invariant.
LEMMA SheetSteps ==
  ASSUME SheetInv, SheetNext
  PROVE  SheetInv'
<1>0. /\ DOMAIN fleet = Events /\ \A e \in Events : SoundFleet(fleet[e])
      /\ DOMAIN sheet = {"header", "rows"} /\ sheet.header \in Headers
      /\ sheet.rows \in Seq(ToSet(sheet.rows))
      /\ \A row \in ToSet(sheet.rows) \ {Ragged} : Readable(row)
      /\ Untouched
  BY DEF SheetInv, IsSequence, Readable
<1>1. ASSUME NEW e \in Events, NEW car \in Cars[e], Create(e, car)
      PROVE  SheetInv'
  <2>1. Typable(car)
    BY <1>1, SheetConstants DEF Create, Typable
  <2>2. CodesOf({car}) \cap CodesOf(fleet[e]) = {}
    BY <1>1 DEF Create, CodesOf
  <2>3. {Stored(c) : c \in {car}} = {Stored(car)}
    OBVIOUS
  <2>4. IsFiniteSet({car})
    BY FS_Singleton
  <2>5. SoundFleet(fleet[e] \cup {Stored(c) : c \in {car}})
    BY <1>0, <2>1, <2>2, <2>4, SoundAdded
  <2> QED
    BY <1>1, <2>3, <2>5, FleetEdited DEF Create
<1>2. ASSUME NEW e \in Events, NEW car \in fleet[e], Delete(e, car)
      PROVE  SheetInv'
  <2>1. SoundFleet(fleet[e] \ {car})
    BY <1>0, SoundLeft
  <2> QED
    BY <1>2, <2>1, FleetEdited DEF Delete
<1>3. ASSUME NEW header \in {"exact", "bom", "other"}, Resave(header)
      PROVE  SheetInv'
  <2>1. sheet'.rows = sheet.rows /\ sheet'.header = header /\ DOMAIN sheet' = DOMAIN sheet
        /\ fleet' = fleet /\ source' = IF header = "bom" THEN source ELSE Null
    BY <1>0, <1>3 DEF Resave
  <2>2. Untouched'
    BY <1>0, <2>1 DEF Untouched
  <2> QED
    BY <1>0, <2>1, <2>2, SheetEdited DEF Headers
<1>4. ASSUME NEW i \in 1..MaxRows, NEW row \in Typed, TypeRow(i, row)
      PROVE  SheetInv'
  <2> DEFINE S == ToSet(sheet.rows) \cup {row}
             n == Len(sheet.rows)
  <2>1. i \in 1..(n + 1) /\ n \in Nat /\ sheet.rows \in Seq(S)
    BY <1>0, <1>4 DEF TypeRow
  <2>2. /\ sheet'.rows = SubSeq(sheet.rows, 1, i - 1) \o <<row>> \o SubSeq(sheet.rows, i + 1, n)
        /\ sheet'.header = sheet.header /\ DOMAIN sheet' = DOMAIN sheet /\ fleet' = fleet
        /\ source' = Null
    BY <1>0, <1>4 DEF TypeRow
  <2>3. \A r \in S \ {Ragged} : Readable(r)
    BY <1>0, SheetConstants DEF Readable
  <2>4. row \in S
    OBVIOUS
  <2> HIDE DEF S
  <2>5. SubSeq(sheet.rows, 1, i - 1) \in Seq(S)
    BY <2>1
  <2>6. SubSeq(sheet.rows, i + 1, n) \in Seq(S)
    BY <2>1
  <2>7. sheet'.rows \in Seq(S)
    BY <2>2, <2>4, <2>5, <2>6
  <2>8. Untouched'
    BY <2>2 DEF Untouched
  <2> QED
    BY <1>0, <2>2, <2>3, <2>7, <2>8, SheetEdited
<1> QED
  BY <1>1, <1>2, <1>3, <1>4, ExportHolds, ImportHolds DEF SheetNext

\* When nothing happens the invariant stays.
LEMMA SheetRests ==
  ASSUME SheetInv, UNCHANGED sheetVars
  PROVE  SheetInv'
BY DEF SheetInv, Untouched, sheetVars

\* The rows of an export nobody touched, each read back.
LEMMA ExportReadBack ==
  ASSUME SheetInv, NEW e, Restorable(e)
  PROVE  \E list \in Seq(source.cars) :
           /\ ToSet(list) = source.cars
           /\ DOMAIN sheet.rows = DOMAIN list
           /\ \A i, j \in DOMAIN list : list[i] = list[j] => i = j
           /\ \A i \in DOMAIN list : Restored(e, source.of, list[i], sheet.rows[i])
<1> DEFINE cars == source.cars
<1>1. /\ source # Null /\ SoundFleet(cars) /\ IsSequence(sheet.rows)
      /\ \A car \in cars : RouteName(source.of, car.route) # Null => <<e, car.route[2]>> \in Routes
      /\ \A car \in cars : \A m \in car.crew : Plain(m)
  BY DEF SheetInv, Untouched, Restorable
<1>2. PICK list \in SetToSeqs(cars) :
        /\ Len(sheet.rows) = Len(list)
        /\ \A i \in DOMAIN list : sheet.rows[i] \in RowsOf(source.of, list[i])
  BY <1>1 DEF SheetInv, Untouched
<1> HIDE DEF cars
<1>3. /\ list \in Seq(cars) /\ \A i \in DOMAIN list : list[i] \in cars
      /\ \A i, j \in DOMAIN list : list[i] = list[j] => i = j
      /\ \A x \in cars : \E i \in DOMAIN list : list[i] = x
  BY <1>1, ListingFacts DEF SoundFleet
<1>4. DOMAIN sheet.rows = DOMAIN list
  BY <1>1, <1>2, <1>3 DEF IsSequence
<1>5. ToSet(list) = cars
  BY <1>3 DEF ToSet
<1>6. ASSUME NEW i \in DOMAIN list
      PROVE  Restored(e, source.of, list[i], sheet.rows[i])
  <2>1. Exportable(e, source.of, list[i])
    BY <1>1, <1>3 DEF SoundFleet, Exportable
  <2> QED
    BY <1>2, <2>1, CarReadBack
<1> QED
  BY <1>3, <1>4, <1>5, <1>6 DEF cars

\* Importing an export nobody touched gives the cars it was made from.
LEMMA ImportRestores ==
  ASSUME SheetInv, NEW e \in Events, Restorable(e), Import(e)
  PROVE  /\ reply' = "imported"
         /\ Listed(e, fleet'[e]) = Listed(source.of, source.cars)
         /\ \A car \in fleet'[e] : car.crew = {} \/ FirstNavigates(car.crew)
<1> DEFINE cars == source.cars
           rows == sheet.rows
           Back(i) == Stored(CarOf(e, rows[i]))
<1>1. PICK list \in Seq(cars) :
        /\ ToSet(list) = cars /\ DOMAIN rows = DOMAIN list
        /\ \A i, j \in DOMAIN list : list[i] = list[j] => i = j
        /\ \A i \in DOMAIN list : Restored(e, source.of, list[i], rows[i])
  BY ExportReadBack
<1> DEFINE D == DOMAIN list
           new == {Back(i) : i \in D}
<1>2. /\ cars # {} /\ fleet[e] = {} /\ SoundFleet(cars) /\ sheet.header \in {"exact", "bom"}
      /\ DOMAIN fleet = Events
  BY DEF Restorable, SheetInv, Untouched
<1>3. \A i \in D : list[i] \in cars
  OBVIOUS
<1>4. D # {} /\ new # {}
  BY <1>1, <1>2 DEF ToSet
<1>5. \A i, j \in D : rows[i].code = rows[j].code => i = j
  BY <1>1, <1>2, <1>3 DEF Restored, SoundFleet
<1>6. Acceptable(e)
  <2>1. rows # <<>>
    BY <1>1, <1>4
  <2> QED
    BY <1>1, <1>2, <1>5, <2>1 DEF Acceptable, Restored
<1>7. {Stored(CarOf(e, row)) : row \in ToSet(rows)} = new
  BY <1>1 DEF ToSet
<1>8. CodesOf(new) \cap CodesOf(fleet[e]) = {}
  BY <1>2 DEF CodesOf
<1>9. reply' = "imported" /\ fleet'[e] = new
  <2> HIDE DEF new
  <2>1. /\ fleet' = [fleet EXCEPT ![e] = fleet[e] \cup new]
        /\ reply' = "imported"
    BY <1>4, <1>6, <1>7, <1>8 DEF Import
  <2> QED
    BY <1>2, <2>1
<1>10. ASSUME NEW i \in D
       PROVE  /\ Back(i).crew = {} \/ FirstNavigates(Back(i).crew)
              /\ [Back(i) EXCEPT !.route = RouteName(e, @),
                                 !.crew = {Texts(m) : m \in Back(i).crew}]
                   = [list[i] EXCEPT !.route = RouteName(source.of, @),
                                     !.crew = {Texts(m) : m \in list[i].crew}]
  <2> DEFINE back == Back(i)
             car == list[i]
  <2>1. DOMAIN car = Fields
    BY <1>2, <1>3 DEF SoundFleet
  <2>2. /\ DOMAIN back = Fields
        /\ back.code = car.code /\ back.team = car.team
        /\ RouteName(e, back.route) = RouteName(source.of, car.route)
        /\ {Texts(m) : m \in back.crew} = {Texts(m) : m \in car.crew}
        /\ back.crew = {} \/ FirstNavigates(back.crew)
    BY <1>1 DEF Restored, Stored, Fields
  <2> HIDE DEF back, car
  <2>3. [back EXCEPT !.route = RouteName(e, @), !.crew = {Texts(m) : m \in back.crew}]
          = [car EXCEPT !.route = RouteName(source.of, @), !.crew = {Texts(m) : m \in car.crew}]
    BY <2>1, <2>2 DEF Fields
  <2> QED
    BY <2>2, <2>3 DEF back, car
<1>11. Listed(e, new) = Listed(source.of, cars)
  <2> DEFINE Out(of, car) ==
               [car EXCEPT !.route = RouteName(of, @), !.crew = {Texts(m) : m \in car.crew}]
  <2>1. \A i \in D : Out(e, Back(i)) = Out(source.of, list[i])
    BY <1>10
  <2>2. \A of, set : Listed(of, set) = {Out(of, car) : car \in set}
    BY DEF Listed
  <2>3. cars = {list[i] : i \in D}
    BY <1>1 DEF ToSet
  <2> HIDE DEF Out, cars, D, Back
  <2>4. {Out(e, car) : car \in new} = {Out(e, Back(i)) : i \in D}
    OBVIOUS
  <2>5. {Out(e, Back(i)) : i \in D} = {Out(source.of, list[i]) : i \in D}
    BY <2>1
  <2>6. {Out(source.of, list[i]) : i \in D} = {Out(source.of, car) : car \in cars}
    BY <2>3
  <2> QED
    BY <2>2, <2>4, <2>5, <2>6
<1>12. \A car \in new : car.crew = {} \/ FirstNavigates(car.crew)
  BY <1>10
<1> QED
  BY <1>9, <1>11, <1>12

\* Form and spreadsheet obey the same rules, whatever is typed into either
\* (RallySheet's OneSetOfRules).
THEOREM NoWayRoundTheRules == SheetSpec => []OneSetOfRules
<1>1. SheetInit => SheetInv
  BY SheetStarts
<1>2. SheetInv /\ [SheetNext]_sheetVars => SheetInv'
  BY SheetSteps, SheetRests
<1>3. SheetInv => OneSetOfRules
  BY SheetSound
<1> QED
  BY <1>1, <1>2, <1>3, PTL DEF SheetSpec

\* An export nobody touched gives the same cars with the same crews when it is imported
\* where there are none (RallySheet's ComesBack).
THEOREM ExportsComeBack == SheetSpec => ComesBack
<1>1. SheetInit => SheetInv
  BY SheetStarts
<1>2. SheetInv /\ [SheetNext]_sheetVars => SheetInv'
  BY SheetSteps, SheetRests
<1> DEFINE Same == \A e \in Events : Restorable(e) /\ Import(e) =>
             /\ reply' = "imported"
             /\ Listed(e, fleet'[e]) = Listed(source.of, source.cars)
             /\ \A car \in fleet'[e] : car.crew = {} \/ FirstNavigates(car.crew)
<1>3. SheetInv => Same
  BY ImportRestores
<1>4. SheetInv /\ [SheetNext]_sheetVars => [Same]_sheetVars
  BY <1>3
<1>5. ComesBack <=> [][Same]_sheetVars
  BY DEF ComesBack
<1> HIDE DEF Same
<1> QED
  BY <1>1, <1>2, <1>4, <1>5, PTL DEF SheetSpec

=============================================================================
