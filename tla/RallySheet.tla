----------------------------- MODULE RallySheet -----------------------------
(***************************************************************************)
(* Provisioning a fleet from a spreadsheet (backend/internal/vehicles:     *)
(* csv.go, ImportCSV, ExportCSV and the rules they share with the form).   *)
(* One organizer works at a time; RallyRoster has the races.  A text is    *)
(* the sequence of its words and separators, trimmed; commas, quotes and   *)
(* line breaks are encoding/csv's, which gives back what it was given.     *)
(***************************************************************************)
EXTENDS Integers, Sequences, FiniteSets, SequencesExt

CONSTANTS
  Events,
  Routes,              \* the routes, each its event and its name there
  Addresses,           \* words with one "@" inside
  Numbers,             \* words with at least MinPhoneDigits digits
  Colon, Pipe,         \* crewFieldSeparator, crewSeparator
  Cars,                \* what somebody may type into the form of each event
  Typed,               \* rows somebody may type into the sheet
  MaxRows,             \* bound on the rows somebody types
  Before(_, _),        \* the collation of codes and names
  Null                 \* an empty field, SQL NULL, and nothing

Fields == {"code", "team", "route", "crew"}
Ragged == [code |-> Null]    \* a row with a field too many or too few

IsSequence(list) == list \in Seq(ToSet(list))
Worded(m) == IsSequence(m.name) /\ IsSequence(m.email) /\ IsSequence(m.phone)

ASSUME SheetConstants ==
  /\ \A route \in Routes : Len(route) = 2 /\ route[1] \in Events
  /\ Null \notin Routes /\ Colon # Pipe
  /\ DOMAIN Cars = Events
  /\ \A e \in Events : \A car \in Cars[e] :
       /\ DOMAIN car = Fields /\ IsSequence(car.crew)
       /\ \A i \in DOMAIN car.crew : Worded(car.crew[i])
  /\ \A row \in Typed \ {Ragged} : DOMAIN row = Fields /\ IsSequence(row.crew)
  /\ MaxRows \in Nat

VARIABLES
  fleet,    \* the vehicles of each event
  sheet,    \* the file in the organizer's hands
  source,   \* history: the fleet the sheet was exported from, Null once it was edited
  reply     \* what the import just before answered, Null after anything else

sheetVars == <<fleet, sheet, source, reply>>

Headers == {"empty", "exact", "bom", "other"}
NoSheet == [header |-> "empty", rows |-> <<>>]
SheetInit ==
  /\ fleet = [e \in Events |-> {}]
  /\ sheet = NoSheet
  /\ source = Null
  /\ reply = Null

-----------------------------------------------------------------------------
(* Texts *)

\* strings.SplitN: at most limit parts, the last keeps the separators left in it.
SplitN(text, sep, limit) ==
  LET upTo[n \in 0..Len(text)] ==
        IF n = 0 THEN << <<>> >>
        ELSE LET parts == upTo[n - 1] IN
             IF text[n] = sep /\ Len(parts) < limit
               THEN Append(parts, <<>>)
               ELSE [parts EXCEPT ![Len(parts)] = Append(@, text[n])]
  IN upTo[Len(text)]
Split(text, sep) == SplitN(text, sep, Len(text) + 1)

Join(texts, sep) ==
  LET upTo[n \in 0..Len(texts)] ==
        IF n = 0 THEN <<>>
        ELSE IF n = 1 THEN texts[1]
        ELSE upTo[n - 1] \o <<sep>> \o texts[n]
  IN upTo[Len(texts)]

-----------------------------------------------------------------------------
(* The rules of the roster *)

\* normalizeCrewEmail: one "@", and no space, which is what parts two words in a row.
SoundEmail(text) ==
  /\ Cardinality({i \in DOMAIN text : text[i] \in Addresses}) = 1
  /\ \A i \in 2..Len(text) : {text[i - 1], text[i]} \cap {Colon, Pipe} # {}
SoundPhone(text) == \E i \in DOMAIN text : text[i] \in Numbers

\* buildCrew: every member has a name, an address nobody else in the car has, a number
\* one can dial, and one of the two roles (IsValid), a node's when the form names none.
CrewRoles == {"navigator", "node"}
SoundMember(m) ==
  m.name # <<>> /\ SoundEmail(m.email) /\ SoundPhone(m.phone) /\ m.role \in CrewRoles
SoundCrewEachAlone(crew) == \A i \in DOMAIN crew : SoundMember(crew[i])
SoundCrew(crew) ==
  /\ \A i \in DOMAIN crew : SoundMember(crew[i])
  /\ \A i, j \in DOMAIN crew : crew[i].email = crew[j].email => i = j

\* buildVehicle and validateVehicle.
SoundCar(car) == car.code # <<>> /\ car.team # <<>> /\ SoundCrew(car.crew)

CodesOf(cars) == {car.code : car \in cars}
\* The rows as they are stored: the crew has no order of its own.
Stored(car) == [car EXCEPT !.crew = ToSet(car.crew)]

\* Create: the form gives each member a role and the car any route there is, this
\* event's or another's.  A Delete and a Create do what an Update does to a sheet.
Create(e, car) ==
  /\ SoundCar(car) /\ car.route \in Routes \cup {Null}
  /\ car.code \notin CodesOf(fleet[e])
  /\ fleet' = [fleet EXCEPT ![e] = @ \cup {Stored(car)}]
  /\ reply' = Null
  /\ UNCHANGED <<sheet, source>>

Delete(e, car) ==
  /\ fleet' = [fleet EXCEPT ![e] = @ \ {car}]
  /\ reply' = Null
  /\ UNCHANGED <<sheet, source>>

-----------------------------------------------------------------------------
(* Writing the sheet *)

RouteName(e, route) == IF route # Null /\ route[1] = e THEN route[2] ELSE Null

\* attachCrew lists a car's crew by name, writeCSV puts it into one field.
Entry(m) == Join(<<m.name, m.email, m.phone>>, Colon)
ByName(members) ==
  {list \in SetToSeqs(members) :
     \A i, j \in DOMAIN list : i < j => ~Before(list[j].name, list[i].name)}
CrewFields(members) ==
  {Join([i \in DOMAIN list |-> Entry(list[i])], Pipe) : list \in ByName(members)}
RowsOf(e, car) ==
  {[car EXCEPT !.route = RouteName(e, @), !.crew = field] : field \in CrewFields(car.crew)}

\* ListByEvent lists the cars by code.
Listings(cars) ==
  {list \in SetToSeqs(cars) :
     \A i, j \in DOMAIN list : i < j => Before(list[i].code, list[j].code)}
\* What the rows of a fleet may be, where names are equal and the order is open.
Tables(e, cars) == [1..Cardinality(cars) -> UNION {RowsOf(e, car) : car \in cars}]
Export(e) ==
  /\ \E list \in Listings(fleet[e]), rows \in Tables(e, fleet[e]) :
       /\ DOMAIN rows = DOMAIN list /\ \A i \in DOMAIN list : rows[i] \in RowsOf(e, list[i])
       /\ sheet' = [header |-> "exact", rows |-> rows]
  /\ source' = [of |-> e, cars |-> fleet[e]]
  /\ reply' = Null
  /\ UNCHANGED fleet

\* The organizer saves the sheet from another program, or types a row.
Resave(header) ==
  /\ sheet.header # header
  /\ sheet' = [sheet EXCEPT !.header = header]
  /\ source' = IF header = "bom" THEN source ELSE Null
  /\ reply' = Null
  /\ UNCHANGED fleet
TypeRow(i, row) ==
  /\ sheet.header # "empty"
  /\ i \in 1..(Len(sheet.rows) + 1) \cap 1..MaxRows
  /\ sheet' = [sheet EXCEPT !.rows = SubSeq(@, 1, i - 1) \o <<row>> \o SubSeq(@, i + 1, Len(@))]
  /\ source' = Null
  /\ reply' = Null
  /\ UNCHANGED fleet

-----------------------------------------------------------------------------
(* Reading it *)

\* splitCrew: blank entries are skipped, every other one has its three parts.
Entries(field) ==
  LET part == Split(field, Pipe)
      upTo[n \in 0..Len(part)] ==
        IF n = 0 THEN <<>>
        ELSE IF part[n] = <<>> THEN upTo[n - 1]
        ELSE Append(upTo[n - 1], part[n])
  IN upTo[Len(part)]
PartsUnlimited(entry) == Split(entry, Colon)
Parts(entry) == SplitN(entry, Colon, 3)
\* Once parsed, a member's role follows from its place in the list.
MemberOf(entry, i) ==
  LET part == Parts(entry) IN
  [name |-> part[1], email |-> part[2], phone |-> part[3],
   role |-> IF i = 1 THEN "navigator" ELSE "node"]
Legible(field) == \A i \in DOMAIN Entries(field) : Len(Parts(Entries(field)[i])) = 3
CarOf(e, row) ==
  [row EXCEPT !.route = IF @ = Null THEN Null ELSE <<e, @>>,
              !.crew = [i \in DOMAIN Entries(@) |-> MemberOf(Entries(@)[i], i)]]

\* parseCSV and the checks of ImportCSV, over the whole file before anything is stored.
Acceptable(e) ==
  /\ sheet.header \in {"exact", "bom"}
  /\ sheet.rows # <<>>
  /\ \A i \in DOMAIN sheet.rows :
       LET row == sheet.rows[i] IN
       /\ row # Ragged
       /\ Legible(row.crew)
       /\ SoundCar(CarOf(e, row)) /\ CarOf(e, row).route \in Routes \cup {Null}
       /\ \A j \in DOMAIN sheet.rows : sheet.rows[j].code = row.code => i = j

\* CreateMany: one transaction, undone by a code that is taken.
Import(e) ==
  LET rows == IF Acceptable(e) THEN {Stored(CarOf(e, row)) : row \in ToSet(sheet.rows)} ELSE {}
      ok == rows # {} /\ CodesOf(rows) \cap CodesOf(fleet[e]) = {}
  IN /\ fleet' = [fleet EXCEPT ![e] = IF ok THEN @ \cup rows ELSE @]
     /\ reply' = IF ok THEN "imported" ELSE "refused"
     /\ UNCHANGED <<sheet, source>>

-----------------------------------------------------------------------------

SheetNext ==
  \/ \E e \in Events :
       \/ \E car \in Cars[e] : Create(e, car)
       \/ \E car \in fleet[e] : Delete(e, car)
       \/ Export(e)
       \/ Import(e)
  \/ \E header \in {"exact", "bom", "other"} : Resave(header)
  \/ \E i \in 1..MaxRows, row \in Typed : TypeRow(i, row)

SheetSpec == SheetInit /\ [][SheetNext]_sheetVars

-----------------------------------------------------------------------------
(* Properties *)

\* "An imported roster and a hand-entered one obey exactly the same rules" (splitCrew):
\* whichever way the cars came in, and whatever was typed into the sheet, a code is
\* one car's, an address one member's of it, and every member can be told and called.
OneSetOfRules ==
  /\ sheet.header \in Headers
  /\ \A e \in Events :
       /\ Cardinality(CodesOf(fleet[e])) = Cardinality(fleet[e])
       /\ \A car \in fleet[e] :
            /\ car.code # <<>> /\ car.team # <<>>
            /\ \A m \in car.crew : SoundMember(m)
            /\ \A m, n \in car.crew : m.email = n.email => m = n

\* "An export can be edited and imported straight back" (writeCSV): an export nobody
\* touched, read into an event without cars that has the routes it names, gives the
\* same cars with the same crews, as long as no member's texts hold a separator (a
\* number may hold colons).  Roles are not in the file, the first member by name comes
\* back as the navigator; nor is a route of another event.
Plain(m) ==
  /\ \A text \in {m.name, m.email, m.phone} : ~Contains(text, Pipe)
  /\ \A text \in {m.name, m.email} : ~Contains(text, Colon)
Texts(m) == [name |-> m.name, email |-> m.email, phone |-> m.phone]
Listed(e, cars) ==
  {[car EXCEPT !.route = RouteName(e, @), !.crew = {Texts(m) : m \in car.crew}] : car \in cars}
Restorable(e) ==
  /\ source # Null /\ source.cars # {} /\ fleet[e] = {}
  /\ \A car \in source.cars :
       /\ \A m \in car.crew : Plain(m)
       /\ RouteName(source.of, car.route) # Null => <<e, car.route[2]>> \in Routes
FirstNavigates(crew) ==
  \E first \in crew :
    /\ {m \in crew : m.role = "navigator"} = {first}
    /\ \A m \in crew \ {first} : ~Before(m.name, first.name)
ComesBack ==
  [][\A e \in Events : Restorable(e) /\ Import(e) =>
       /\ reply' = "imported"
       /\ Listed(e, fleet'[e]) = Listed(source.of, source.cars)
       /\ \A car \in fleet'[e] : car.crew = {} \/ FirstNavigates(car.crew)]_sheetVars

-----------------------------------------------------------------------------
(* The inductive invariant the proofs of the two rest on *)

\* The fleets are finite, as are the crews and the sheet, and what either holds has the
\* fields of a car and of a member.
SoundMembers(members) ==
  /\ IsFiniteSet(members)
  /\ \A m \in members : SoundMember(m) /\ Worded(m)
  /\ \A m, n \in members : m.email = n.email => m = n
SoundFleet(cars) ==
  /\ IsFiniteSet(cars)
  /\ \A c, d \in cars : c.code = d.code => c = d
  /\ \A car \in cars :
       DOMAIN car = Fields /\ car.code # <<>> /\ car.team # <<>> /\ SoundMembers(car.crew)

\* An export nobody touched holds one row for each car of the fleet it was made from.
Untouched ==
  source # Null =>
    /\ source.of \in Events /\ SoundFleet(source.cars) /\ sheet.header \in {"exact", "bom"}
    /\ \E list \in SetToSeqs(source.cars) :
         /\ Len(sheet.rows) = Len(list)
         /\ \A i \in DOMAIN list : sheet.rows[i] \in RowsOf(source.of, list[i])

SheetInv ==
  /\ DOMAIN fleet = Events /\ \A e \in Events : SoundFleet(fleet[e])
  /\ DOMAIN sheet = {"header", "rows"} /\ sheet.header \in Headers
  /\ IsSequence(sheet.rows)
  /\ \A row \in ToSet(sheet.rows) \ {Ragged} : DOMAIN row = Fields /\ IsSequence(row.crew)
  /\ Untouched

=============================================================================
