------------------------- MODULE RallyRoutes_proofs -------------------------
(***************************************************************************)
(* Theorems of RallyRoutes, for any routes, any legs and any organizers.   *)
(***************************************************************************)
EXTENDS RallyRoutes, FiniteSetTheorems, TLAPS

-----------------------------------------------------------------------------
(* Numbering a set from zero *)

\* In a finite set put in order, counting who comes before numbers it 0..n-1.
LEMMA RankIsDense ==
  ASSUME NEW S, IsFiniteSet(S), NEW below \in [S -> SUBSET S],
         \A l \in S : l \notin below[l],
         \A k, l \in S : k \in below[l] => below[k] \subseteq below[l],
         \A k, l \in S : k # l => k \in below[l] \/ l \in below[k]
  PROVE  /\ \A k, l \in S : k \in below[l] => Cardinality(below[k]) < Cardinality(below[l])
         /\ \A k, l \in S : Cardinality(below[k]) = Cardinality(below[l]) => k = l
         /\ {Cardinality(below[l]) : l \in S} = 0..(Cardinality(S) - 1)
  <1> DEFINE n == Cardinality(S)
             rank == [l \in S |-> Cardinality(below[l])]
  <1>a. n \in Nat
    BY FS_CardinalityType
  <1>b. \A l \in S : IsFiniteSet(below[l]) /\ Cardinality(below[l]) \in Nat
    BY FS_Subset, FS_CardinalityType
  <1>1. ASSUME NEW k \in S, NEW l \in S, k \in below[l]
        PROVE  Cardinality(below[k]) < Cardinality(below[l])
    <2>1. below[k] \in SUBSET below[l] /\ below[k] # below[l]
      BY <1>1
    <2>2. /\ Cardinality(below[k]) <= Cardinality(below[l])
          /\ Cardinality(below[k]) # Cardinality(below[l])
      BY <1>b, <2>1, FS_Subset
    <2> QED BY <1>b, <2>2
  <1>2. ASSUME NEW k \in S, NEW l \in S, Cardinality(below[k]) = Cardinality(below[l])
        PROVE  k = l
    BY <1>1, <1>2, <1>b
  <1>3. ASSUME NEW l \in S
        PROVE  Cardinality(below[l]) \in 0..(n - 1)
    <2>1. below[l] \in SUBSET S /\ below[l] # S
      BY <1>3
    <2>2. Cardinality(below[l]) <= n /\ Cardinality(below[l]) # n
      BY <2>1, FS_Subset
    <2> QED BY <1>a, <1>b, <2>2
  <1>4. rank \in Injection(S, 0..(n - 1))
    BY <1>2, <1>3 DEF Injection, IsInjective
  <1>5. IsFiniteSet(0..(n - 1)) /\ Cardinality(0..(n - 1)) = n
    BY <1>a, FS_Interval
  <1>6. rank \in Surjection(S, 0..(n - 1))
    BY <1>4, <1>5, FS_Injection
  <1>7. {Cardinality(below[l]) : l \in S} = 0..(n - 1)
    <2>1. \A i \in 0..(n - 1) : \E l \in S : Cardinality(below[l]) = i
      BY <1>6 DEF Surjection
    <2> QED BY <1>3, <2>1
  <1> QED BY <1>1, <1>2, <1>7

\* The list without its repeats: every task once, and each of them.
LEMMA DedupedFacts ==
  ASSUME NEW T, NEW list \in Seq(T)
  PROVE  /\ Deduped(list) \in Seq(ToSet(list))
         /\ IsInjective(Deduped(list))
  <1> DEFINE firsts == {i \in DOMAIN list : \A j \in 1..(i - 1) : list[j] # list[i]}
             below == [i \in firsts |-> {j \in firsts : j < i}]
             at(k) == CHOOSE i \in firsts : Cardinality({j \in firsts : j < i}) = k - 1
             n == Cardinality(firsts)
  <1>a. Len(list) \in Nat /\ DOMAIN list = 1..Len(list) /\ firsts \subseteq 1..Len(list)
    OBVIOUS
  <1>b. IsFiniteSet(firsts) /\ n \in Nat
    <2>1. IsFiniteSet(1..Len(list))
      BY <1>a, FS_Interval
    <2>2. firsts \in SUBSET (1..Len(list))
      BY <1>a
    <2> HIDE DEF firsts
    <2> QED BY <2>1, <2>2, FS_Subset, FS_CardinalityType
  <1>c. \A i, j \in firsts : list[i] = list[j] => i = j
    BY <1>a
  <1>1. {Cardinality(below[i]) : i \in firsts} = 0..(n - 1)
    <2>1. firsts \subseteq Nat
      BY <1>a
    <2> HIDE DEF firsts
    <2>2. below \in [firsts -> SUBSET firsts]
      OBVIOUS
    <2>3. \A i, j \in firsts : i \in below[j] <=> i < j
      OBVIOUS
    <2> HIDE DEF below
    <2>4. /\ \A i \in firsts : i \notin below[i]
          /\ \A i, j \in firsts : i # j => i \in below[j] \/ j \in below[i]
      BY <2>1, <2>3
    <2>5. \A i, j \in firsts : i \in below[j] => below[i] \subseteq below[j]
      <3> SUFFICES ASSUME NEW i \in firsts, NEW j \in firsts, i \in below[j], NEW k \in below[i]
                   PROVE  k \in below[j]
        OBVIOUS
      <3>1. k \in firsts
        BY <2>2
      <3> QED BY <2>1, <2>3, <3>1
    <2> QED BY <1>b, <2>2, <2>4, <2>5, RankIsDense
  <1>2. \A k \in 1..n : at(k) \in firsts /\ Cardinality({j \in firsts : j < at(k)}) = k - 1
    <2> SUFFICES ASSUME NEW k \in 1..n
                 PROVE  at(k) \in firsts /\ Cardinality({j \in firsts : j < at(k)}) = k - 1
      OBVIOUS
    <2>1. k - 1 \in 0..(n - 1)
      BY <1>b
    <2>2. PICK i \in firsts : Cardinality(below[i]) = k - 1
      BY <1>1, <2>1
    <2>3. Cardinality({j \in firsts : j < i}) = k - 1
      BY <2>2
    <2> HIDE DEF firsts
    <2> QED BY <2>3
  <1>3. Deduped(list) = [k \in 1..n |-> list[at(k)]]
    BY DEF Deduped
  <1>4. \A k \in 1..n : list[at(k)] \in ToSet(list)
    BY <1>2 DEF ToSet
  <1>5. \A k, m \in 1..n : list[at(k)] = list[at(m)] => k = m
    <2> SUFFICES ASSUME NEW k \in 1..n, NEW m \in 1..n, list[at(k)] = list[at(m)]
                 PROVE  k = m
      OBVIOUS
    <2>1. at(k) = at(m)
      BY <1>2, <1>c
    <2>2. k - 1 = m - 1
      BY <1>2, <2>1
    <2> QED BY <1>b, <2>2
  <1> HIDE DEF at, n, firsts
  <1>6. [k \in 1..n |-> list[at(k)]] \in Seq(ToSet(list))
    BY <1>b, <1>4
  <1> QED BY <1>3, <1>5, <1>6 DEF IsInjective

\* Counting who comes before closes the gap a deleted leg leaves, in the same order.
LEMMA PositionIsDense ==
  ASSUME \A l \in Legs : leg[l].pos \in Nat, NEW left \in SUBSET Legs
  PROVE  /\ \A l \in left : Position(l, left) \in Nat
         /\ \A k, l \in left : Before(k, l) => Position(k, left) < Position(l, left)
         /\ {Position(l, left) : l \in left} = 0..(Cardinality(left) - 1)
  <1> DEFINE below == [l \in left |-> {k \in left : Before(k, l)}]
  <1>1. IsFiniteSet(left)
    BY RoutesConstants, FS_Subset
  <1>2. below \in [left -> SUBSET left] /\ \A k, l \in left : k \in below[l] <=> Before(k, l)
    OBVIOUS
  <1>3. \A l \in left : Position(l, left) = Cardinality(below[l])
    BY DEF Position
  <1>4. \A l \in left : l \in Nat /\ leg[l].pos \in Nat
    BY RoutesConstants
  <1> HIDE DEF below
  <1>5. \A l \in left : l \notin below[l]
    BY <1>2, <1>4 DEF Before
  <1>6. \A k, l \in left : k # l => k \in below[l] \/ l \in below[k]
    BY <1>2, <1>4 DEF Before
  <1>7. \A k, l \in left : k \in below[l] => below[k] \subseteq below[l]
    <2> SUFFICES ASSUME NEW k \in left, NEW l \in left, k \in below[l], NEW m \in below[k]
                 PROVE  m \in below[l]
      OBVIOUS
    <2>1. m \in left
      BY <1>2
    <2> QED BY <1>2, <1>4, <2>1 DEF Before
  <1>8. \A l \in left : IsFiniteSet(below[l]) /\ Cardinality(below[l]) \in Nat
    BY <1>1, <1>2, FS_Subset, FS_CardinalityType
  <1>9. /\ \A k, l \in left : k \in below[l] => Cardinality(below[k]) < Cardinality(below[l])
        /\ {Cardinality(below[l]) : l \in left} = 0..(Cardinality(left) - 1)
    BY <1>1, <1>2, <1>5, <1>6, <1>7, RankIsDense
  <1>10. {Position(l, left) : l \in left} = {Cardinality(below[l]) : l \in left}
    BY <1>3
  <1> QED BY <1>2, <1>3, <1>8, <1>9, <1>10

\* The indices of a permutation are all there are, each leg's own.
LEMMA PermutationIsDense ==
  ASSUME NEW r, NEW list \in Seq(Legs), Permutation(r, list)
  PROVE  /\ \A l \in LegsOf(r) : list[CHOOSE i \in DOMAIN list : list[i] = l] = l
         /\ {(CHOOSE i \in DOMAIN list : list[i] = l) - 1 : l \in LegsOf(r)}
              = 0..(Cardinality(LegsOf(r)) - 1)
  <1> DEFINE n == Cardinality(LegsOf(r))
             at(l) == CHOOSE i \in DOMAIN list : list[i] = l
  <1>1. /\ DOMAIN list = 1..n /\ n \in Nat
        /\ \A i \in 1..n : list[i] \in LegsOf(r)
        /\ \A l \in LegsOf(r) : \E i \in 1..n : list[i] = l
    BY DEF Permutation, ToSet
  <1>2. IsFiniteSet(LegsOf(r)) /\ IsFiniteSet(1..n) /\ Cardinality(1..n) = n
    <2>1. LegsOf(r) \in SUBSET Legs
      BY DEF LegsOf
    <2>2. IsFiniteSet(LegsOf(r))
      BY <2>1, RoutesConstants, FS_Subset
    <2> QED BY <1>1, <2>2, FS_Interval
  <1>3. [i \in 1..n |-> list[i]] \in Surjection(1..n, LegsOf(r))
    BY <1>1 DEF Surjection
  <1>4. [i \in 1..n |-> list[i]] \in Injection(1..n, LegsOf(r))
    BY <1>2, <1>3, FS_SurjSameCardinalityImpliesInj
  <1>5. \A i, j \in 1..n : list[i] = list[j] => i = j
    BY <1>4 DEF Injection, IsInjective
  <1>6. \A l \in LegsOf(r) : at(l) \in 1..n /\ list[at(l)] = l
    BY <1>1
  <1>7. \A i \in 1..n : at(list[i]) = i
    BY <1>1, <1>5, <1>6
  <1>8. {at(l) - 1 : l \in LegsOf(r)} = 0..(n - 1)
    <2> HIDE DEF at
    <2>1. \A l \in LegsOf(r) : at(l) - 1 \in 0..(n - 1)
      BY <1>1, <1>6
    <2>2. \A k \in 0..(n - 1) : \E l \in LegsOf(r) : at(l) - 1 = k
      <3> SUFFICES ASSUME NEW k \in 0..(n - 1)
                   PROVE  \E l \in LegsOf(r) : at(l) - 1 = k
        OBVIOUS
      <3>1. k + 1 \in 1..n
        BY <1>1
      <3>2. list[k + 1] \in LegsOf(r) /\ at(list[k + 1]) = k + 1
        BY <1>1, <1>7, <3>1
      <3> QED BY <3>2
    <2> QED BY <2>1, <2>2
  <1> QED BY <1>6, <1>8

-----------------------------------------------------------------------------
(* The rows, the calls and the car on the course *)

\* No routes yet.
LEMMA RouteInit == Init => RouteInv
  <1> SUFFICES ASSUME Init
               PROVE  RouteInv
    OBVIOUS
  <1>1. /\ NoCall \in Calls /\ NoPing \in Pings
        /\ NoLeg \in [route : Routes \cup {None}, pos : Nat, spot : Spots \cup {None}]
    BY DEF NoCall, NoPing, NoLeg, Calls, Pings
  <1>2. \A l \in Legs : ~Exists(l) /\ attached[l] = <<>> /\ IsInjective(attached[l])
    BY DEF Init, Exists, NoLeg, IsInjective
  <1>3. TypeOK
    BY <1>1, <1>2 DEF Init, TypeOK
  <1>4. CarOnCourse /\ Named /\ Claimed
    BY DEF Init, CarOnCourse, Named, Claimed, NoCall, NoPing
  <1> QED BY <1>3, <1>4 DEF RouteInv

\* A step of an edit that touches no row.
LEMMA CallMoves ==
  ASSUME RouteInv, NEW e \in Editors, NEW c \in Calls, call' = [call EXCEPT ![e] = c],
         c.pc \in {"route", "create", "reorder"} => c.route \in Routes /\ name[c.route] # None,
         c.pc = "route" => c.to \in Names,
         c.pc \in {"create", "update"} => c.to \in Spots,
         c.pc = "update" => c.id \in Legs,
         UNCHANGED <<name, leg, attached, visit, current, ping, clean>>
  PROVE  RouteInv'
  <1>a. TypeOK /\ CarOnCourse /\ Named /\ Claimed /\ call \in [Editors -> Calls]
    BY DEF RouteInv, TypeOK
  <1>b. /\ call' \in [Editors -> Calls]
        /\ call'[e] = c /\ \A d \in Editors \ {e} : call'[d] = call[d]
    BY <1>a
  <1>1. TypeOK'
    BY <1>a, <1>b DEF TypeOK, Exists
  <1>2. CarOnCourse' /\ Claimed'
    BY <1>a DEF CarOnCourse, Claimed, Exists
  <1>3. Named'
    BY <1>a, <1>b DEF Named
  <1> QED BY <1>1, <1>2, <1>3 DEF RouteInv

\* An edit does not forget what it holds when another overtakes it.
LEMMA OutdatedFacts ==
  ASSUME RouteInv, NEW r
  PROVE  /\ Outdated(r) \in [Editors -> Calls]
         /\ \A d \in Editors :
              /\ Outdated(r)[d].pc = call[d].pc /\ Outdated(r)[d].route = call[d].route
              /\ Outdated(r)[d].to = call[d].to /\ Outdated(r)[d].id = call[d].id
              /\ Outdated(r)[d].list = call[d].list /\ Outdated(r)[d].pos = call[d].pos
  <1>1. call \in [Editors -> Calls]
    BY DEF RouteInv, TypeOK
  <1> QED BY <1>1 DEF Outdated, Calls

\* Rows are written, none is deleted.
LEMMA RowsMove ==
  ASSUME RouteInv,
         name' \in [Routes -> Names \cup {None}],
         \A r \in Routes : name[r] # None => name'[r] # None,
         leg' \in [Legs -> [route : Routes \cup {None}, pos : Nat, spot : Spots \cup {None}]],
         \A l \in Legs :
           /\ Exists(l) => leg'[l].route # None
           /\ leg'[l].route # None => name'[leg'[l].route] # None,
         ping.current = None \/ Exists(ping.current) \/ leg'[ping.current].route = None,
         call' \in [Editors -> Calls],
         \A d \in Editors :
           \/ call'[d] = NoCall
           \/ /\ call'[d].pc = call[d].pc /\ call'[d].route = call[d].route
              /\ call'[d].to = call[d].to /\ call'[d].id = call[d].id,
         clean' \in [Routes -> BOOLEAN],
         UNCHANGED <<attached, visit, current, ping>>
  PROVE  RouteInv'
  <1>a. TypeOK /\ CarOnCourse /\ Named /\ Claimed
    BY DEF RouteInv
  <1>1. TypeOK'
    BY <1>a DEF TypeOK, Exists
  <1>2. CarOnCourse'
    BY <1>a DEF CarOnCourse, Exists, TypeOK
  <1>3. Claimed'
    <2>1. ping.current # None => ping.current \in Legs
      BY <1>a DEF TypeOK, Pings
    <2>2. ping.current \notin ping.inside \cup visit /\ ping.current # None => ~Exists(ping.current)
      BY <1>a DEF Claimed
    <2> QED BY <1>a, <2>2 DEF Claimed, Exists
  <1>4. Named'
    BY <1>a DEF Named, NoCall
  <1> QED BY <1>1, <1>2, <1>3, <1>4 DEF RouteInv

\* A leg goes, and with it all that names it.
LEMMA DeleteKeeps ==
  ASSUME RouteInv, NEW l \in Legs, DeleteWaypoint(l)
  PROVE  RouteInv'
  <1> DEFINE r == leg[l].route
             left == LegsOf(r) \ {l}
  <1>a. TypeOK /\ CarOnCourse /\ Named /\ Claimed /\ Exists(l) /\ r \in Routes
    BY DEF RouteInv, DeleteWaypoint, TypeOK, Exists
  <1>b. /\ leg' \in [Legs -> [route : Routes \cup {None}, pos : Nat, spot : Spots \cup {None}]]
        /\ leg'[l].route = None /\ \A k \in Legs \ {l} : leg'[k].route = leg[k].route
    <2>1. \A k \in left : Position(k, left) \in Nat
      BY <1>a, PositionIsDense DEF TypeOK, LegsOf
    <2>2. leg' = [k \in Legs |-> IF k = l THEN NoLeg
                                 ELSE IF k \in left
                                      THEN [leg[k] EXCEPT !.pos = Position(k, left)]
                                      ELSE leg[k]]
      BY DEF DeleteWaypoint
    <2> HIDE DEF left
    <2>3. NoLeg \in [route : Routes \cup {None}, pos : Nat, spot : Spots \cup {None}]
      BY DEF NoLeg
    <2>4. \A k \in left :
            /\ [leg[k] EXCEPT !.pos = Position(k, left)].route = leg[k].route
            /\ [leg[k] EXCEPT !.pos = Position(k, left)] \in
                 [route : Routes \cup {None}, pos : Nat, spot : Spots \cup {None}]
      BY <1>a, <2>1 DEF TypeOK, left, LegsOf
    <2> QED BY <1>a, <2>2, <2>3, <2>4 DEF TypeOK, NoLeg
  <1>c. /\ attached' = [attached EXCEPT ![l] = <<>>] /\ visit' = visit \ {l}
        /\ current' = CurrentLeft(l) /\ call' = Outdated(r)
        /\ clean' = [clean EXCEPT ![r] = TRUE] /\ UNCHANGED <<name, ping>>
    BY DEF DeleteWaypoint
  <1>1. TypeOK'
    <2>1. /\ attached' \in [Legs -> Seq(Stored)]
          /\ attached'[l] = <<>> /\ \A k \in Legs \ {l} : attached'[k] = attached[k]
      BY <1>a, <1>c DEF TypeOK
    <2>2. \A k \in Legs : IsInjective(attached'[k]) /\ (attached'[k] # <<>> => Exists(k)')
      <3>1. IsInjective(<<>>)
        BY DEF IsInjective
      <3>2. \A k \in Legs \ {l} : Exists(k) => leg'[k].route # None
        BY <1>b DEF Exists
      <3> QED BY <1>a, <2>1, <3>1, <3>2 DEF TypeOK, Exists
    <2>3. current' \in Legs \cup {None} /\ visit' \subseteq Legs
      BY <1>a, <1>c DEF TypeOK, CurrentLeft
    <2>4. clean' \in [Routes -> BOOLEAN]
      BY <1>a, <1>c DEF TypeOK
    <2>5. call' \in [Editors -> Calls]
      BY <1>c, OutdatedFacts
    <2>6. \A k \in Legs : Exists(k)' => name'[leg'[k].route] # None
      BY <1>a, <1>b, <1>c DEF TypeOK, Exists
    <2> QED BY <1>a, <1>b, <1>c, <2>1, <2>2, <2>3, <2>4, <2>5, <2>6 DEF TypeOK
  <1>2. CarOnCourse'
    BY <1>a, <1>b, <1>c, RoutesConstants DEF CarOnCourse, Exists, CurrentLeft, TypeOK
  <1>3. Claimed'
    <2>1. ping.current # None => ping.current \in Legs
      BY <1>a DEF TypeOK, Pings
    <2> QED BY <1>a, <1>b, <1>c, <2>1 DEF Claimed, Exists
  <1>4. Named'
    <2>1. \A d \in Editors :
            /\ call'[d].pc = call[d].pc /\ call'[d].route = call[d].route
            /\ call'[d].to = call[d].to /\ call'[d].id = call[d].id
      BY <1>c, OutdatedFacts
    <2> QED BY <1>a, <1>c, <2>1 DEF Named
  <1> QED BY <1>1, <1>2, <1>3, <1>4 DEF RouteInv

\* Every statement of every handler preserves the invariant.
LEMMA RouteNext == RouteInv /\ [Next]_vars => RouteInv'
  <1> SUFFICES ASSUME RouteInv, [Next]_vars
               PROVE  RouteInv'
    OBVIOUS
  <1> DEFINE LegRows == [route : Routes \cup {None}, pos : Nat, spot : Spots \cup {None}]
  <1>a. /\ name \in [Routes -> Names \cup {None}] /\ leg \in [Legs -> LegRows]
        /\ call \in [Editors -> Calls] /\ ping \in Pings
        /\ clean \in [Routes -> BOOLEAN] /\ visit \subseteq Legs /\ current \in Legs \cup {None}
        /\ attached \in [Legs -> Seq(Stored)]
        /\ \A l \in Legs : Exists(l) => name[leg[l].route] # None
        /\ CarOnCourse /\ Named /\ Claimed
    BY DEF RouteInv, TypeOK
  <1>b. NoCall \in Calls /\ NoCall.pc = "idle"
    BY DEF NoCall, Calls
  <1>c. ping.current = None \/ Exists(ping.current) \/ leg[ping.current].route = None
    BY DEF Exists
  <1>d. \A l \in Legs :
          (Exists(l) => leg[l].route # None) /\ (leg[l].route # None => name[leg[l].route] # None)
    BY <1>a DEF Exists
  <1>1. ASSUME NEW r \in Routes, NEW n \in Names, CreateRoute(r, n)
        PROVE  RouteInv'
    <2>1. /\ name' = [name EXCEPT ![r] = n]
          /\ UNCHANGED <<leg, attached, visit, current, call, ping, clean>>
      BY <1>1 DEF CreateRoute
    <2>2. n # None
      BY RoutesConstants
    <2>3. /\ name' \in [Routes -> Names \cup {None}]
          /\ \A q \in Routes : name[q] # None => name'[q] # None
      BY <1>a, <2>1, <2>2
    <2>4. \A l \in Legs : leg[l].route # None => name'[leg[l].route] # None
      BY <1>a, <1>d, <2>3
    <2> QED BY <1>a, <1>c, <1>d, <2>1, <2>3, <2>4, RowsMove
  <1>2. ASSUME NEW e \in Editors, NEW r \in Routes, NEW n \in Names \cup {None},
               UpdateRouteStart(e, r, n)
        PROVE  RouteInv'
    <2>0. PICK to : to = IF n = None THEN name[r] ELSE n
      OBVIOUS
    <2> DEFINE c == [NoCall EXCEPT !.pc = "route", !.route = r, !.to = to]
    <2>1. to \in Names /\ name[r] # None
      BY <1>2, <1>a, <2>0 DEF UpdateRouteStart
    <2>2. /\ call' = [call EXCEPT ![e] = c]
          /\ UNCHANGED <<name, leg, attached, visit, current, ping, clean>>
      BY <1>2, <2>0 DEF UpdateRouteStart
    <2>3. c \in Calls /\ c.pc = "route" /\ c.route = r /\ c.to = to
      BY <1>b, <2>1 DEF Calls
    <2> HIDE DEF c
    <2> QED BY <2>1, <2>2, <2>3, CallMoves
  <1>3. ASSUME NEW e \in Editors, UpdateRouteRow(e)
        PROVE  RouteInv'
    <2>1. call[e].route \in Routes /\ call[e].to \in Names /\ call[e].to # None
      BY <1>3, <1>a, RoutesConstants DEF UpdateRouteRow, Named
    <2>2. /\ name' = name \/ name' = [name EXCEPT ![call[e].route] = call[e].to]
          /\ call' = [call EXCEPT ![e] = NoCall]
          /\ UNCHANGED <<leg, attached, visit, current, ping, clean>>
      BY <1>3 DEF UpdateRouteRow, Finished
    <2>3. /\ name' \in [Routes -> Names \cup {None}]
          /\ \A q \in Routes : name[q] # None => name'[q] # None
      BY <1>a, <2>1, <2>2
    <2>4. \A l \in Legs : leg[l].route # None => name'[leg[l].route] # None
      BY <1>a, <1>d, <2>3
    <2>5. call' \in [Editors -> Calls] /\ \A d \in Editors : call'[d] = NoCall \/ call'[d] = call[d]
      BY <1>a, <1>b, <2>2
    <2> QED BY <1>a, <1>c, <1>d, <2>2, <2>3, <2>4, <2>5, RowsMove
  <1>4. ASSUME NEW e \in Editors, NEW r \in Routes, NEW spot \in Spots, AddStart(e, r, spot)
        PROVE  RouteInv'
    <2>0. PICK n : n = Cardinality(LegsOf(r))
      OBVIOUS
    <2> DEFINE c == [NoCall EXCEPT !.pc = "create", !.route = r, !.to = spot, !.pos = n]
    <2>1. n \in Nat
      <3>1. LegsOf(r) \in SUBSET Legs
        BY DEF LegsOf
      <3> QED BY <2>0, <3>1, RoutesConstants, FS_Subset, FS_CardinalityType
    <2>2. /\ call' = [call EXCEPT ![e] = c] /\ name[r] # None
          /\ UNCHANGED <<name, leg, attached, visit, current, ping, clean>>
      BY <1>4, <2>0 DEF AddStart
    <2>3. c \in Calls /\ c.pc = "create" /\ c.route = r /\ c.to = spot
      BY <1>b, <2>1 DEF Calls
    <2> HIDE DEF c
    <2> QED BY <2>2, <2>3, CallMoves
  <1>5. ASSUME NEW e \in Editors, AddRow(e)
        PROVE  RouteInv'
    <2> DEFINE r == call[e].route
    <2>1. PICK l \in Legs :
            /\ Fresh(l)
            /\ leg' = [leg EXCEPT ![l] = [route |-> r, pos |-> call[e].pos, spot |-> call[e].to]]
      BY <1>5 DEF AddRow
    <2>2. /\ call' = [Outdated(r) EXCEPT ![e] = NoCall]
          /\ clean' = [clean EXCEPT ![r] = @ /\ ~call[e].outdated]
          /\ UNCHANGED <<name, attached, visit, current, ping>>
      BY <1>5 DEF AddRow
    <2>3. /\ r \in Routes /\ name[r] # None /\ r # None
          /\ call[e].to \in Spots /\ call[e].pos \in Nat
      BY <1>5, <1>a, RoutesConstants DEF AddRow, Named, Calls
    <2>4. [route |-> r, pos |-> call[e].pos, spot |-> call[e].to] \in LegRows
      BY <2>3
    <2>5. clean' \in [Routes -> BOOLEAN]
      BY <1>a, <2>2
    <2>6. call' \in [Editors -> Calls] /\ \A d \in Editors :
           \/ call'[d] = NoCall
           \/ /\ call'[d].pc = call[d].pc /\ call'[d].route = call[d].route
              /\ call'[d].to = call[d].to /\ call'[d].id = call[d].id
      BY <1>b, <2>2, OutdatedFacts
    <2> HIDE DEF r
    <2>7. /\ leg' \in [Legs -> LegRows] /\ leg'[l].route = r
          /\ \A k \in Legs \ {l} : leg'[k] = leg[k]
      BY <1>a, <2>1, <2>4
    <2>8. \A k \in Legs :
           /\ Exists(k) => leg'[k].route # None
           /\ leg'[k].route # None => name'[leg'[k].route] # None
      BY <1>d, <2>2, <2>3, <2>7 DEF Exists
    <2>9. ping.current # l /\ (ping.current = None \/ ping.current \in Legs)
      BY <1>a, <2>1 DEF Fresh, Pings
    <2>10. ping.current = None \/ Exists(ping.current) \/ leg'[ping.current].route = None
      BY <1>c, <2>7, <2>9
    <2> QED BY <1>a, <2>2, <2>5, <2>6, <2>7, <2>8, <2>10, RowsMove
  <1>6. ASSUME NEW e \in Editors, NEW l \in Legs, NEW spot \in Spots, UpdateStart(e, l, spot)
        PROVE  RouteInv'
    <2>0. PICK n : n = leg[l].pos
      OBVIOUS
    <2> DEFINE c == [NoCall EXCEPT !.pc = "update", !.id = l, !.pos = n, !.to = spot]
    <2>1. n \in Nat
      BY <1>a, <2>0
    <2>2. /\ call' = [call EXCEPT ![e] = c]
          /\ UNCHANGED <<name, leg, attached, visit, current, ping, clean>>
      BY <1>6, <2>0 DEF UpdateStart
    <2>3. c \in Calls /\ c.pc = "update" /\ c.id = l /\ c.to = spot
      BY <1>b, <2>1 DEF Calls
    <2> HIDE DEF c
    <2> QED BY <2>2, <2>3, CallMoves
  <1>7. ASSUME NEW e \in Editors, UpdateRow(e)
        PROVE  RouteInv'
    <2> DEFINE l == call[e].id
    <2>1. l \in Legs /\ call[e].to \in Spots
      BY <1>7, <1>a DEF UpdateRow, Named
    <2>2. /\ call' = [call EXCEPT ![e] = NoCall]
          /\ UNCHANGED <<name, attached, visit, current, ping, clean>>
          /\ leg' = leg \/ leg' = [leg EXCEPT ![l] = [leg[l] EXCEPT !.spot = call[e].to]]
      BY <1>7, <1>a DEF UpdateRow, Finished, Edited
    <2>3. /\ [leg[l] EXCEPT !.spot = call[e].to] \in LegRows
          /\ [leg[l] EXCEPT !.spot = call[e].to].route = leg[l].route
      BY <1>a, <2>1
    <2>4. leg' \in [Legs -> LegRows] /\ \A k \in Legs : leg'[k].route = leg[k].route
      BY <1>a, <2>1, <2>2, <2>3
    <2>5. call' \in [Editors -> Calls] /\ \A d \in Editors : call'[d] = NoCall \/ call'[d] = call[d]
      BY <1>a, <1>b, <2>2
    <2>6. ping.current = None \/ Exists(ping.current) \/ leg'[ping.current].route = None
      BY <1>a, <1>c, <2>4 DEF Pings
    <2> QED BY <1>a, <1>d, <2>2, <2>4, <2>5, <2>6, RowsMove
  <1>8. ASSUME NEW e \in Editors, NEW r \in Routes, ReorderStart(e, r)
        PROVE  RouteInv'
    <2>1. PICK list \in [1..Cardinality(LegsOf(r)) -> LegsOf(r)] :
            /\ call' = [call EXCEPT ![e] = [NoCall EXCEPT !.pc = "reorder", !.route = r,
                                              !.list = list]]
            /\ name[r] # None
            /\ UNCHANGED <<name, leg, attached, visit, current, ping, clean>>
      BY <1>8 DEF ReorderStart
    <2>2. list \in Seq(Legs)
      <3>1. LegsOf(r) \in SUBSET Legs
        BY DEF LegsOf
      <3>2. Cardinality(LegsOf(r)) \in Nat
        BY <3>1, RoutesConstants, FS_Subset, FS_CardinalityType
      <3> QED BY <3>1, <3>2
    <2> DEFINE c == [NoCall EXCEPT !.pc = "reorder", !.route = r, !.list = list]
    <2>3. c \in Calls /\ c.pc = "reorder" /\ c.route = r
      BY <2>2 DEF NoCall, Calls
    <2>4. call' = [call EXCEPT ![e] = c]
      BY <2>1
    <2> HIDE DEF c
    <2> QED BY <2>1, <2>3, <2>4, CallMoves
  <1>9. ASSUME NEW e \in Editors, ReorderRows(e)
        PROVE  RouteInv'
    <2>1. CASE leg' = leg /\ clean' = clean /\ Finished(e)
      <3>1. UNCHANGED <<name, attached, visit, current, ping>>
        BY <1>9 DEF ReorderRows
      <3>2. /\ call' \in [Editors -> Calls]
            /\ \A d \in Editors : call'[d] = NoCall \/ call'[d] = call[d]
        BY <1>a, <1>b, <2>1 DEF Finished
      <3> QED BY <1>a, <1>c, <1>d, <2>1, <3>1, <3>2, RowsMove
    <2>2. CASE /\ leg' = Reordered(call[e].list)
               /\ call' = [Outdated(call[e].route) EXCEPT ![e] = NoCall]
               /\ clean' = [clean EXCEPT ![call[e].route] = @ /\ ~call[e].outdated]
      <3> DEFINE list == call[e].list
                 at(l) == CHOOSE i \in DOMAIN list : list[i] = l
      <3>1. UNCHANGED <<name, attached, visit, current, ping>>
        BY <1>9 DEF ReorderRows
      <3>2. \A l \in ToSet(list) : at(l) - 1 \in Nat
        <4>1. list \in Seq(Legs)
          BY <1>a DEF Calls
        <4> QED BY <4>1 DEF ToSet
      <3>3. /\ leg' = [l \in Legs |-> IF l \in ToSet(list)
                                     THEN [leg[l] EXCEPT !.pos = at(l) - 1] ELSE leg[l]]
        BY <2>2 DEF Reordered
      <3> HIDE DEF at, list
      <3>4. leg' \in [Legs -> LegRows] /\ \A l \in Legs : leg'[l].route = leg[l].route
        BY <1>a, <3>2, <3>3
      <3>5. call' \in [Editors -> Calls] /\ \A d \in Editors :
             \/ call'[d] = NoCall
             \/ /\ call'[d].pc = call[d].pc /\ call'[d].route = call[d].route
                /\ call'[d].to = call[d].to /\ call'[d].id = call[d].id
        BY <1>b, <2>2, OutdatedFacts
      <3>6. clean' \in [Routes -> BOOLEAN]
        BY <1>a, <2>2
      <3>7. ping.current = None \/ Exists(ping.current) \/ leg'[ping.current].route = None
        BY <1>a, <1>c, <3>4 DEF Pings
      <3> QED BY <1>a, <1>d, <3>1, <3>4, <3>5, <3>6, <3>7, RowsMove
    <2> QED BY <1>9, <2>1, <2>2 DEF ReorderRows
  <1>10. ASSUME NEW e \in Editors, Abort(e)
         PROVE  RouteInv'
    <2>1. /\ call' = [call EXCEPT ![e] = NoCall]
          /\ UNCHANGED <<name, leg, attached, visit, current, ping, clean>>
      BY <1>10 DEF Abort, Finished
    <2> QED BY <1>b, <2>1, CallMoves
  <1>11. ASSUME NEW l \in Legs, DeleteWaypoint(l)
         PROVE  RouteInv'
    BY <1>11, DeleteKeeps
  <1>12. ASSUME NEW b \in Bindings, AttachTasks(b[1], b[2])
         PROVE  RouteInv'
    <2> DEFINE l == b[1]
               list == b[2]
    <2>1. l \in Legs /\ list \in Seq(ToSet(list)) /\ ToSet(list) \subseteq Stored
      BY <1>12, RoutesConstants DEF AttachTasks
    <2>2. /\ Exists(l) /\ attached' = [attached EXCEPT ![l] = Deduped(list)]
          /\ UNCHANGED <<name, leg, visit, current, call, ping, clean>>
      BY <1>12 DEF AttachTasks
    <2>3. Deduped(list) \in Seq(ToSet(list)) /\ IsInjective(Deduped(list))
      BY <2>1, DedupedFacts
    <2>4. Deduped(list) \in Seq(Stored)
      BY <2>1, <2>3
    <2> HIDE DEF l, list
    <2>5. /\ attached' \in [Legs -> Seq(Stored)]
          /\ \A k \in Legs : attached'[k] = attached[k] \/ (k = l /\ attached'[k] = Deduped(list))
      BY <1>a, <2>1, <2>2, <2>4
    <2>6. TypeOK'
      BY <2>2, <2>3, <2>5 DEF RouteInv, TypeOK, Exists
    <2>7. CarOnCourse' /\ Named' /\ Claimed'
      BY <1>a, <2>2 DEF CarOnCourse, Named, Claimed, Exists
    <2> QED BY <2>6, <2>7 DEF RouteInv
  <1>13. ASSUME Driving
         PROVE  RouteInv'
    <2>1. ASSUME UNCHANGED <<name, leg, attached, call, clean>>, ping' \in Pings,
                 visit' \subseteq Legs, current' \in Legs \cup {None}
          PROVE  TypeOK' /\ Named'
      BY <2>1, <1>a DEF RouteInv, TypeOK, Exists, Named
    <2>2. ASSUME NEW r \in Routes, NEW place \in Around, PingStart(r, place \cap LegsOf(r))
          PROVE  RouteInv'
      <3> DEFINE inside == place \cap LegsOf(r)
      <3>1. PICK l \in IF inside = {} THEN {current} ELSE Furthest(inside) :
              ping' = [pc |-> "claim", inside |-> inside, current |-> l]
        BY <2>2 DEF PingStart
      <3>2. inside \subseteq Legs /\ (l = current \/ l \in inside)
        BY DEF LegsOf, Furthest
      <3>3. UNCHANGED <<name, leg, attached, visit, current, call, clean>>
        BY <2>2 DEF PingStart
      <3> HIDE DEF inside
      <3>4. /\ ping' \in Pings /\ ping'.pc = "claim" /\ ping'.inside = inside /\ ping'.current = l
        BY <1>a, <3>1, <3>2 DEF Pings
      <3>5. CarOnCourse' /\ Claimed'
        BY <1>a, <3>2, <3>3, <3>4 DEF CarOnCourse, Claimed, Exists
      <3> QED BY <1>a, <2>1, <3>3, <3>4, <3>5 DEF RouteInv
    <2>3. ASSUME PingClaim
          PROVE  RouteInv'
      <3>1. UNCHANGED <<name, leg, attached, current, call, clean>>
        BY <2>3 DEF PingClaim
      <3>2. CASE ping.inside = {} /\ ping' = [ping EXCEPT !.pc = "write"] /\ visit' = visit
        <4>1. /\ ping' \in Pings /\ ping'.inside = {} /\ ping'.current = ping.current
          BY <1>a, <3>2 DEF Pings
        <4>2. CarOnCourse' /\ Claimed'
          BY <1>a, <3>1, <3>2, <4>1 DEF CarOnCourse, Claimed, Exists
        <4> QED BY <1>a, <2>1, <3>1, <3>2, <4>1, <4>2 DEF RouteInv
      <3>3. ASSUME NEW l \in ping.inside, Exists(l), visit' = visit \cup {l},
                   ping' = [ping EXCEPT !.inside = @ \ {l}]
            PROVE  RouteInv'
        <4>1. /\ ping' \in Pings /\ ping'.inside = ping.inside \ {l} /\ ping'.current = ping.current
              /\ ping'.pc = ping.pc /\ l \in Legs
          BY <1>a, <3>3 DEF Pings
        <4>2. CarOnCourse' /\ Claimed'
          BY <1>a, <3>1, <3>3, <4>1 DEF CarOnCourse, Claimed, Exists
        <4> QED BY <1>a, <2>1, <3>1, <3>3, <4>1, <4>2 DEF RouteInv
      <3>4. CASE ping' = NoPing /\ visit' = visit
        <4>1. ping' \in Pings /\ ping'.current = None /\ ping'.inside = {}
          BY <3>4 DEF Pings, NoPing
        <4>2. CarOnCourse' /\ Claimed'
          BY <1>a, <3>1, <3>4, <4>1 DEF CarOnCourse, Claimed, Exists
        <4> QED BY <1>a, <2>1, <3>1, <3>4, <4>1, <4>2 DEF RouteInv
      <3> QED BY <2>3, <3>2, <3>3, <3>4 DEF PingClaim
    <2>4. ASSUME PingWrite
          PROVE  RouteInv'
      <3>1. /\ UNCHANGED <<name, leg, attached, visit, call, clean>> /\ ping' = NoPing
            /\ ping.inside = {}
            /\ \/ current' = current
               \/ current' = ping.current /\ (ping.current = None \/ Exists(ping.current))
        BY <2>4, <1>a DEF PingWrite, Claimed
      <3>2. ping' \in Pings /\ ping'.current = None /\ ping'.inside = {}
        BY <3>1 DEF Pings, NoPing
      <3>3. current' \in Legs \cup {None}
        BY <1>a, <3>1 DEF Pings
      <3>4. CarOnCourse' /\ Claimed'
        BY <1>a, <3>1, <3>2 DEF CarOnCourse, Claimed, Exists
      <3> QED BY <1>a, <2>1, <3>1, <3>2, <3>3, <3>4 DEF RouteInv
    <2> QED BY <1>13, <2>2, <2>3, <2>4 DEF Driving
  <1>14. CASE UNCHANGED vars
    BY <1>14 DEF vars, RouteInv, TypeOK, CarOnCourse, Named, Claimed, Exists
  <1> QED
    BY <1>1, <1>2, <1>3, <1>4, <1>5, <1>6, <1>7, <1>8, <1>9, <1>10, <1>11, <1>12, <1>13, <1>14
    DEF Next, Editing

\* The rows and the calls have their types, and a waypoint lists no task twice.
THEOREM RouteTypes == Spec => []TypeOK
  <1>1. RouteInv => TypeOK
    BY DEF RouteInv
  <1> QED BY <1>1, RouteInit, RouteNext, PTL DEF Spec

\* However legs are deleted around it, the car is shown at one it has been inside.
THEOREM CarStaysOnCourse == Spec => []CarOnCourse
  <1>1. RouteInv => CarOnCourse
    BY DEF RouteInv
  <1> QED BY <1>1, RouteInit, RouteNext, PTL DEF Spec

-----------------------------------------------------------------------------
(* The sequence stays 0..n-1 *)

\* How many legs a route has is a number.
LEMMA LegCount ==
  ASSUME NEW r
  PROVE  /\ LegsOf(r) \in SUBSET Legs /\ IsFiniteSet(LegsOf(r))
         /\ Cardinality(LegsOf(r)) \in Nat
  <1>1. LegsOf(r) \in SUBSET Legs
    BY DEF LegsOf
  <1> QED BY <1>1, RoutesConstants, FS_Subset, FS_CardinalityType

\* A route without legs is numbered.
LEMMA DenseInit == Init => DenseInv
  <1> SUFFICES ASSUME Init
               PROVE  DenseInv
    OBVIOUS
  <1>1. \A r \in Routes : LegsOf(r) = {}
    BY RoutesConstants DEF Init, LegsOf, NoLeg
  <1>2. \A r \in Routes : Dense(r)
    <2>1. Cardinality({}) = 0 /\ 0..(0 - 1) = {}
      BY FS_EmptySet
    <2> QED BY <1>1, <2>1 DEF Dense
  <1>3. UpToDate
    BY DEF Init, UpToDate, NoCall
  <1> QED BY <1>2, <1>3 DEF DenseInv, DenseUnlessOutdated

\* The legs of a route and their positions, by rows.
LegsIn(rows, r) == {l \in Legs : rows[l].route = r}
Places(rows, r) == {rows[l].pos : l \in LegsIn(rows, r)}

\* The invariant after a step, with the primes where they belong.
LEMMA DenseNow ==
  /\ \A r : LegsOf(r) = LegsIn(leg, r)
  /\ DenseInv => /\ \A r \in Routes : clean[r] =>
                      Places(leg, r) = 0..(Cardinality(LegsIn(leg, r)) - 1)
                 /\ \A d \in Editors : ~call[d].outdated =>
                      /\ call[d].pc = "create" =>
                           call[d].pos = Cardinality(LegsIn(leg, call[d].route))
                      /\ call[d].pc = "reorder" =>
                           /\ Len(call[d].list) = Cardinality(LegsIn(leg, call[d].route))
                           /\ ToSet(call[d].list) = LegsIn(leg, call[d].route)
  BY DEF DenseInv, DenseUnlessOutdated, Dense, UpToDate, Permutation, LegsOf, LegsIn, Places

\* And what is to be shown of it, to have it again.
LEMMA DenseThen ==
  ASSUME \A r \in Routes : clean'[r] =>
           Places(leg', r) = 0..(Cardinality(LegsIn(leg', r)) - 1),
         \A d \in Editors : ~call'[d].outdated =>
           /\ call'[d].pc = "create" =>
                call'[d].pos = Cardinality(LegsIn(leg', call'[d].route))
           /\ call'[d].pc = "reorder" =>
                /\ Len(call'[d].list) = Cardinality(LegsIn(leg', call'[d].route))
                /\ ToSet(call'[d].list) = LegsIn(leg', call'[d].route)
  PROVE  DenseInv'
  <1>1. DenseUnlessOutdated'
    BY DEF DenseUnlessOutdated, Dense, LegsOf, LegsIn, Places
  <1>2. UpToDate'
    BY DEF UpToDate, Permutation, LegsOf, LegsIn
  <1> QED BY <1>1, <1>2 DEF DenseInv

\* Nothing happens to the sequence: an edit may have begun, with what it has read.
LEMMA DenseKept ==
  ASSUME DenseInv, clean' = clean,
         \A l \in Legs : leg'[l].route = leg[l].route /\ leg'[l].pos = leg[l].pos,
         \A d \in Editors :
           \/ call'[d] = call[d]
           \/ call'[d].pc \notin {"create", "reorder"}
           \/ call'[d].pc = "create" /\ call'[d].pos = Cardinality(LegsIn(leg, call'[d].route))
           \/ /\ call'[d].pc = "reorder"
              /\ Len(call'[d].list) = Cardinality(LegsIn(leg, call'[d].route))
              /\ ToSet(call'[d].list) = LegsIn(leg, call'[d].route)
  PROVE  DenseInv'
  <1>1. \A r : LegsIn(leg', r) = LegsIn(leg, r)
    BY DEF LegsIn
  <1>2. \A r : \A l \in LegsIn(leg, r) : leg'[l].pos = leg[l].pos
    BY DEF LegsIn
  <1>3. \A r : Places(leg', r) = Places(leg, r)
    BY <1>1, <1>2 DEF Places
  <1> QED BY <1>1, <1>3, DenseNow, DenseThen

\* The sequence of one route is rewritten; the edits of it that were under way have
\* been overtaken, those of the others have not.
LEMMA DenseRewritten ==
  ASSUME RouteInv, DenseInv, NEW r \in Routes,
         \A l \in Legs : leg'[l] # leg[l] => leg[l].route \in {r, None}
                                             /\ leg'[l].route \in {r, None},
         \A q \in Routes \ {r} : clean'[q] = clean[q],
         clean'[r] => Places(leg', r) = 0..(Cardinality(LegsIn(leg', r)) - 1),
         \A d \in Editors : call'[d] = NoCall \/ call'[d] = Outdated(r)[d]
  PROVE  DenseInv'
  <1>1. \A q \in Routes \ {r} : LegsIn(leg', q) = LegsIn(leg, q)
    BY RoutesConstants DEF LegsIn
  <1>2. \A q \in Routes \ {r} : \A l \in LegsIn(leg, q) : leg'[l] = leg[l]
    BY RoutesConstants DEF LegsIn
  <1>3. \A q \in Routes \ {r} : Places(leg', q) = Places(leg, q)
    BY <1>1, <1>2 DEF Places
  <1>4. ASSUME NEW d \in Editors, ~call'[d].outdated, call'[d].pc \in {"create", "reorder"}
        PROVE  call'[d] = call[d] /\ call[d].route \in Routes \ {r}
    <2>1. call[d] \in Calls
      BY DEF RouteInv, TypeOK
    <2>2. call'[d] = Outdated(r)[d]
      BY <1>4 DEF NoCall
    <2>3. call'[d] = call[d] /\ ~(call[d].pc \in {"create", "reorder"} /\ call[d].route = r)
      BY <1>4, <2>1, <2>2 DEF Outdated, Calls
    <2> QED BY <1>4, <2>3 DEF RouteInv, Named
  <1>5. \A q \in Routes : clean'[q] => Places(leg', q) = 0..(Cardinality(LegsIn(leg', q)) - 1)
    BY <1>1, <1>3, DenseNow
  <1> QED BY <1>1, <1>4, <1>5, DenseNow, DenseThen

\* Adding at the end: the new leg takes the position after the last, unless an edit
\* overtook the call, and then the route is no longer clean.
LEMMA DenseAdd ==
  ASSUME RouteInv, DenseInv, NEW e \in Editors, AddRow(e)
  PROVE  DenseInv'
  <1> DEFINE r == call[e].route
             n == call[e].pos
  <1>a. /\ call \in [Editors -> Calls] /\ leg \in [Legs -> [route : Routes \cup {None}, pos : Nat,
                                                            spot : Spots \cup {None}]]
        /\ r \in Routes /\ r # None /\ n \in Nat /\ clean \in [Routes -> BOOLEAN]
        /\ call[e].pc = "create"
    BY RoutesConstants DEF AddRow, RouteInv, TypeOK, Named, Calls
  <1>1. PICK l \in Legs :
          /\ Fresh(l)
          /\ leg' = [leg EXCEPT ![l] = [route |-> r, pos |-> n, spot |-> call[e].to]]
    BY DEF AddRow
  <1>2. /\ call' = [Outdated(r) EXCEPT ![e] = NoCall]
        /\ clean' = [clean EXCEPT ![r] = @ /\ ~call[e].outdated]
    BY DEF AddRow
  <1>3. \A d \in Editors : call'[d] = NoCall \/ call'[d] = Outdated(r)[d]
    BY <1>2, OutdatedFacts
  <1>4. /\ clean'[r] => clean[r] /\ ~call[e].outdated
        /\ \A q \in Routes \ {r} : clean'[q] = clean[q]
    BY <1>a, <1>2
  <1> HIDE DEF r, n
  <1>5. /\ leg'[l].route = r /\ leg'[l].pos = n /\ leg[l].route = None
        /\ \A k \in Legs \ {l} : leg'[k] = leg[k]
    BY <1>a, <1>1 DEF Fresh, Exists
  <1>6. LegsIn(leg', r) = LegsIn(leg, r) \cup {l} /\ l \notin LegsIn(leg, r)
    BY <1>a, <1>5 DEF LegsIn
  <1>7. /\ IsFiniteSet(LegsIn(leg, r)) /\ Cardinality(LegsIn(leg, r)) \in Nat
        /\ Cardinality(LegsIn(leg', r)) = Cardinality(LegsIn(leg, r)) + 1
    BY <1>6, LegCount, DenseNow, FS_AddElement
  <1>8. Places(leg', r) = Places(leg, r) \cup {n}
    <2>1. LegsIn(leg, r) \subseteq Legs \ {l}
      BY <1>6 DEF LegsIn
    <2>2. \A k \in LegsIn(leg, r) : leg'[k].pos = leg[k].pos
      BY <1>5, <2>1
    <2>3. {leg'[k].pos : k \in LegsIn(leg, r) \cup {l}}
            = {leg[k].pos : k \in LegsIn(leg, r)} \cup {n}
      BY <1>5, <2>2
    <2> QED BY <1>6, <2>3 DEF Places
  <1>9. clean'[r] => Places(leg', r) = 0..(Cardinality(LegsIn(leg', r)) - 1)
    <2> SUFFICES ASSUME clean'[r]
                 PROVE  Places(leg', r) = 0..(Cardinality(LegsIn(leg', r)) - 1)
      OBVIOUS
    <2>1. n = Cardinality(LegsIn(leg, r))
      BY <1>4, <1>a, DenseNow DEF r, n
    <2>2. Places(leg, r) = 0..(n - 1)
      BY <1>4, <1>a, <2>1, DenseNow
    <2> QED BY <1>a, <1>7, <1>8, <2>1, <2>2
  <1> QED BY <1>a, <1>3, <1>4, <1>5, <1>9, DenseRewritten

\* A committed reorder numbers the legs the call names; they are the route's, unless
\* an edit overtook it.
LEMMA DenseReorder ==
  ASSUME RouteInv, DenseInv, NEW e \in Editors, call[e].pc = "reorder",
         ToSet(call[e].list) \subseteq LegsOf(call[e].route),
         leg' = Reordered(call[e].list),
         call' = [Outdated(call[e].route) EXCEPT ![e] = NoCall],
         clean' = [clean EXCEPT ![call[e].route] = @ /\ ~call[e].outdated]
  PROVE  DenseInv'
  <1> DEFINE r == call[e].route
             list == call[e].list
             at(l) == CHOOSE i \in DOMAIN list : list[i] = l
  <1>a. /\ leg \in [Legs -> [route : Routes \cup {None}, pos : Nat, spot : Spots \cup {None}]]
        /\ r \in Routes /\ list \in Seq(Legs) /\ clean \in [Routes -> BOOLEAN]
    BY DEF RouteInv, TypeOK, Named, Calls
  <1>1. \A d \in Editors : call'[d] = NoCall \/ call'[d] = Outdated(r)[d]
    BY OutdatedFacts
  <1>2. /\ clean'[r] => clean[r] /\ ~call[e].outdated
        /\ \A q \in Routes \ {r} : clean'[q] = clean[q]
    BY <1>a
  <1>3. leg' = [l \in Legs |-> IF l \in ToSet(list)
                               THEN [leg[l] EXCEPT !.pos = at(l) - 1] ELSE leg[l]]
    BY DEF Reordered
  <1>4. clean'[r] => Permutation(r, list)
    BY <1>2 DEF DenseInv, UpToDate
  <1>5. Permutation(r, list) =>
          {at(l) - 1 : l \in LegsOf(r)} = 0..(Cardinality(LegsOf(r)) - 1)
    BY <1>a, PermutationIsDense
  <1> HIDE DEF at, r, list
  <1>6. /\ \A l \in Legs : leg'[l].route = leg[l].route
        /\ \A l \in ToSet(list) : l \in Legs => leg'[l].pos = at(l) - 1
        /\ \A l \in Legs \ ToSet(list) : leg'[l] = leg[l]
    BY <1>a, <1>3
  <1>7. LegsIn(leg', r) = LegsOf(r)
    BY <1>6 DEF LegsIn, LegsOf
  <1>8. \A l \in Legs : leg'[l] # leg[l] => leg[l].route = r /\ leg'[l].route = r
    <2>1. ToSet(list) \subseteq LegsOf(r)
      BY DEF list, r
    <2> QED BY <1>6, <2>1 DEF LegsOf
  <1>9. clean'[r] => Places(leg', r) = 0..(Cardinality(LegsIn(leg', r)) - 1)
    <2> SUFFICES ASSUME clean'[r]
                 PROVE  Places(leg', r) = 0..(Cardinality(LegsIn(leg', r)) - 1)
      OBVIOUS
    <2>1. ToSet(list) = LegsOf(r)
      BY <1>4 DEF Permutation
    <2>2. \A l \in LegsOf(r) : leg'[l].pos = at(l) - 1
      BY <1>6, <2>1 DEF LegsOf
    <2>3. Places(leg', r) = {at(l) - 1 : l \in LegsOf(r)}
      BY <1>7, <2>2 DEF Places
    <2> QED BY <1>4, <1>5, <1>7, <2>3
  <1> QED BY <1>a, <1>1, <1>2, <1>8, <1>9, DenseRewritten

\* What a deletion leaves: the other legs in their order, the rest of the course as it was.
LEMMA DeleteRows ==
  ASSUME RouteInv, NEW l \in Legs, DeleteWaypoint(l)
  PROVE  LET left == LegsOf(leg[l].route) \ {l} IN
         /\ leg[l].route \in Routes /\ leg'[l].route = None
         /\ \A k \in left : /\ leg'[k].route = leg[k].route
                            /\ leg'[k].pos = Position(k, left)
         /\ \A k \in Legs \ {l} : k \notin left => leg'[k] = leg[k]
  <1> DEFINE left == LegsOf(leg[l].route) \ {l}
  <1>1. /\ leg \in [Legs -> [route : Routes \cup {None}, pos : Nat, spot : Spots \cup {None}]]
        /\ leg[l].route \in Routes
    BY DEF RouteInv, TypeOK, DeleteWaypoint, Exists
  <1>2. leg' = [k \in Legs |-> IF k = l THEN NoLeg
                               ELSE IF k \in left
                                    THEN [leg[k] EXCEPT !.pos = Position(k, left)]
                                    ELSE leg[k]]
    BY DEF DeleteWaypoint
  <1>3. left \subseteq Legs /\ l \notin left
    BY DEF LegsOf
  <1> HIDE DEF left
  <1>4. \A k \in left : [leg[k] EXCEPT !.pos = Position(k, left)].route = leg[k].route
                        /\ [leg[k] EXCEPT !.pos = Position(k, left)].pos = Position(k, left)
    BY <1>1, <1>3
  <1>5. /\ leg'[l].route = None
        /\ \A k \in left : /\ leg'[k].route = leg[k].route
                           /\ leg'[k].pos = Position(k, left)
        /\ \A k \in Legs \ {l} : k \notin left => leg'[k] = leg[k]
    BY <1>2, <1>3, <1>4 DEF NoLeg
  <1> QED BY <1>1, <1>5 DEF left

\* A deletion closes the gap, whatever had landed before.
LEMMA DenseDelete ==
  ASSUME RouteInv, DenseInv, NEW l \in Legs, DeleteWaypoint(l)
  PROVE  DenseInv'
  <1> DEFINE r == leg[l].route
             left == LegsOf(r) \ {l}
  <1>1. /\ r \in Routes /\ leg'[l].route = None
        /\ \A k \in left : leg'[k].route = leg[k].route /\ leg'[k].pos = Position(k, left)
        /\ \A k \in Legs \ {l} : k \notin left => leg'[k] = leg[k]
    BY DeleteRows
  <1>2. \A d \in Editors : call'[d] = Outdated(r)[d]
    BY DEF DeleteWaypoint
  <1>3. \A q \in Routes \ {r} : clean'[q] = clean[q]
    BY DEF DeleteWaypoint, RouteInv, TypeOK
  <1>4. left \subseteq Legs /\ \A k \in Legs \ {l} : k \in left <=> leg[k].route = r
    BY DEF LegsOf
  <1>5. {Position(k, left) : k \in left} = 0..(Cardinality(left) - 1)
    <2>1. \A k \in Legs : leg[k].pos \in Nat
      BY DEF RouteInv, TypeOK
    <2> QED BY <1>4, <2>1, PositionIsDense
  <1>6. l \notin left
    OBVIOUS
  <1> HIDE DEF left, r
  <1>7. LegsIn(leg', r) = left
    <2>1. leg'[l].route # r
      BY <1>1, RoutesConstants
    <2>2. \A k \in Legs : k \in left <=> leg'[k].route = r
      BY <1>1, <1>4, <1>6, <2>1
    <2> QED BY <1>4, <2>2 DEF LegsIn
  <1>8. Places(leg', r) = 0..(Cardinality(LegsIn(leg', r)) - 1)
    BY <1>1, <1>5, <1>7 DEF Places
  <1>9. \A k \in Legs : leg'[k] # leg[k] => leg[k].route \in {r, None}
                                            /\ leg'[k].route \in {r, None}
    BY <1>1, <1>4 DEF r
  <1> QED BY <1>1, <1>2, <1>3, <1>8, <1>9, DenseRewritten

\* Every step keeps the clean routes numbered and the calls not overtaken up to date.
LEMMA DenseNext == RouteInv /\ DenseInv /\ [Next]_vars => DenseInv'
  <1> SUFFICES ASSUME RouteInv, DenseInv, [Next]_vars
               PROVE  DenseInv'
    OBVIOUS
  <1>a. /\ call \in [Editors -> Calls]
        /\ leg \in [Legs -> [route : Routes \cup {None}, pos : Nat, spot : Spots \cup {None}]]
    BY DEF RouteInv, TypeOK
  <1>1. ASSUME NEW r \in Routes, NEW n \in Names, CreateRoute(r, n)
        PROVE  DenseInv'
    BY <1>1, DenseKept DEF CreateRoute
  <1>2. ASSUME NEW e \in Editors, NEW r \in Routes, NEW n \in Names \cup {None},
               UpdateRouteStart(e, r, n)
        PROVE  DenseInv'
    BY <1>2, <1>a, DenseKept DEF UpdateRouteStart, NoCall
  <1>3. ASSUME NEW e \in Editors, UpdateRouteRow(e)
        PROVE  DenseInv'
    BY <1>3, <1>a, DenseKept DEF UpdateRouteRow, Finished, NoCall
  <1>4. ASSUME NEW e \in Editors, NEW r \in Routes, NEW spot \in Spots, AddStart(e, r, spot)
        PROVE  DenseInv'
    <2>0. PICK n : n = Cardinality(LegsOf(r))
      OBVIOUS
    <2> DEFINE c == [NoCall EXCEPT !.pc = "create", !.route = r, !.to = spot, !.pos = n]
    <2>1. call' = [call EXCEPT ![e] = c]
      BY <1>4, <2>0 DEF AddStart
    <2>5. c.pc = "create" /\ c.route = r /\ c.pos = n
      BY DEF NoCall
    <2> HIDE DEF c
    <2>2. clean' = clean /\ leg' = leg
      BY <1>4 DEF AddStart
    <2>3. call'[e] = c /\ \A d \in Editors \ {e} : call'[d] = call[d]
      BY <1>a, <2>1
    <2>4. n = Cardinality(LegsIn(leg, r))
      BY <2>0, DenseNow
    <2> QED BY <2>2, <2>3, <2>4, <2>5, DenseKept
  <1>5. ASSUME NEW e \in Editors, AddRow(e)
        PROVE  DenseInv'
    BY <1>5, DenseAdd
  <1>6. ASSUME NEW e \in Editors, NEW l \in Legs, NEW spot \in Spots, UpdateStart(e, l, spot)
        PROVE  DenseInv'
    BY <1>6, <1>a, DenseKept DEF UpdateStart, NoCall
  <1>7. ASSUME NEW e \in Editors, UpdateRow(e)
        PROVE  DenseInv'
    <2>1. call' = [call EXCEPT ![e] = NoCall] /\ clean' = clean
      BY <1>7 DEF UpdateRow, Finished
    <2>2. \A d \in Editors : call'[d] = call[d] \/ call'[d].pc \notin {"create", "reorder"}
      BY <1>a, <2>1 DEF NoCall
    <2>3. \/ leg' = leg
          \/ leg' = [leg EXCEPT ![call[e].id] = [leg[call[e].id] EXCEPT !.spot = call[e].to]]
      BY <1>7, <1>a DEF UpdateRow, Edited
    <2>4. \A l \in Legs : leg'[l].route = leg[l].route /\ leg'[l].pos = leg[l].pos
      BY <1>a, <2>3
    <2> QED BY <2>1, <2>2, <2>4, DenseKept
  <1>8. ASSUME NEW e \in Editors, NEW r \in Routes, ReorderStart(e, r)
        PROVE  DenseInv'
    <2>1. PICK list :
            /\ Permutation(r, list)
            /\ call' = [call EXCEPT ![e] = [NoCall EXCEPT !.pc = "reorder", !.route = r,
                                              !.list = list]]
      BY <1>8 DEF ReorderStart
    <2> DEFINE c == [NoCall EXCEPT !.pc = "reorder", !.route = r, !.list = list]
    <2>2. call' = [call EXCEPT ![e] = c]
      BY <2>1
    <2>6. c.pc = "reorder" /\ c.route = r /\ c.list = list
      BY DEF NoCall
    <2> HIDE DEF c
    <2>3. clean' = clean /\ leg' = leg
      BY <1>8 DEF ReorderStart
    <2>4. call'[e] = c /\ \A d \in Editors \ {e} : call'[d] = call[d]
      BY <1>a, <2>2
    <2>5. Len(list) = Cardinality(LegsIn(leg, r)) /\ ToSet(list) = LegsIn(leg, r)
      BY <2>1, DenseNow DEF Permutation
    <2> QED BY <2>3, <2>4, <2>5, <2>6, DenseKept
  <1>9. ASSUME NEW e \in Editors, ReorderRows(e)
        PROVE  DenseInv'
    <2>1. CASE leg' = leg /\ clean' = clean /\ Finished(e)
      BY <2>1, <1>a, DenseKept DEF Finished, NoCall
    <2> QED BY <1>9, <2>1, DenseReorder DEF ReorderRows
  <1>10. ASSUME NEW e \in Editors, Abort(e)
         PROVE  DenseInv'
    BY <1>10, <1>a, DenseKept DEF Abort, Finished, NoCall
  <1>11. ASSUME NEW l \in Legs, DeleteWaypoint(l)
         PROVE  DenseInv'
    BY <1>11, DenseDelete
  <1>12. CASE UNCHANGED <<leg, call, clean>>
    BY <1>12, DenseKept
  <1>13. ASSUME NEW b \in Bindings, AttachTasks(b[1], b[2])
         PROVE  DenseInv'
    BY <1>12, <1>13 DEF AttachTasks
  <1>14. CASE Driving
    BY <1>12, <1>14 DEF Driving, PingStart, PingClaim, PingWrite
  <1>15. CASE UNCHANGED vars
    BY <1>12, <1>15 DEF vars
  <1> QED
    BY <1>1, <1>2, <1>3, <1>4, <1>5, <1>6, <1>7, <1>8, <1>9, <1>10, <1>11, <1>13, <1>14, <1>15
    DEF Next, Editing

\* The sequence stays 0..n-1 as long as no overtaken add or reorder lands, and a
\* deletion mends it: for any routes of any length and any organizers.
THEOREM SequenceIsDense == Spec => []DenseUnlessOutdated
  <1>1. DenseInv => DenseUnlessOutdated
    BY DEF DenseInv
  <1> QED BY <1>1, RouteInit, RouteNext, DenseInit, DenseNext, PTL DEF Spec

-----------------------------------------------------------------------------
(* The order of the legs *)

\* A step changes which of two stored legs comes first only where a reorder commits.
LEMMA OrderStep ==
  ASSUME RouteInv, [Next]_vars, NEW k \in Legs, NEW l \in Legs,
         Exists(k), Exists(l), Exists(k)', Exists(l)',
         leg[k].route = leg[l].route, leg[k].pos < leg[l].pos, leg'[k].pos >= leg'[l].pos
  PROVE  \E e \in Editors : call[e].pc = "reorder" /\ call'[e].pc = "idle"
  <1>a. /\ call \in [Editors -> Calls]
        /\ leg \in [Legs -> [route : Routes \cup {None}, pos : Nat, spot : Spots \cup {None}]]
    BY DEF RouteInv, TypeOK
  <1>1. CASE leg'[k].pos = leg[k].pos /\ leg'[l].pos = leg[l].pos
    BY <1>1, <1>a
  <1>2. ASSUME NEW e \in Editors, AddRow(e)
        PROVE  leg'[k].pos = leg[k].pos /\ leg'[l].pos = leg[l].pos
    BY <1>2 DEF AddRow, Fresh
  <1>3. ASSUME NEW e \in Editors, UpdateRow(e)
        PROVE  leg'[k].pos = leg[k].pos /\ leg'[l].pos = leg[l].pos
    <2>1. \/ leg' = leg
          \/ leg' = [leg EXCEPT ![call[e].id] = [leg[call[e].id] EXCEPT !.spot = call[e].to]]
      BY <1>3, <1>a DEF UpdateRow, Edited
    <2> QED BY <1>a, <2>1
  <1>4. ASSUME NEW e \in Editors, ReorderRows(e)
        PROVE  leg' = leg \/ (call[e].pc = "reorder" /\ call'[e].pc = "idle")
    <2>1. CASE call' = [Outdated(call[e].route) EXCEPT ![e] = NoCall]
      <3>1. call'[e] = NoCall
        BY <2>1 DEF Outdated
      <3> QED BY <1>4, <3>1 DEF ReorderRows, NoCall
    <2>2. CASE leg' = leg
      BY <2>2
    <2>3. call[e].pc = "reorder"
      BY <1>4 DEF ReorderRows
    <2> QED BY <1>4, <2>1, <2>2 DEF ReorderRows
  <1>5. ASSUME NEW m \in Legs, DeleteWaypoint(m)
        PROVE  FALSE
    <2> DEFINE left == LegsOf(leg[m].route) \ {m}
    <2>1. /\ leg'[m].route = None
          /\ \A j \in left : leg'[j].pos = Position(j, left)
          /\ \A j \in Legs \ {m} : j \notin left => leg'[j] = leg[j]
      BY <1>5, DeleteRows
    <2>2. k # m /\ l # m
      BY <2>1 DEF Exists
    <2>3. k \in left <=> l \in left
      BY <2>2 DEF LegsOf
    <2>4. CASE k \in left
      <3>1. Before(k, l)
        BY DEF Before
      <3>2. left \in SUBSET Legs /\ \A j \in Legs : leg[j].pos \in Nat
        BY <1>a DEF LegsOf
      <3> HIDE DEF left
      <3>3. Position(k, left) \in Nat /\ Position(l, left) \in Nat
        BY <2>3, <2>4, <3>2, PositionIsDense
      <3>4. Position(k, left) < Position(l, left)
        BY <2>3, <2>4, <3>1, <3>2, PositionIsDense
      <3> QED BY <2>1, <2>3, <2>4, <3>3, <3>4
    <2>5. CASE k \notin left
      BY <1>a, <2>1, <2>2, <2>3, <2>5
    <2> QED BY <2>4, <2>5
  <1>6. CASE leg' = leg
    BY <1>1, <1>6
  <1>7. ASSUME NEW e \in Editors, Editing(e)
        PROVE  \/ leg'[k].pos = leg[k].pos /\ leg'[l].pos = leg[l].pos
               \/ call[e].pc = "reorder" /\ call'[e].pc = "idle"
    BY <1>2, <1>3, <1>4, <1>7
    DEF Editing, UpdateRouteStart, UpdateRouteRow, AddStart, UpdateStart, ReorderStart, Abort
  <1>8. CASE \E r \in Routes, n \in Names : CreateRoute(r, n)
    BY <1>6, <1>8 DEF CreateRoute
  <1>9. CASE \E b \in Bindings : AttachTasks(b[1], b[2])
    BY <1>6, <1>9 DEF AttachTasks
  <1>10. CASE Driving
    BY <1>6, <1>10 DEF Driving, PingStart, PingClaim, PingWrite
  <1>11. CASE UNCHANGED vars
    BY <1>6, <1>11 DEF vars
  <1> QED BY <1>1, <1>5, <1>7, <1>8, <1>9, <1>10, <1>11 DEF Next

\* Neither closing a gap nor an edit that had read an older position moves a leg past
\* another: only a committed reorder does.
THEOREM LegsKeepOrder == Spec => LegsKeepTheirOrder
  <1>1. RouteInv /\ [Next]_vars =>
          [(\E k, l \in Legs :
              /\ Exists(k) /\ Exists(l) /\ Exists(k)' /\ Exists(l)'
              /\ leg[k].route = leg[l].route
              /\ leg[k].pos < leg[l].pos
              /\ leg'[k].pos >= leg'[l].pos)
           => \E e \in Editors : call[e].pc = "reorder" /\ call'[e].pc = "idle"]_vars
    BY OrderStep
  <1> QED BY <1>1, RouteInit, RouteNext, PTL DEF Spec, LegsKeepTheirOrder

=============================================================================
