----------------------- MODULE RallyScoreboard_proofs -----------------------
(***************************************************************************)
(* Theorems of RallyScoreboard, for any runs and any library of tasks.     *)
(***************************************************************************)
EXTENDS RallyScoreboard, FiniteSetTheorems, WellFoundedInduction, TLAPS

-----------------------------------------------------------------------------
(* Points *)

\* A set of naturals that has a member has a least one.
LEMMA LeastNumber ==
  ASSUME NEW S \in SUBSET Nat, S # {}
  PROVE  \E n \in S : \A k \in S : n <= k
  <1>1. PICK n \in S : \A k \in S : ~(<<k, n>> \in OpToRel(<, Nat))
    BY NatLessThanWellFounded, WFMin, Zenon
  <1>2. \A k \in S : ~(k < n)
    BY <1>1 DEF OpToRel
  <1> QED BY <1>2

\* Multiplying keeps the order.
LEMMA ProductsInOrder ==
  /\ \A m, a, b \in Int : m > 0 /\ a < b => m * a < m * b
  /\ \A m, a, b \in Int : m > 0 /\ a < b => a * m <= b * m - m
  OBVIOUS

\* The points of a part lie between nothing and all of them.
LEMMA ScaleBounds ==
  ASSUME NEW m \in Nat, NEW num \in Int, NEW den \in Int, NEW k \in Scale(m, num, den)
  PROVE  k \in 0..m
  BY DEF Scale, Nearest

\* A larger part never earns less, however halves are rounded.
LEMMA ScaleGrows ==
  ASSUME NEW m \in Nat, NEW den \in Nat \ {0}, NEW a \in Int, NEW b \in Int, a < b,
         NEW j \in Scale(m, a, den), NEW k \in Scale(m, b, den)
  PROVE  j <= k
  <1>1. j \in 0..m /\ k \in 0..m
    BY ScaleBounds
  <1>2. CASE a <= 0 \/ b > den \/ m = 0
    BY <1>1, <1>2 DEF Scale
  <1>3. CASE a > 0 /\ b <= den /\ m > 0
    <2>1. 2 * Distance(j * den, m * a) <= den /\ 2 * Distance(k * den, m * b) <= den
      BY <1>3 DEF Scale, Nearest
    <2>2. PICK J \in Int, K \in Int, A \in Int, B \in Int :
            J = j * den /\ K = k * den /\ A = m * a /\ B = m * b
      BY <1>1
    <2>3. A < B
      BY <1>3, <2>2, ProductsInOrder
    <2>4. 2 * J <= 2 * A + den /\ 2 * B <= 2 * K + den
      BY <2>1, <2>2 DEF Distance
    <2>5. k < j => K <= J - den
      BY <1>1, <2>2, ProductsInOrder
    <2> QED BY <1>1, <2>3, <2>4, <2>5
  <1> QED BY <1>2, <1>3

\* What SUM(awarded_points) adds up is a number: a recursive sum over the subsets of
\* the answered tasks exists, since it does up to any size, and has numbers only.
LEMMA TotalIsNumber ==
  ASSUME NEW answers, \A t \in Tasks : answers[t] # None => answers[t].result.points \in Int
  PROVE  TotalOf(answers) \in Int
  <1>a. PICK S : S = {t \in Tasks : answers[t] # None}
    OBVIOUS
  <1>b. IsFiniteSet(S) /\ \A t \in S : answers[t].result.points \in Int
    BY <1>a, ScoreboardConstants, FS_Subset
  <1> DEFINE first(T) == CHOOSE x \in T : TRUE
             next(g, T) == IF T = {} THEN 0
                           ELSE g[T \ {first(T)}] + answers[first(T)].result.points
             upTo(g, n) == \A T \in SUBSET S : Cardinality(T) <= n => g[T] = next(g, T)
             sum == CHOOSE g : g = [T \in SUBSET S |-> next(g, T)]
  <1>1. \A T \in SUBSET S :
          IsFiniteSet(T) /\ Cardinality(T) \in Nat /\ (T = {} <=> Cardinality(T) = 0)
    BY <1>b, FS_Subset, FS_CardinalityType, FS_EmptySet
  <1>2. ASSUME NEW T \in SUBSET S, T # {}
        PROVE  /\ first(T) \in S /\ T \ {first(T)} \in SUBSET S
               /\ Cardinality(T \ {first(T)}) = Cardinality(T) - 1
    <2>1. first(T) \in T
      BY <1>2
    <2> HIDE DEF first
    <2> QED BY <1>1, <2>1, FS_RemoveElement
  <1> HIDE DEF first
  <1>3. \A n \in Nat : \E g \in [SUBSET S -> Int] : upTo(g, n)
    <2> DEFINE missing == {n \in Nat : ~\E g \in [SUBSET S -> Int] : upTo(g, n)}
    <2> SUFFICES ASSUME missing # {}
                 PROVE  FALSE
      OBVIOUS
    <2>1. PICK n \in missing : \A k \in missing : n <= k
      <3>1. missing \in SUBSET Nat
        OBVIOUS
      <3> HIDE DEF missing
      <3> QED BY <3>1, LeastNumber
    <2>2. CASE n = 0
      <3> DEFINE g == [T \in SUBSET S |-> 0]
      <3>1. g \in [SUBSET S -> Int] /\ upTo(g, 0)
        BY <1>1
      <3> HIDE DEF g
      <3>2. \E h \in [SUBSET S -> Int] : upTo(h, 0)
        BY <3>1
      <3> HIDE DEF upTo
      <3> QED BY <2>1, <2>2, <3>2
    <2>3. CASE n # 0
      <3>1. n \in Nat /\ n - 1 \in Nat /\ n - 1 \notin missing
        <4>1. n \in Nat
          BY <2>1
        <4> HIDE DEF missing
        <4> QED BY <2>1, <2>3, <4>1
      <3>2. PICK g \in [SUBSET S -> Int] : upTo(g, n - 1)
        BY <3>1
      <3> DEFINE h == [T \in SUBSET S |-> IF Cardinality(T) = n THEN next(g, T) ELSE g[T]]
      <3>3. ASSUME NEW T \in SUBSET S
            PROVE  next(g, T) \in Int
        <4>1. CASE T = {}
          BY <4>1
        <4>2. CASE T # {}
          <5>1. g[T \ {first(T)}] \in Int /\ answers[first(T)].result.points \in Int
            BY <1>b, <1>2, <3>2, <4>2
          <5> QED BY <4>2, <5>1
        <4> QED BY <4>1, <4>2
      <3>4. h \in [SUBSET S -> Int]
        BY <3>2, <3>3
      <3>5. ASSUME NEW T \in SUBSET S, Cardinality(T) <= n
            PROVE  h[T] = next(h, T)
        <4>1. next(h, T) = next(g, T)
          <5>1. CASE T = {}
            BY <5>1
          <5>2. CASE T # {}
            <6>1. /\ T \ {first(T)} \in SUBSET S
                  /\ Cardinality(T \ {first(T)}) # n
              BY <1>1, <1>2, <3>1, <3>5, <5>2
            <6>2. h[T \ {first(T)}] = g[T \ {first(T)}]
              BY <6>1
            <6> QED BY <5>2, <6>2
          <5> QED BY <5>1, <5>2
        <4>2. Cardinality(T) # n => Cardinality(T) <= n - 1
          BY <1>1, <3>1, <3>5
        <4>3. Cardinality(T) # n => g[T] = next(g, T)
          BY <3>2, <4>2
        <4> QED BY <4>1, <4>3
      <3> HIDE DEF h, next
      <3> QED BY <2>1, <3>4, <3>5
    <2> QED BY <2>2, <2>3
  <1>4. PICK g \in [SUBSET S -> Int] : upTo(g, Cardinality(S))
    <2>1. Cardinality(S) \in Nat
      BY <1>1
    <2> HIDE DEF upTo
    <2> QED BY <1>3, <2>1
  <1>5. \A T \in SUBSET S : Cardinality(T) <= Cardinality(S)
    BY <1>b, FS_Subset
  <1>6. g = [T \in SUBSET S |-> next(g, T)]
    BY <1>4, <1>5
  <1>7. sum = [T \in SUBSET S |-> next(sum, T)]
    <2> HIDE DEF next
    <2> QED BY <1>6
  <1>8. \A T \in SUBSET S : sum[T] = next(sum, T)
    BY <1>7
  <1> HIDE DEF sum
  <1>9. \A T \in SUBSET S : sum[T] \in Int
    <2> DEFINE odd == {Cardinality(T) : T \in {U \in SUBSET S : sum[U] \notin Int}}
    <2> SUFFICES ASSUME odd # {}
                 PROVE  FALSE
      OBVIOUS
    <2>1. odd \in SUBSET Nat
      BY <1>1
    <2>2. PICK n \in odd : \A k \in odd : n <= k
      <3> HIDE DEF odd
      <3> QED BY <2>1, LeastNumber
    <2>3. PICK T \in SUBSET S : sum[T] \notin Int /\ n = Cardinality(T)
      BY <2>2
    <2>4. T # {}
      <3>1. T = {} => sum[T] = 0
        BY <1>8
      <3> QED BY <2>3, <3>1
    <2>5. sum[T \ {first(T)}] \notin Int
      <3>1. sum[T] = sum[T \ {first(T)}] + answers[first(T)].result.points
        BY <1>8, <2>4
      <3>2. answers[first(T)].result.points \in Int
        BY <1>b, <1>2, <2>4
      <3> QED BY <2>3, <3>1, <3>2
    <2>6. Cardinality(T) - 1 \in odd
      BY <1>2, <2>4, <2>5
    <2> QED BY <1>1, <2>2, <2>3, <2>6
  <1>10. TotalOf(answers) = sum[S]
    BY <1>a DEF TotalOf, FoldSet, MapThenFoldSet, sum, first
  <1> QED BY <1>9, <1>10

-----------------------------------------------------------------------------
(* The engine *)

\* How many cells are right is a number, the more of them the larger.
LEMMA CellCount ==
  ASSUME NEW solution, solution \in Seq(ToSet(solution)), NEW p, NEW q
  PROVE  /\ Cardinality(CorrectCells(solution, p)) \in 0..Len(solution)
         /\ CorrectCells(solution, q) \subseteq CorrectCells(solution, p) =>
              Cardinality(CorrectCells(solution, q)) <= Cardinality(CorrectCells(solution, p))
  <1>1. Len(solution) \in Nat /\ DOMAIN solution = 1..Len(solution)
    OBVIOUS
  <1>2. IsFiniteSet(1..Len(solution)) /\ Cardinality(1..Len(solution)) = Len(solution)
    BY <1>1, FS_Interval
  <1>3. \A x : CorrectCells(solution, x) \in SUBSET (1..Len(solution))
    BY <1>1 DEF CorrectCells
  <1>4. \A x : /\ IsFiniteSet(CorrectCells(solution, x))
              /\ Cardinality(CorrectCells(solution, x)) \in Nat
              /\ Cardinality(CorrectCells(solution, x)) <= Len(solution)
    BY <1>2, <1>3, FS_Subset, FS_CardinalityType
  <1> QED BY <1>1, <1>4, FS_Subset

\* Whatever is sent, a task pays no more than its points and, but for a branch, costs
\* none.
LEMMA AwardBounds ==
  ASSUME NEW d \in Definitions, Valid(d), IsConfig(d.config), NEW p, IsPayload(p),
         NEW r \in Validate(d.type, d.config, p, d.points)
  PROVE  /\ r \in [correct : BOOLEAN, points : Int]
         /\ d.type # "BRANCH" => r.points \in 0..d.points
  <1>1. d.type # "BRANCH" => d.points \in Nat
    BY DEF Valid, Definitions
  <1>2. ASSUME NEW correct \in BOOLEAN, d.points \in Nat, r \in Awarded(correct, d.points)
        PROVE  r \in [correct : BOOLEAN, points : Int] /\ r.points \in 0..d.points
    BY <1>2 DEF Awarded, Result
  <1>3. ASSUME NEW num \in Int, NEW den \in Int, d.points \in Nat,
               r \in Measured(Scale(d.points, num, den))
        PROVE  r \in [correct : BOOLEAN, points : Int] /\ r.points \in 0..d.points
    <2>1. PICK k \in Scale(d.points, num, den) : r = Result(k > 0, k)
      BY <1>3 DEF Measured
    <2>2. k \in 0..d.points
      BY <1>3, ScaleBounds
    <2> QED BY <2>1, <2>2 DEF Result
  <1>4. CASE d.type = "BRANCH"
    <2>1. d.config.solvePoints \in Int /\ d.config.skipPoints \in Int
      BY DEF IsConfig
    <2>2. r \in Branch(d.config, p)
      BY <1>4 DEF Validate
    <2>3. r = Result(TRUE, d.config.solvePoints) \/ r = Result(TRUE, d.config.skipPoints)
      BY <2>2 DEF Branch
    <2>4. PICK k \in Int : r = Result(TRUE, k)
      BY <2>1, <2>3
    <2> QED BY <1>4, <2>4 DEF Result
  <1>5. CASE d.type = "GRID_FILL"
    <2>1. PICK k \in Rounded(d.points, Cardinality(CorrectCells(d.config.solution, p.answers)),
                             Len(d.config.solution)) :
            \E right \in BOOLEAN : r = Result(right, k)
      BY <1>5 DEF Validate, GridFill
    <2>2. Cardinality(CorrectCells(d.config.solution, p.answers)) \in Int
      BY CellCount DEF IsConfig
    <2>3. Len(d.config.solution) \in Int
      BY DEF IsConfig
    <2>4. k \in 0..d.points
      BY <1>1, <1>5, <2>2, <2>3, ScaleBounds DEF Rounded
    <2> QED BY <2>1, <2>4 DEF Result
  <1>6. CASE d.type = "TELEMATICS"
    <2>1. 20 - p.hardStops - p.sharpTurns \in Int
      BY DEF IsPayload
    <2> QED BY <1>1, <1>3, <1>6, <2>1 DEF Validate, Telematics
  <1>7. CASE d.type = "BLIND_TIMER"
    <2>1. d.config.targetSec \in Int /\ p.elapsedSec \in Int
      BY DEF IsPayload, IsConfig
    <2>2. d.config.targetSec - Distance(p.elapsedSec, d.config.targetSec) \in Int
      BY <2>1 DEF Distance
    <2> QED BY <1>1, <1>3, <1>7, <2>1, <2>2 DEF Validate, BlindTimer
  <1>8. CASE d.type = "REST_LOCK"
    BY <1>1, <1>8 DEF Validate, RestLock, Result, IsPayload
  <1>9. CASE d.type \in {"INPUT_SELECT", "INPUT_NUMBER", "MULTI_SELECT", "SCAN_BARCODE",
                         "GEOFENCE_CROSS", "PROXIMITY", "TIMED_TRIVIA", "GATE_MATCH"}
    <2> DEFINE good == r \in [correct : BOOLEAN, points : Int] /\ r.points \in 0..d.points
    <2>1. d.points \in Nat
      BY <1>1, <1>9
    <2>2. ASSUME NEW correct \in BOOLEAN, r \in Awarded(correct, d.points)
          PROVE  good
      BY <1>2, <2>1, <2>2
    <2> SUFFICES good
      OBVIOUS
    <2> HIDE DEF good
    <2>3. CASE d.type = "INPUT_SELECT"
      <3>1. r \in Awarded(SameAnswer(d.config.answer, p.answer), d.points)
        BY <2>3 DEF Validate, ExactAnswer
      <3>2. SameAnswer(d.config.answer, p.answer) \in BOOLEAN
        BY DEF SameAnswer
      <3> QED BY <2>2, <3>1, <3>2
    <2>4. CASE d.type = "INPUT_NUMBER"
      <3> DEFINE close == Distance(d.config.answer.value, p.answer.value)
                            <= Distance(d.config.tolerance, 0)
      <3>1. r \in Awarded(close, d.points)
        BY <2>4 DEF Validate, NumericAnswer
      <3>2. close \in BOOLEAN
        OBVIOUS
      <3> HIDE DEF close
      <3> QED BY <2>2, <3>1, <3>2
    <2>5. CASE d.type = "MULTI_SELECT"
      <3> DEFINE same == NormalisedSet(d.config.answers) = NormalisedSet(p.answers)
      <3>1. r \in Awarded(same, d.points)
        BY <2>5 DEF Validate, MultiSelect
      <3> QED BY <2>2, <3>1
    <2>6. CASE d.type = "SCAN_BARCODE"
      <3>1. r \in Awarded(d.config.payload = p.payload, d.points)
        BY <2>6 DEF Validate, Barcode
      <3> QED BY <2>2, <3>1
    <2>7. CASE d.type \in {"GEOFENCE_CROSS", "PROXIMITY"}
      <3>1. r \in Awarded(p.reached, d.points)
        BY <2>7 DEF Validate, Reached
      <3>2. p.reached \in BOOLEAN
        BY DEF IsPayload
      <3> QED BY <2>2, <3>1, <3>2
    <2>8. CASE d.type = "TIMED_TRIVIA"
      <3> DEFINE correct == /\ p.elapsedSec <= d.config.limitSec
                            /\ SameAnswer(d.config.answer, p.answer)
      <3>1. r \in Awarded(correct, d.points)
        BY <2>8 DEF Validate, TimedTrivia
      <3> QED BY <2>2, <3>1
    <2>9. CASE d.type = "GATE_MATCH"
      <3>1. r \in Awarded(d.config.solution = p.answers, d.points)
        BY <2>9 DEF Validate, GateMatch
      <3> QED BY <2>2, <3>1
    <2> QED BY <1>9, <2>3, <2>4, <2>5, <2>6, <2>7, <2>8, <2>9
  <1>10. d.type \in Types
    BY DEF Definitions
  <1> QED BY <1>4, <1>5, <1>6, <1>7, <1>8, <1>9, <1>10 DEF Types

\* Of two answers to the same task the nearer one never earns less.
LEMMA NearerEarnsMore ==
  ASSUME NEW d \in Definitions, Valid(d), IsConfig(d.config),
         NEW p, IsPayload(p), NEW q, IsPayload(q), Nearer(d, p, q),
         NEW r \in Validate(d.type, d.config, p, d.points),
         NEW o \in Validate(d.type, d.config, q, d.points)
  PROVE  r.points >= o.points
  <1>1. d.type # "BRANCH" /\ d.points \in Nat
    BY DEF Nearer, Valid, Definitions
  <1>2. r.points \in 0..d.points /\ o.points \in 0..d.points
    BY <1>1, AwardBounds
  <1>3. CASE /\ d.type = "TELEMATICS"
             /\ p.hardStops + p.sharpTurns < q.hardStops + q.sharpTurns
    <2> DEFINE a == 20 - q.hardStops - q.sharpTurns
               b == 20 - p.hardStops - p.sharpTurns
    <2>1. a \in Int /\ b \in Int /\ a < b
      <3>1. /\ p.hardStops \in Int /\ p.sharpTurns \in Int
            /\ q.hardStops \in Int /\ q.sharpTurns \in Int
        BY DEF IsPayload
      <3>2. p.hardStops + p.sharpTurns < q.hardStops + q.sharpTurns
        BY <1>3
      <3> QED BY <3>1, <3>2
    <2>2. /\ r.points \in Scale(d.points, b, 20)
          /\ o.points \in Scale(d.points, a, 20)
      BY <1>3 DEF Validate, Telematics, Measured, Result
    <2> HIDE DEF a, b
    <2>3. o.points <= r.points
      BY <1>1, <2>1, <2>2, ScaleGrows
    <2> QED BY <1>2, <2>3
  <1>4. CASE /\ d.type = "BLIND_TIMER"
             /\ Distance(p.elapsedSec, d.config.targetSec)
                  < Distance(q.elapsedSec, d.config.targetSec)
    <2> DEFINE t == d.config.targetSec
               a == t - Distance(q.elapsedSec, t)
               b == t - Distance(p.elapsedSec, t)
    <2>1. t \in Int /\ p.elapsedSec \in Int /\ q.elapsedSec \in Int
      BY DEF IsPayload, IsConfig
    <2>2. a \in Int /\ b \in Int /\ a < b
      BY <1>4, <2>1 DEF Distance
    <2>3. /\ t > 0
          /\ r.points \in Scale(d.points, b, t)
          /\ o.points \in Scale(d.points, a, t)
      BY <1>4, <2>1 DEF Validate, BlindTimer, Measured, Result
    <2> HIDE DEF t, a, b
    <2>4. o.points <= r.points
      BY <1>1, <2>1, <2>2, <2>3, ScaleGrows
    <2> QED BY <1>2, <2>4
  <1>5. CASE /\ d.type = "GRID_FILL"
             /\ CorrectCells(d.config.solution, q.answers)
                  \subseteq CorrectCells(d.config.solution, p.answers)
    <2> DEFINE n == Len(d.config.solution)
               a == Cardinality(CorrectCells(d.config.solution, q.answers))
               b == Cardinality(CorrectCells(d.config.solution, p.answers))
    <2>1. n \in Nat /\ a \in Nat /\ b \in Nat /\ a <= b /\ b <= n
      BY <1>5, CellCount DEF IsConfig
    <2>2. /\ n # 0
          /\ r.points \in Rounded(d.points, b, n)
          /\ o.points \in Rounded(d.points, a, n)
      BY <1>5 DEF Validate, GridFill, Result
    <2> HIDE DEF n, a, b
    <2>3. CASE a < b
      BY <1>1, <1>2, <2>1, <2>2, <2>3, ScaleGrows DEF Rounded
    <2>4. CASE a = b
      BY <1>2, <2>2, <2>4 DEF Rounded
    <2> QED BY <2>1, <2>3, <2>4
  <1>6. CASE d.type = "TIMED_TRIVIA" /\ p.answer = q.answer /\ p.elapsedSec < q.elapsedSec
    <2>1. d.config.limitSec \in Int /\ p.elapsedSec \in Int /\ q.elapsedSec \in Int
      BY DEF IsPayload, IsConfig
    <2>2. q.elapsedSec <= d.config.limitSec => p.elapsedSec <= d.config.limitSec
      BY <1>6, <2>1
    <2> QED BY <1>1, <1>2, <1>6, <2>2 DEF Validate, TimedTrivia, Awarded, Result
  <1>7. CASE /\ d.type = "INPUT_NUMBER"
             /\ Distance(p.answer.value, d.config.answer.value)
                  < Distance(q.answer.value, d.config.answer.value)
    <2> DEFINE far == Distance(q.answer.value, d.config.answer.value)
               near == Distance(p.answer.value, d.config.answer.value)
               slack == Distance(d.config.tolerance, 0)
    <2>1. /\ d.config.answer.kind = "number" /\ p.answer.kind = "number"
          /\ q.answer.kind = "number"
          /\ r \in Awarded(near <= slack, d.points)
          /\ o \in Awarded(far <= slack, d.points)
      <3>1. /\ r \in NumericAnswer(d.config, p, d.points)
            /\ o \in NumericAnswer(d.config, q, d.points)
        BY <1>7 DEF Validate
      <3>2. /\ d.config.answer.kind = "number" /\ p.answer.kind = "number"
            /\ q.answer.kind = "number"
        BY <3>1 DEF NumericAnswer
      <3>3. /\ p.answer.value \in Int /\ q.answer.value \in Int
            /\ d.config.answer.value \in Int
        BY <3>2 DEF IsPayload, IsConfig, IsAnswer
      <3>4. /\ Distance(d.config.answer.value, p.answer.value) = near
            /\ Distance(d.config.answer.value, q.answer.value) = far
        BY <3>3 DEF Distance
      <3> QED BY <3>1, <3>2, <3>4 DEF NumericAnswer
    <2>2. near \in Int /\ far \in Int /\ slack \in Int /\ near < far
      <3>1. /\ p.answer.value \in Int /\ q.answer.value \in Int
            /\ d.config.answer.value \in Int /\ d.config.tolerance \in Int
        BY <2>1 DEF IsPayload, IsConfig, IsAnswer
      <3> QED BY <1>7, <3>1 DEF Distance
    <2>3. far <= slack => near <= slack
      BY <2>2
    <2> HIDE DEF near, far, slack
    <2> QED BY <1>1, <1>2, <2>1, <2>3 DEF Awarded, Result
  <1> QED BY <1>3, <1>4, <1>5, <1>6, <1>7 DEF Nearer

-----------------------------------------------------------------------------
(* The inductive invariant *)

\* What somebody may author, and what a stored task becomes by a patch, is a row of
\* the task table when validate accepts it.
LEMMA AuthoredFacts ==
  /\ \A t \in Tasks : \A d \in Drafts[t] : Valid(d) => d \in Definitions
  /\ \A d \in Definitions, y \in Types : \A p \in Patches[y] :
       Valid(Patched(d, p)) => Patched(d, p) \in Definitions
  <1>1. ASSUME NEW t \in Tasks, NEW d \in Drafts[t], Valid(d)
        PROVE  d \in Definitions
    <2>1. d = Definition(d.type, d.points, d.config) /\ d.points \in Int
      BY ScoreboardConstants
    <2>2. d.config \in Configs
      <3>1. d \in UNION {Drafts[u] : u \in Tasks}
        OBVIOUS
      <3> QED BY <3>1 DEF Configs
    <2>3. d.type \in Types
      BY <1>1 DEF Valid
    <2> QED BY <2>1, <2>2, <2>3 DEF Definition, Definitions
  <1>2. ASSUME NEW d \in Definitions, NEW y \in Types, NEW p \in Patches[y],
               Valid(Patched(d, p))
        PROVE  Patched(d, p) \in Definitions
    <2>1. p.points \in Int \cup {None}
      BY ScoreboardConstants
    <2>2. p.config # None => p.config \in Configs
      <3>1. p \in UNION {Patches[z] : z \in Types}
        OBVIOUS
      <3> QED BY <3>1 DEF Configs
    <2>3. d.points \in Int /\ d.config \in Configs
      BY DEF Definitions
    <2>4. Patched(d, p).type \in Types
      BY <1>2 DEF Valid
    <2> QED BY <2>1, <2>2, <2>3, <2>4 DEF Patched, Definition, Definitions
  <1> QED BY <1>1, <1>2

\* Configurations and payloads are what the decoder lets through.
LEMMA DecodedFacts ==
  /\ \A d \in Definitions : IsConfig(d.config)
  /\ \A y \in Types : \A p \in Attempts[y] : IsPayload(p) /\ p \in Payloads
  BY ScoreboardConstants DEF Definitions, Payloads

\* At first nothing is stored and nothing is under way.
LEMMA ScoreInit == Init => ScoreInv
  <1> SUFFICES ASSUME Init
               PROVE  ScoreInv
    OBVIOUS
  <1>1. MaxTime \in Nat /\ None \notin 0..MaxTime
    BY ScoreboardConstants
  <1>2. TypeOK
    BY <1>1 DEF Init, TypeOK, NoEdit, NoCall, Rows
  <1> QED BY <1>2 DEF Init, ScoreInv, NoEdit, NoCall

\* Each handler keeps the invariant.
LEMMA ScoreNext == ScoreInv /\ [Next]_vars => ScoreInv'
  <1> SUFFICES ASSUME ScoreInv, [Next]_vars
               PROVE  ScoreInv'
    OBVIOUS
  <1> USE DEF ScoreInv
  <1>c. MaxTime \in Nat /\ None \notin 0..MaxTime
    BY ScoreboardConstants
  <1>1. ASSUME NEW t \in Tasks, NEW d \in Drafts[t], Create(t, d)
        PROVE  ScoreInv'
    <2>1. d \in Definitions /\ Valid(d)
      BY <1>1, AuthoredFacts DEF Create
    <2>2. TypeOK'
      BY <1>1, <2>1 DEF Create, TypeOK
    <2>3. \A u \in Tasks : task'[u] # None => Valid(task'[u])
      BY <1>1, <2>1 DEF Create, TypeOK
    <2> QED BY <1>1, <2>2, <2>3 DEF Create, Earned
  <1>2. ASSUME NEW a \in Authors, NEW t \in Tasks, task[t] # None,
               NEW p \in Patches[task[t].type], UpdateStart(a, t, p)
        PROVE  ScoreInv'
    <2>1. PICK d \in Definitions : d = task[t]
      BY <1>2 DEF TypeOK
    <2>2. Patched(d, p) \in Definitions /\ Valid(Patched(d, p))
      <3>1. d.type \in Types
        BY DEF Definitions
      <3> QED BY <1>2, <2>1, <3>1, AuthoredFacts DEF UpdateStart
    <2>3. PICK e : e = [pc |-> "write", task |-> t, becomes |-> Patched(d, p)]
      OBVIOUS
    <2>4. edit' = [edit EXCEPT ![a] = e]
      BY <1>2, <2>1, <2>3 DEF UpdateStart
    <2>5. TypeOK'
      BY <1>2, <2>2, <2>3, <2>4 DEF UpdateStart, TypeOK
    <2>6. \A b \in Authors : edit'[b].pc = "write" =>
            edit'[b].task \in Tasks /\ edit'[b].becomes \in Definitions
            /\ Valid(edit'[b].becomes)
      BY <2>2, <2>3, <2>4 DEF TypeOK
    <2> QED BY <1>2, <2>5, <2>6 DEF UpdateStart, Earned
  <1>3. ASSUME NEW a \in Authors, UpdateWrite(a)
        PROVE  ScoreInv'
    <2>1. /\ edit[a].task \in Tasks /\ edit[a].becomes \in Definitions
          /\ Valid(edit[a].becomes)
      BY <1>3 DEF UpdateWrite
    <2>2. TypeOK'
      BY <1>3, <2>1 DEF UpdateWrite, TypeOK, NoEdit
    <2>3. \A u \in Tasks : task'[u] # None => Valid(task'[u])
      BY <1>3, <2>1 DEF UpdateWrite, TypeOK
    <2>4. \A b \in Authors : edit'[b].pc = "write" =>
            edit'[b].task \in Tasks /\ edit'[b].becomes \in Definitions
            /\ Valid(edit'[b].becomes)
      BY <1>3 DEF UpdateWrite, TypeOK, NoEdit
    <2> QED BY <1>3, <2>2, <2>3, <2>4 DEF UpdateWrite, Earned
  <1>4. ASSUME NEW k \in Calls, NEW s \in Sessions, NEW t \in Tasks, task[t] # None,
               NEW p \in Attempts[task[t].type], Submit(k, s, t, p)
        PROVE  ScoreInv'
    <2>1. PICK d \in Definitions : d = task[t]
      BY <1>4 DEF TypeOK
    <2>2. PICK r \in Validate(d.type, d.config, p, d.points) :
            call' = [call EXCEPT ![k] =
              [NoCall EXCEPT !.pc = "save", !.sid = s, !.task = t,
                             !.answer = [graded |-> d, payload |-> p, result |-> r]]]
      BY <1>4, <2>1 DEF Submit
    <2>3. Valid(d) /\ IsConfig(d.config) /\ IsPayload(p) /\ p \in Payloads
      <3>1. d.type \in Types
        BY DEF Definitions
      <3> QED BY <1>4, <2>1, <3>1, DecodedFacts
    <2>4. r \in [correct : BOOLEAN, points : Int]
      BY <2>3, AwardBounds
    <2>5. PICK answer \in Answers : answer = [graded |-> d, payload |-> p, result |-> r]
      BY <2>3, <2>4 DEF Answers
    <2>6. Earned(answer)
      BY <2>2, <2>3, <2>5 DEF Earned
    <2>7. PICK c : c = [NoCall EXCEPT !.pc = "save", !.sid = s, !.task = t, !.answer = answer]
      OBVIOUS
    <2>8. call' = [call EXCEPT ![k] = c]
      BY <2>2, <2>5, <2>7
    <2>9. TypeOK'
      BY <1>4, <2>7, <2>8 DEF Submit, TypeOK, NoCall
    <2>10. \A j \in Calls :
             /\ call'[j].pc # "idle" => call'[j].sid \in Sessions
             /\ call'[j].pc = "save" =>
                  call'[j].task \in Tasks /\ call'[j].answer \in Answers
                  /\ Earned(call'[j].answer)
             /\ call'[j].pc = "finish" => call'[j].held \in Rows /\ call'[j].at \in 0..MaxTime
      BY <2>6, <2>7, <2>8 DEF TypeOK, NoCall
    <2> QED BY <1>4, <2>9, <2>10 DEF Submit, Earned
  <1>5. ASSUME NEW k \in Calls, NEW s \in Sessions, FinishStart(k, s)
        PROVE  ScoreInv'
    <2>1. PICK at \in 0..MaxTime : now' = at
      BY <1>5 DEF FinishStart
    <2>2. row[s] \in Rows
      BY DEF TypeOK
    <2>3. PICK c : c = [NoCall EXCEPT !.pc = "finish", !.sid = s, !.held = row[s], !.at = at]
      OBVIOUS
    <2>4. call' = [call EXCEPT ![k] = c]
      BY <1>5, <2>1, <2>3 DEF FinishStart
    <2>5. TypeOK'
      <3>1. c \in [pc : {"idle", "save", "finish"}, sid : Sessions \cup {None},
                   task : Tasks \cup {None}, answer : Answers \cup {None},
                   held : Rows \cup {None}, at : 0..MaxTime \cup {None}]
        BY <2>2, <2>3 DEF NoCall
      <3>2. call' \in [Calls -> [pc : {"idle", "save", "finish"}, sid : Sessions \cup {None},
                                 task : Tasks \cup {None}, answer : Answers \cup {None},
                                 held : Rows \cup {None}, at : 0..MaxTime \cup {None}]]
        BY <2>4, <3>1 DEF TypeOK
      <3> QED BY <1>5, <2>1, <3>2 DEF FinishStart, TypeOK
    <2>6. \A j \in Calls :
            /\ call'[j].pc # "idle" => call'[j].sid \in Sessions
            /\ call'[j].pc = "save" =>
                 call'[j].task \in Tasks /\ call'[j].answer \in Answers
                 /\ Earned(call'[j].answer)
            /\ call'[j].pc = "finish" => call'[j].held \in Rows /\ call'[j].at \in 0..MaxTime
      BY <2>2, <2>3, <2>4 DEF TypeOK, NoCall
    <2> QED BY <1>5, <2>5, <2>6 DEF FinishStart, Earned
  <1>6. ASSUME NEW k \in Calls, Save(k)
        PROVE  ScoreInv'
    <2> DEFINE s == call[k].sid
               t == call[k].task
    <2>1. /\ s \in Sessions /\ t \in Tasks
          /\ call[k].answer \in Answers /\ Earned(call[k].answer)
      BY <1>6 DEF Save
    <2>2. \A j \in Calls : call'[j] = IF j = k THEN NoCall ELSE call[j]
      BY <1>6 DEF Save, TypeOK
    <2>3. \A u \in Sessions, w \in Tasks : submission'[u][w] # None => Earned(submission'[u][w])
      <3>1. \A u \in Sessions, w \in Tasks : submission[u][w] # None => Earned(submission[u][w])
        OBVIOUS
      <3>2. \A u \in Sessions, w \in Tasks :
              submission'[u][w] = submission[u][w] \/ submission'[u][w] = call[k].answer
        <4>1. submission \in [Sessions -> [Tasks -> Answers \cup {None}]]
          BY DEF TypeOK
        <4>2. \/ submission' = submission
              \/ submission' = [submission EXCEPT ![s][t] = call[k].answer]
          BY <1>6 DEF Save
        <4> HIDE DEF ScoreInv, s, t
        <4> QED BY <2>1, <4>1, <4>2
      <3> QED BY <2>1, <3>1, <3>2
    <2>4. submission' \in [Sessions -> [Tasks -> Answers \cup {None}]]
      <3>1. CASE UNCHANGED submission
        BY <3>1 DEF TypeOK
      <3>2. CASE submission' = [submission EXCEPT ![s][t] = call[k].answer]
        <4>1. [submission[s] EXCEPT ![t] = call[k].answer] \in [Tasks -> Answers \cup {None}]
          BY <2>1 DEF TypeOK
        <4> HIDE DEF s, t
        <4> QED BY <2>1, <3>2, <4>1 DEF TypeOK
      <3> QED BY <1>6, <3>1, <3>2 DEF Save
    <2>5. TotalOf(submission'[s]) \in Int
      <3>1. PICK mine \in [Tasks -> Answers \cup {None}] : mine = submission'[s]
        BY <2>1, <2>4
      <3>2. \A u \in Tasks : mine[u] # None => mine[u].result.points \in Int
        BY DEF Answers
      <3> QED BY <3>1, <3>2, TotalIsNumber
    <2>6. /\ row' \in [Sessions -> Rows]
          /\ \A u \in Sessions : row'[u].finish = row[u].finish /\ row'[u].status = row[u].status
      <3>1. CASE submission[s][t] # None
        BY <1>6, <3>1 DEF Save, TypeOK
      <3>2. CASE submission[s][t] = None
        <4>1. PICK n \in Int : row' = [row EXCEPT ![s].total = n]
          BY <1>6, <2>5, <3>2 DEF Save
        <4> QED BY <2>1, <4>1 DEF TypeOK, Rows
      <3> QED BY <3>1, <3>2
    <2>7. call' \in [Calls -> [pc : {"idle", "save", "finish"}, sid : Sessions \cup {None},
                               task : Tasks \cup {None}, answer : Answers \cup {None},
                               held : Rows \cup {None}, at : 0..MaxTime \cup {None}]]
      BY <1>6 DEF Save, TypeOK, NoCall
    <2>8. TypeOK'
      BY <1>6, <2>4, <2>6, <2>7 DEF Save, TypeOK
    <2>9. \A j \in Calls :
            /\ call'[j].pc # "idle" => call'[j].sid \in Sessions
            /\ call'[j].pc = "save" =>
                 call'[j].task \in Tasks /\ call'[j].answer \in Answers
                 /\ Earned(call'[j].answer)
            /\ call'[j].pc = "finish" => call'[j].held \in Rows /\ call'[j].at \in 0..MaxTime
      BY <2>2 DEF NoCall
    <2> HIDE DEF s, t
    <2> QED BY <1>6, <2>3, <2>8, <2>9 DEF Save, Earned
  <1>7. ASSUME NEW k \in Calls, FinishWrite(k)
        PROVE  ScoreInv'
    <2>1. /\ call[k].sid \in Sessions
          /\ call[k].held \in Rows /\ call[k].at \in 0..MaxTime
      BY <1>7 DEF FinishWrite
    <2>2. PICK ended : ended = Ended(call[k].held, call[k].at)
      OBVIOUS
    <2>3. ended \in Rows /\ ended.finish # None /\ ended.status = "finished"
      BY <1>c, <2>1, <2>2 DEF Ended, Rows
    <2>4. row' = [row EXCEPT ![call[k].sid] = ended]
      BY <1>7, <2>2 DEF FinishWrite
    <2>5. \A j \in Calls : call'[j] = IF j = k THEN NoCall ELSE call[j]
      BY <1>7 DEF FinishWrite, TypeOK
    <2>6. TypeOK'
      BY <1>7, <2>1, <2>3, <2>4 DEF FinishWrite, TypeOK, NoCall
    <2>7. \A j \in Calls :
            /\ call'[j].pc # "idle" => call'[j].sid \in Sessions
            /\ call'[j].pc = "save" =>
                 call'[j].task \in Tasks /\ call'[j].answer \in Answers
                 /\ Earned(call'[j].answer)
            /\ call'[j].pc = "finish" => call'[j].held \in Rows /\ call'[j].at \in 0..MaxTime
      BY <2>5 DEF NoCall
    <2> QED BY <1>7, <2>6, <2>7 DEF FinishWrite, Earned
  <1>8. CASE UNCHANGED vars
    BY <1>8 DEF vars, TypeOK, Earned
  <1> QED BY <1>1, <1>2, <1>3, <1>4, <1>5, <1>6, <1>7, <1>8 DEF Next

\* The rows and the locals keep their types in every run of the server.
THEOREM ScoreTypes == Spec => []TypeOK
  <1>1. ScoreInv => TypeOK
    BY DEF ScoreInv
  <1> QED BY ScoreInit, ScoreNext, <1>1, PTL DEF Spec

\* No answer earns more than its task is worth, only a branch costs points, and of two
\* answers graded alike the nearer one never gets less, however many crews answer and
\* however tasks are retuned meanwhile (taskengine's validators and scale).
THEOREM AwardsStayFair == Spec => []AwardsAreFair
  <1>1. ScoreInv => AwardsAreFair
    <2> SUFFICES ASSUME ScoreInv
                 PROVE  AwardsAreFair
      OBVIOUS
    <2>1. ASSUME NEW s \in Sessions, NEW t \in Tasks, submission[s][t] # None
          PROVE  LET a == submission[s][t] IN
                 /\ a.graded \in Definitions /\ Valid(a.graded) /\ IsConfig(a.graded.config)
                 /\ IsPayload(a.payload)
                 /\ a.result
                      \in Validate(a.graded.type, a.graded.config, a.payload, a.graded.points)
      <3>1. PICK a \in Answers : a = submission[s][t]
        BY <2>1 DEF ScoreInv, TypeOK
      <3>2. Earned(a)
        BY <2>1, <3>1 DEF ScoreInv
      <3>3. a.graded \in Definitions /\ a.payload \in Payloads
        BY DEF Answers
      <3>4. IsPayload(a.payload) /\ IsConfig(a.graded.config)
        BY <3>3, DecodedFacts, ScoreboardConstants
      <3> QED BY <3>1, <3>2, <3>3, <3>4 DEF Earned
    <2>2. ASSUME NEW s \in Sessions, NEW t \in Tasks, submission[s][t] # None
          PROVE  submission[s][t].graded.type # "BRANCH" =>
                   submission[s][t].result.points \in 0..submission[s][t].graded.points
      BY <2>1, <2>2, AwardBounds
    <2>3. ASSUME NEW s \in Sessions, NEW o \in Sessions, NEW t \in Tasks,
                 submission[s][t] # None, submission[o][t] # None,
                 submission[s][t].graded = submission[o][t].graded,
                 Nearer(submission[s][t].graded, submission[s][t].payload,
                        submission[o][t].payload)
          PROVE  submission[s][t].result.points >= submission[o][t].result.points
      BY <2>1, <2>3, NearerEarnsMore
    <2> QED BY <2>2, <2>3 DEF AwardsAreFair
  <1> QED BY ScoreInit, ScoreNext, <1>1, PTL DEF Spec

-----------------------------------------------------------------------------
(* The leaderboard *)

\* Ranking by the number of members below gives every place from 0 up to one of them.
LEMMA RankIsDense ==
  ASSUME NEW S, IsFiniteSet(S), NEW below \in [S -> SUBSET S],
         \A l \in S : l \notin below[l],
         \A k, l \in S : k \in below[l] => below[k] \subseteq below[l],
         \A k, l \in S : k # l => k \in below[l] \/ l \in below[k]
  PROVE  /\ \A k, l \in S : k \in below[l] => Cardinality(below[k]) < Cardinality(below[l])
         /\ \A k, l \in S : Cardinality(below[k]) = Cardinality(below[l]) => k = l
         /\ {Cardinality(below[l]) : l \in S} = 0..(Cardinality(S) - 1)
  <1> DEFINE n == Cardinality(S)
             rank == [l \in S |-> Cardinality(below[l])]
  <1>a. n \in Nat
    BY FS_CardinalityType
  <1>b. \A l \in S : IsFiniteSet(below[l]) /\ Cardinality(below[l]) \in Nat
    BY FS_Subset, FS_CardinalityType
  <1>1. ASSUME NEW k \in S, NEW l \in S, k \in below[l]
        PROVE  Cardinality(below[k]) < Cardinality(below[l])
    <2>1. below[k] \in SUBSET below[l] /\ below[k] # below[l]
      BY <1>1
    <2>2. /\ Cardinality(below[k]) <= Cardinality(below[l])
          /\ Cardinality(below[k]) # Cardinality(below[l])
      BY <1>b, <2>1, FS_Subset
    <2> QED BY <1>b, <2>2
  <1>2. ASSUME NEW k \in S, NEW l \in S, Cardinality(below[k]) = Cardinality(below[l])
        PROVE  k = l
    BY <1>1, <1>2, <1>b
  <1>3. ASSUME NEW l \in S
        PROVE  Cardinality(below[l]) \in 0..(n - 1)
    <2>1. below[l] \in SUBSET S /\ below[l] # S
      BY <1>3
    <2>2. Cardinality(below[l]) <= n /\ Cardinality(below[l]) # n
      BY <2>1, FS_Subset
    <2> QED BY <1>a, <1>b, <2>2
  <1>4. rank \in Injection(S, 0..(n - 1))
    BY <1>2, <1>3 DEF Injection, IsInjective
  <1>5. IsFiniteSet(0..(n - 1)) /\ Cardinality(0..(n - 1)) = n
    BY <1>a, FS_Interval
  <1>6. rank \in Surjection(S, 0..(n - 1))
    BY <1>4, <1>5, FS_Injection
  <1>7. {Cardinality(below[l]) : l \in S} = 0..(n - 1)
    <2>1. \A i \in 0..(n - 1) : \E l \in S : Cardinality(below[l]) = i
      BY <1>6 DEF Surjection
    <2> QED BY <1>3, <2>1
  <1> QED BY <1>1, <1>2, <1>7

\* Compare is a total preorder of the runs, and less than nothing says who did better.
LEMMA CompareFacts ==
  ASSUME TypeOK, NEW a \in Sessions, NEW b \in Sessions, NEW c \in Sessions
  PROVE  /\ Compare(row[a], row[b]) \in Int
         /\ DidBetter(a, b) <=> Compare(row[a], row[b]) < 0
         /\ Compare(row[a], row[a]) = 0
         /\ Compare(row[a], row[b]) < 0 <=> Compare(row[b], row[a]) > 0
         /\ Compare(row[a], row[b]) <= 0 /\ Compare(row[b], row[c]) <= 0 =>
              /\ Compare(row[a], row[c]) <= 0
              /\ Compare(row[a], row[c]) = 0 =>
                   Compare(row[a], row[b]) = 0 /\ Compare(row[b], row[c]) = 0
         /\ Compare(row[a], row[b]) = 0 =>
              (Compare(row[c], row[a]) < 0 <=> Compare(row[c], row[b]) < 0)
  <1>1. MaxTime \in Nat /\ None \notin 0..MaxTime
    BY ScoreboardConstants
  <1>2. /\ row[a].total \in Int /\ row[b].total \in Int /\ row[c].total \in Int
        /\ row[a].finish # None => row[a].finish \in Nat
        /\ row[b].finish # None => row[b].finish \in Nat
        /\ row[c].finish # None => row[c].finish \in Nat
    BY <1>1 DEF TypeOK, Rows
  <1>a. ASSUME NEW s \in {a, b, c}, NEW o \in {a, b, c}
        PROVE  /\ Compare(row[s], row[o]) \in Int
               /\ Compare(row[s], row[o]) = 0 <=>
                    row[s].total = row[o].total /\ row[s].finish = row[o].finish
               /\ DidBetter(s, o) <=> Compare(row[s], row[o]) < 0
    <2> DEFINE x == row[s]
               y == row[o]
    <2>1. /\ x.total \in Int /\ y.total \in Int
          /\ x.finish # None => x.finish \in Nat
          /\ y.finish # None => y.finish \in Nat
      BY <1>2
    <2>2. /\ x.total # y.total => Compare(x, y) = y.total - x.total
          /\ x.total = y.total /\ x.finish = y.finish => Compare(x, y) = 0
          /\ x.total = y.total /\ x.finish # y.finish =>
               Compare(x, y) = IF x.finish = None THEN 1
                               ELSE IF y.finish = None THEN -1 ELSE x.finish - y.finish
      BY DEF Compare
    <2>3. DidBetter(s, o) <=> \/ x.total > y.total
                              \/ /\ x.total = y.total
                                 /\ x.finish # None
                                 /\ y.finish = None \/ x.finish < y.finish
      BY DEF DidBetter
    <2> HIDE DEF x, y
    <2>4. /\ Compare(x, y) \in Int
          /\ Compare(x, y) = 0 <=> x.total = y.total /\ x.finish = y.finish
          /\ DidBetter(s, o) <=> Compare(x, y) < 0
      BY <2>1, <2>2, <2>3
    <2> QED BY <2>4 DEF x, y
  <1>3. \A s, o \in {a, b, c} :
          /\ Compare(row[s], row[o]) \in Int
          /\ Compare(row[s], row[o]) = 0 <=>
               row[s].total = row[o].total /\ row[s].finish = row[o].finish
    BY <1>a
  <1>4. \A s, o \in {a, b, c} : DidBetter(s, o) <=> Compare(row[s], row[o]) < 0
    BY <1>a
  <1>5. DidBetter(a, b) \/ DidBetter(b, a) \/ Compare(row[a], row[b]) = 0
    BY <1>2, <1>3 DEF DidBetter
  <1>6. ~(DidBetter(a, b) /\ DidBetter(b, a))
    BY <1>2 DEF DidBetter
  <1>7. DidBetter(a, b) /\ DidBetter(b, c) => DidBetter(a, c)
    BY <1>2 DEF DidBetter
  <1>8. /\ Compare(row[a], row[b]) = 0 => (DidBetter(c, a) <=> DidBetter(c, b))
        /\ Compare(row[a], row[b]) = 0 => (DidBetter(a, c) <=> DidBetter(b, c))
        /\ Compare(row[b], row[c]) = 0 => (DidBetter(a, b) <=> DidBetter(a, c))
        /\ Compare(row[a], row[b]) = 0 /\ Compare(row[b], row[c]) = 0 =>
             Compare(row[a], row[c]) = 0
    BY <1>3 DEF DidBetter
  <1>9. Compare(row[a], row[b]) = 0 <=> Compare(row[b], row[a]) = 0
    BY <1>3
  <1>10. /\ Compare(row[a], row[b]) \in Int /\ Compare(row[b], row[a]) \in Int
         /\ Compare(row[b], row[c]) \in Int /\ Compare(row[a], row[c]) \in Int
         /\ Compare(row[c], row[a]) \in Int /\ Compare(row[c], row[b]) \in Int
         /\ Compare(row[a], row[a]) = 0
    BY <1>3
  <1>11. Compare(row[a], row[b]) < 0 <=> Compare(row[b], row[a]) > 0
    BY <1>4, <1>5, <1>6, <1>9, <1>10
  <1>12. Compare(row[a], row[b]) <= 0 /\ Compare(row[b], row[c]) <= 0 =>
           /\ Compare(row[a], row[c]) <= 0
           /\ Compare(row[a], row[c]) = 0 =>
                Compare(row[a], row[b]) = 0 /\ Compare(row[b], row[c]) = 0
    BY <1>4, <1>7, <1>8, <1>10
  <1>13. Compare(row[a], row[b]) = 0 =>
           (Compare(row[c], row[a]) < 0 <=> Compare(row[c], row[b]) < 0)
    <2>1. /\ DidBetter(c, a) <=> Compare(row[c], row[a]) < 0
          /\ DidBetter(c, b) <=> Compare(row[c], row[b]) < 0
      BY <1>4
    <2>2. Compare(row[a], row[b]) = 0 => (DidBetter(c, a) <=> DidBetter(c, b))
      BY <1>8, Zenon
    <2> QED BY <2>1, <2>2, Zenon
  <1> QED BY <1>4, <1>10, <1>11, <1>12, <1>13

\* The runs can be listed in order: ties are broken by any numbering of the runs.
LEMMA BoardExists ==
  ASSUME TypeOK
  PROVE  \E board \in SetToSeqs(Sessions) :
           \A i, j \in DOMAIN board : i < j => Compare(row[board[i]], row[board[j]]) <= 0
  <1> DEFINE n == Cardinality(Sessions)
  <1>1. IsFiniteSet(Sessions) /\ n \in Nat
    BY ScoreboardConstants, FS_CardinalityType
  <1>2. IsFiniteSet(1..n) /\ Cardinality(1..n) = n
    BY <1>1, FS_Interval
  <1>3. PICK number \in Bijection(Sessions, 1..n) : TRUE
    BY <1>1, <1>2, FS_SameCardinalityBij DEF ExistsBijection
  <1>4. /\ \A s \in Sessions : number[s] \in Int
        /\ \A s, t \in Sessions : number[s] = number[t] => s = t
    BY <1>3 DEF Bijection, Injection, IsInjective
  <1> DEFINE Before(s, t) == \/ Compare(row[s], row[t]) < 0
                             \/ Compare(row[s], row[t]) = 0 /\ number[s] < number[t]
             below == [t \in Sessions |-> {s \in Sessions : Before(s, t)}]
             place(s) == Cardinality(below[s])
             board == [i \in 1..n |-> CHOOSE s \in Sessions : place(s) = i - 1]
  <1>5. below \in [Sessions -> SUBSET Sessions]
    OBVIOUS
  <1>6. \A t \in Sessions : t \notin below[t]
    BY <1>4, CompareFacts
  <1>7. \A s, t \in Sessions : s \in below[t] => below[s] \subseteq below[t]
    <2> SUFFICES ASSUME NEW s \in Sessions, NEW t \in Sessions, Before(s, t),
                        NEW u \in Sessions, Before(u, s)
                 PROVE  Before(u, t)
      OBVIOUS
    <2>1. /\ Compare(row[u], row[s]) \in Int /\ Compare(row[s], row[t]) \in Int
          /\ Compare(row[u], row[t]) \in Int
          /\ Compare(row[u], row[t]) <= 0
          /\ Compare(row[u], row[t]) = 0 =>
               Compare(row[u], row[s]) = 0 /\ Compare(row[s], row[t]) = 0
      BY CompareFacts
    <2> QED BY <1>4, <2>1
  <1>8. \A s, t \in Sessions : s # t => s \in below[t] \/ t \in below[s]
    <2> SUFFICES ASSUME NEW s \in Sessions, NEW t \in Sessions, s # t
                 PROVE  Before(s, t) \/ Before(t, s)
      OBVIOUS
    <2>1. /\ Compare(row[s], row[t]) \in Int /\ Compare(row[t], row[s]) \in Int
          /\ Compare(row[s], row[t]) < 0 <=> Compare(row[t], row[s]) > 0
          /\ Compare(row[t], row[s]) < 0 <=> Compare(row[s], row[t]) > 0
      BY CompareFacts
    <2>2. number[s] < number[t] \/ number[t] < number[s]
      BY <1>4
    <2> QED BY <2>1, <2>2
  <1>9. \A s, t \in Sessions : s \in below[t] => Compare(row[s], row[t]) <= 0
    BY CompareFacts
  <1> HIDE DEF below
  <1>10. /\ \A s, t \in Sessions : s \in below[t] => place(s) < place(t)
         /\ \A s, t \in Sessions : place(s) = place(t) => s = t
         /\ {place(s) : s \in Sessions} = 0..(n - 1)
    BY <1>1, <1>5, <1>6, <1>7, <1>8, RankIsDense
  <1> HIDE DEF place, n
  <1>11. \A i \in 1..n : board[i] \in Sessions /\ place(board[i]) = i - 1
    <2> SUFFICES ASSUME NEW i \in 1..n
                 PROVE  board[i] \in Sessions /\ place(board[i]) = i - 1
      OBVIOUS
    <2>1. i - 1 \in 0..(n - 1)
      BY <1>1
    <2>2. \E s \in Sessions : place(s) = i - 1
      BY <1>10, <2>1
    <2> QED BY <2>2
  <1>12. board \in [1..n -> Sessions]
    BY <1>11
  <1> HIDE DEF board
  <1>13. \A i, j \in 1..n : i # j => board[i] # board[j]
    BY <1>1, <1>11
  <1>14. board \in SetToSeqs(Sessions)
    BY <1>12, <1>13 DEF SetToSeqs, n
  <1>15. ASSUME NEW i \in 1..n, NEW j \in 1..n, i < j
         PROVE  Compare(row[board[i]], row[board[j]]) <= 0
    <2>1. place(board[i]) < place(board[j])
      BY <1>1, <1>11, <1>15
    <2>2. ~(place(board[j]) < place(board[i])) /\ board[i] # board[j]
      BY <1>1, <1>11, <1>15
    <2>3. board[i] \in below[board[j]]
      BY <1>8, <1>10, <1>11, <2>2
    <2> QED BY <1>9, <1>11, <2>3
  <1> QED BY <1>12, <1>14, <1>15

\* How the leaderboard lists the runs.
LEMMA BoardFacts ==
  ASSUME TypeOK
  PROVE  /\ Cardinality(Sessions) \in Nat
         /\ Leaderboard \in [1..Cardinality(Sessions) -> Sessions]
         /\ \A i, j \in 1..Cardinality(Sessions) : i # j => Leaderboard[i] # Leaderboard[j]
         /\ \A s \in Sessions : \E i \in 1..Cardinality(Sessions) : Leaderboard[i] = s
         /\ \A i, j \in 1..Cardinality(Sessions) :
              i < j => Compare(row[Leaderboard[i]], row[Leaderboard[j]]) <= 0
  <1> DEFINE n == Cardinality(Sessions)
  <1>1. IsFiniteSet(Sessions) /\ n \in Nat
    BY ScoreboardConstants, FS_CardinalityType
  <1>2. /\ Leaderboard \in SetToSeqs(Sessions)
        /\ \A i, j \in DOMAIN Leaderboard :
             i < j => Compare(row[Leaderboard[i]], row[Leaderboard[j]]) <= 0
    BY BoardExists DEF Leaderboard
  <1>3. /\ Leaderboard \in [1..n -> Sessions]
        /\ \A i, j \in 1..n : i # j => Leaderboard[i] # Leaderboard[j]
    BY <1>2 DEF SetToSeqs
  <1>4. Leaderboard \in Injection(1..n, Sessions)
    BY <1>3 DEF Injection, IsInjective
  <1>5. Cardinality(1..n) = n
    BY <1>1, FS_Interval
  <1>6. Leaderboard \in Surjection(1..n, Sessions)
    BY <1>1, <1>4, <1>5, FS_Injection
  <1> QED BY <1>1, <1>2, <1>3, <1>6 DEF Surjection

\* How many runs did better than s.
Ahead(s) == {o \in Sessions : DidBetter(o, s)}

\* A run's rank is one more than the runs ahead of it.
LEMMA RankCounts ==
  ASSUME TypeOK, NEW i \in 1..Cardinality(Sessions)
  PROVE  Rank(Leaderboard)[i] = 1 + Cardinality(Ahead(Leaderboard[i]))
  <1> DEFINE n == Cardinality(Sessions)
  <1>1. PICK board \in [1..n -> Sessions] :
          /\ board = Leaderboard
          /\ \A j, k \in 1..n : j # k => board[j] # board[k]
          /\ \A s \in Sessions : \E j \in 1..n : board[j] = s
          /\ \A j, k \in 1..n : j < k => Compare(row[board[j]], row[board[k]]) <= 0
    BY BoardFacts
  <1>2. n \in Nat
    BY BoardFacts
  <1> DEFINE tied(j) == j > 1 /\ Compare(row[board[j - 1]], row[board[j]]) = 0
             count(j) == 1 + Cardinality(Ahead(board[j]))
             next(g, j) == IF tied(j) THEN g[j - 1] ELSE j
             rank == CHOOSE g : g = [j \in 1..n |-> next(g, j)]
  <1> HIDE DEF n
  <1>3. ASSUME NEW j \in 1..n, NEW k \in 1..n, j <= k
        PROVE  ~DidBetter(board[k], board[j])
    <2>1. CASE j = k
      BY <2>1, CompareFacts
    <2>2. CASE j < k
      <3>1. Compare(row[board[j]], row[board[k]]) <= 0
        BY <1>1, <2>2
      <3> QED BY <3>1, CompareFacts
    <2> QED BY <1>2, <1>3, <2>1, <2>2
  <1>4. ASSUME NEW j \in 1..n, tied(j)
        PROVE  count(j) = count(j - 1) /\ j - 1 \in 1..n
    <2>1. j - 1 \in 1..n
      BY <1>2, <1>4
    <2>2. \A o \in Sessions : DidBetter(o, board[j - 1]) <=> DidBetter(o, board[j])
      BY <1>4, <2>1, CompareFacts
    <2>3. Ahead(board[j]) = Ahead(board[j - 1])
      BY <2>2 DEF Ahead
    <2> QED BY <2>1, <2>3
  <1>5. ASSUME NEW j \in 1..n, ~tied(j)
        PROVE  count(j) = j
    <2> DEFINE ahead == {board[k] : k \in 1..(j - 1)}
               listed == [k \in 1..(j - 1) |-> board[k]]
    <2>1. ASSUME NEW k \in 1..(j - 1)
          PROVE  k \in 1..n /\ DidBetter(board[k], board[j])
      <3>1. k \in 1..n /\ j - 1 \in 1..n /\ k <= j - 1 /\ j - 1 < j
        BY <1>2
      <3>2. /\ Compare(row[board[j - 1]], row[board[j]]) <= 0
            /\ Compare(row[board[j - 1]], row[board[j]]) # 0
        BY <1>1, <1>5, <3>1
      <3>3. Compare(row[board[k]], row[board[j - 1]]) <= 0
        <4>1. CASE k = j - 1
          BY <3>1, <4>1, CompareFacts
        <4>2. CASE k < j - 1
          BY <1>1, <3>1, <4>2
        <4> QED BY <3>1, <4>1, <4>2
      <3>4. board[k] \in Sessions /\ board[j - 1] \in Sessions /\ board[j] \in Sessions
        BY <3>1
      <3>5. /\ Compare(row[board[k]], row[board[j]]) <= 0
            /\ Compare(row[board[k]], row[board[j]]) # 0
            /\ Compare(row[board[k]], row[board[j]]) \in Int
        BY <3>2, <3>3, <3>4, CompareFacts
      <3>6. DidBetter(board[k], board[j])
        BY <3>4, <3>5, CompareFacts
      <3> QED BY <3>1, <3>6
    <2>2. Ahead(board[j]) = ahead
      <3>1. ASSUME NEW o \in Sessions, DidBetter(o, board[j])
            PROVE  o \in ahead
        <4>1. PICK k \in 1..n : board[k] = o
          BY <1>1
        <4>2. ~(j <= k)
          BY <1>3, <3>1, <4>1
        <4>3. k \in 1..(j - 1)
          BY <1>2, <4>2
        <4> QED BY <4>1, <4>3
      <3>2. ahead \in SUBSET Sessions
        BY <2>1
      <3> QED BY <2>1, <3>1, <3>2 DEF Ahead
    <2>3. listed \in Bijection(1..(j - 1), ahead)
      <3>1. \A k, l \in 1..(j - 1) : board[k] = board[l] => k = l
        BY <1>1, <2>1
      <3> QED BY <3>1 DEF Bijection, Injection, Surjection, IsInjective
    <2>4. IsFiniteSet(1..(j - 1)) /\ Cardinality(1..(j - 1)) = j - 1
      BY <1>2, FS_Interval
    <2>5. Cardinality(ahead) = j - 1
      <3>1. ExistsBijection(1..(j - 1), ahead)
        BY <2>3 DEF ExistsBijection
      <3> HIDE DEF ahead, listed
      <3> QED BY <2>4, <3>1, FS_Bijection
    <2> HIDE DEF ahead
    <2> QED BY <1>2, <2>2, <2>5
  <1> HIDE DEF count, tied
  <1>6. [j \in 1..n |-> count(j)] = [j \in 1..n |-> next([k \in 1..n |-> count(k)], j)]
    BY <1>4, <1>5
  <1>7. rank = [j \in 1..n |-> next(rank, j)]
    <2> DEFINE counts == [k \in 1..n |-> count(k)]
    <2>1. counts = [j \in 1..n |-> next(counts, j)]
      BY <1>6
    <2> HIDE DEF counts, next
    <2> QED BY <2>1
  <1>8. \A j \in 1..n : rank[j] = next(rank, j)
    BY <1>7
  <1>9. Rank(Leaderboard) = rank
    BY <1>1, <1>2 DEF Rank, tied
  <1> HIDE DEF rank
  <1>10. \A j \in 1..n : rank[j] = count(j)
    <2> DEFINE odd == {j \in 1..n : rank[j] # count(j)}
    <2> SUFFICES ASSUME odd # {}
                 PROVE  FALSE
      OBVIOUS
    <2>1. PICK j \in odd : \A k \in odd : j <= k
      <3>1. odd \in SUBSET Nat
        BY <1>2
      <3> HIDE DEF odd
      <3> QED BY <3>1, LeastNumber
    <2>2. CASE tied(j)
      <3>1. rank[j] = rank[j - 1] /\ count(j) = count(j - 1) /\ j - 1 \in 1..n
        BY <1>4, <1>8, <2>1, <2>2
      <3>2. j - 1 \in odd
        BY <2>1, <3>1
      <3> QED BY <1>2, <2>1, <3>2
    <2>3. CASE ~tied(j)
      BY <1>5, <1>8, <2>1, <2>3
    <2> QED BY <2>2, <2>3
  <1> QED BY <1>1, <1>9, <1>10 DEF n, count

\* The leaderboard is a competition ranking of the stored rows, whatever crews and
\* organizers do: every run is listed once, ranked by how many did better and never
\* below one that did worse (StandingsOf and Rank).
THEOREM BoardIsCompetition == Spec => []BoardIsRanked
  <1>1. TypeOK => BoardIsRanked
    <2> SUFFICES ASSUME TypeOK
                 PROVE  BoardIsRanked
      OBVIOUS
    <2> DEFINE n == Cardinality(Sessions)
    <2>1. PICK board \in [1..n -> Sessions] :
            /\ board = Leaderboard
            /\ \A j, k \in 1..n : j < k => Compare(row[board[j]], row[board[k]]) <= 0
      BY BoardFacts
    <2>2. n \in Nat
      BY BoardFacts
    <2>3. Len(board) = n /\ DOMAIN board = 1..n
      BY <2>1, <2>2
    <2>4. \A i \in 1..n : Rank(board)[i]
                            = 1 + Cardinality({s \in Sessions : DidBetter(s, board[i])})
      BY <2>1, RankCounts DEF Ahead
    <2>5. ASSUME NEW i \in 1..n, NEW j \in 1..n, DidBetter(board[i], board[j])
          PROVE  i < j
      <3>1. board[i] \in Sessions /\ board[j] \in Sessions
        OBVIOUS
      <3>2. /\ Compare(row[board[i]], row[board[j]]) < 0
            /\ Compare(row[board[j]], row[board[i]]) > 0
            /\ Compare(row[board[j]], row[board[i]]) \in Int
            /\ Compare(row[board[i]], row[board[i]]) = 0
        BY <2>5, <3>1, CompareFacts
      <3>3. ~(j < i)
        BY <2>1, <3>2
      <3>4. i # j
        BY <3>2
      <3> QED BY <2>2, <3>3, <3>4
    <2> QED BY <2>1, <2>3, <2>4, <2>5 DEF BoardIsRanked
  <1> QED BY ScoreTypes, <1>1, PTL

RanksCount == \A s \in Sessions : Ranks[s] = 1 + Cardinality(Ahead(s))

\* The rank of each run is one more than the runs ahead of it.
LEMMA RanksAreCounts == TypeOK => RanksCount
  <1> SUFFICES ASSUME TypeOK, NEW s \in Sessions
               PROVE  Ranks[s] = 1 + Cardinality(Ahead(s))
    BY DEF RanksCount
  <1> DEFINE n == Cardinality(Sessions)
  <1>1. /\ Leaderboard \in [1..n -> Sessions]
        /\ \E i \in 1..n : Leaderboard[i] = s
    BY BoardFacts
  <1>2. PICK i : i = CHOOSE j \in DOMAIN Leaderboard : Leaderboard[j] = s
    OBVIOUS
  <1>3. i \in 1..n /\ Leaderboard[i] = s
    BY <1>1, <1>2
  <1>4. Ranks[s] = Rank(Leaderboard)[i]
    BY <1>2 DEF Ranks
  <1> QED BY <1>3, <1>4, RankCounts

\* A step that improves a run changes no other one.
LEMMA OthersStand ==
  ASSUME ScoreInv, [Next]_vars, NEW s \in Sessions, Improves(s)
  PROVE  \A o \in Sessions \ {s} : row'[o] = row[o]
  <1>1. row'[s] # row[s]
    <2>1. row[s].total \in Int
      BY DEF ScoreInv, TypeOK, Rows
    <2> QED BY <2>1 DEF Improves
  <1>2. ASSUME NEW k \in Calls, Save(k)
        PROVE  \A o \in Sessions \ {call[k].sid} : row'[o] = row[o]
    <2>1. CASE UNCHANGED row
      BY <2>1
    <2>2. CASE row' = [row EXCEPT ![call[k].sid].total = TotalOf(submission'[call[k].sid])]
      BY <2>2 DEF ScoreInv, TypeOK
    <2> QED BY <1>2, <2>1, <2>2 DEF Save
  <1>3. ASSUME NEW k \in Calls, FinishWrite(k)
        PROVE  \A o \in Sessions \ {call[k].sid} : row'[o] = row[o]
    BY <1>3 DEF FinishWrite, ScoreInv, TypeOK
  <1>4. row' # row
    BY <1>1
  <1>5. PICK k \in Calls : Save(k) \/ FinishWrite(k)
    BY <1>4 DEF Next, vars, Create, UpdateStart, UpdateWrite, Submit, FinishStart
  <1>6. call[k].sid = s
    BY <1>1, <1>2, <1>3, <1>5
  <1> QED BY <1>2, <1>3, <1>5, <1>6

\* A car that earns points, or finishes with what it has, does not fall behind, and
\* pushes every other car back by one place at most (Rank, SaveSubmission, Finish).
THEOREM NobodyFallsBehind == Spec => NoSetback
  <1>1. /\ ScoreInv /\ [Next]_vars
        /\ RanksCount /\ RanksCount'
        /\ TypeOK /\ TypeOK'
        => [\A s \in Sessions : Improves(s) =>
              /\ Ranks'[s] <= Ranks[s]
              /\ \A o \in Sessions \ {s} : Ranks'[o] \in Ranks[o]..(Ranks[o] + 1)]_row
    <2> SUFFICES ASSUME ScoreInv, [Next]_vars, RanksCount, RanksCount', TypeOK, TypeOK',
                        NEW s \in Sessions, Improves(s)
                 PROVE  /\ Ranks'[s] <= Ranks[s]
                        /\ \A o \in Sessions \ {s} : Ranks'[o] \in Ranks[o]..(Ranks[o] + 1)
      OBVIOUS
    <2>1. \A o \in Sessions \ {s} : row'[o] = row[o]
      BY OthersStand
    <2>2. \A o \in Sessions : Ranks[o] = 1 + Cardinality(Ahead(o))
      BY DEF RanksCount
    <2>3. \A o \in Sessions : Ranks'[o] = 1 + Cardinality(Ahead(o)')
      BY DEF RanksCount
    <2>4. \A o \in Sessions : /\ row[o].total \in Int /\ row'[o].total \in Int
                              /\ row[o].finish # None => row[o].finish \in Nat
                              /\ row'[o].finish # None => row'[o].finish \in Nat
      BY ScoreboardConstants DEF TypeOK, Rows
    <2>5. \A o \in Sessions :
            /\ IsFiniteSet(Ahead(o)) /\ Cardinality(Ahead(o)) \in Nat
            /\ IsFiniteSet(Ahead(o)') /\ Cardinality(Ahead(o)') \in Nat
      <3>1. \A o \in Sessions : Ahead(o) \in SUBSET Sessions /\ Ahead(o)' \in SUBSET Sessions
        BY DEF Ahead
      <3> QED BY <3>1, ScoreboardConstants, FS_Subset, FS_CardinalityType
    <2>6. Ahead(s)' \subseteq Ahead(s)
      BY <2>1, <2>4 DEF Ahead, DidBetter, Improves
    <2>7. Ranks'[s] <= Ranks[s]
      <3>1. Cardinality(Ahead(s)') <= Cardinality(Ahead(s))
        BY <2>5, <2>6, FS_Subset
      <3> QED BY <2>2, <2>3, <2>5, <3>1
    <2>8. ASSUME NEW o \in Sessions \ {s}
          PROVE  Ranks'[o] \in Ranks[o]..(Ranks[o] + 1)
      <3>1. Ahead(o) \subseteq Ahead(o)' /\ Ahead(o)' \subseteq Ahead(o) \cup {s}
        BY <2>1, <2>4 DEF Ahead, DidBetter, Improves
      <3>2. /\ IsFiniteSet(Ahead(o) \cup {s})
            /\ Cardinality(Ahead(o) \cup {s}) \in Nat
            /\ Cardinality(Ahead(o) \cup {s}) <= Cardinality(Ahead(o)) + 1
        <4>1. PICK n \in Nat : n = Cardinality(Ahead(o))
          BY <2>5
        <4>2. /\ IsFiniteSet(Ahead(o) \cup {s})
              /\ \/ Cardinality(Ahead(o) \cup {s}) = n
                 \/ Cardinality(Ahead(o) \cup {s}) = n + 1
          BY <2>5, <4>1, FS_AddElement
        <4> QED BY <4>1, <4>2
      <3>3. /\ Cardinality(Ahead(o)) <= Cardinality(Ahead(o)')
            /\ Cardinality(Ahead(o)') <= Cardinality(Ahead(o) \cup {s})
        BY <2>5, <3>1, <3>2, FS_Subset
      <3> QED BY <2>2, <2>3, <2>5, <3>2, <3>3
    <2> QED BY <2>7, <2>8
  <1>2. ScoreInv => TypeOK
    BY DEF ScoreInv
  <1>3. [\A s \in Sessions : Improves(s) =>
              /\ Ranks'[s] <= Ranks[s]
              /\ \A o \in Sessions \ {s} : Ranks'[o] \in Ranks[o]..(Ranks[o] + 1)]_row
        => [\A s \in Sessions : Improves(s) =>
              LET old == Ranks
                  new == Ranks'
              IN /\ new[s] <= old[s]
                 /\ \A o \in Sessions \ {s} : new[o] \in old[o]..(old[o] + 1)]_row
    OBVIOUS
  <1> QED BY ScoreInit, ScoreNext, RanksAreCounts, <1>1, <1>2, <1>3, PTL DEF Spec, NoSetback

=============================================================================
