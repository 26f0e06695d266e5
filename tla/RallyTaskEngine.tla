-------------------------- MODULE RallyTaskEngine --------------------------
(***************************************************************************)
(* Scoring one submission (backend/internal/taskengine).  A configuration  *)
(* and a payload are JSON objects: records with every key some validator   *)
(* reads, where a missing key has Go's zero value.  A text is the word it  *)
(* folds to (case and blanks around it do not count); an answer is a text, *)
(* a number or absent.                                                     *)
(*                                                                         *)
(* Validate is the set of results the engine may return: none when it      *)
(* refuses, and two where a measured quality may come out on either side   *)
(* of half a point, by the way the float was reached.                      *)
(***************************************************************************)
EXTENDS Integers, Sequences, FiniteSets, SequencesExt

CONSTANTS
  Blank,    \* the text of blanks only
  Short     \* the <<points, right, cells>> that are half a point and whose float is less

Types == {"INPUT_SELECT", "INPUT_NUMBER", "MULTI_SELECT", "SCAN_BARCODE", "TELEMATICS",
          "GEOFENCE_CROSS", "PROXIMITY", "GRID_FILL", "BLIND_TIMER", "BRANCH", "REST_LOCK",
          "TIMED_TRIVIA", "GATE_MATCH"}

\* A decoded "answer": its JSON kind and its value.
Text(w) == [kind |-> "text", value |-> w]
Number(n) == [kind |-> "number", value |-> n]
Missing == [kind |-> "null", value |-> Blank]

\* The configuration "{}", and a payload that says nothing.  What a grid or a gate
\* sends as its "answer" list is the field answers here.
EmptyConfig ==
  [answer |-> Missing, tolerance |-> 0, answers |-> <<>>, payload |-> Blank, solution |-> <<>>,
   targetSec |-> 0, limitSec |-> 0, solvePoints |-> 0, skipPoints |-> 0]
EmptyPayload ==
  [answer |-> Missing, answers |-> <<>>, payload |-> Blank, hardStops |-> 0, sharpTurns |-> 0,
   reached |-> FALSE, elapsedSec |-> 0, branch |-> Blank]

\* What json.Unmarshal lets through: lists are lists, counts are counts.
IsAnswer(a) == a.kind = "number" => a.value \in Int
IsConfig(c) ==
  /\ IsAnswer(c.answer)
  /\ {c.tolerance, c.targetSec, c.limitSec, c.solvePoints, c.skipPoints} \subseteq Int
  /\ c.solution \in Seq(ToSet(c.solution))
IsPayload(p) ==
  /\ IsAnswer(p.answer)
  /\ {p.hardStops, p.sharpTurns, p.elapsedSec} \subseteq Int
  /\ p.answers \in Seq(ToSet(p.answers))
  /\ p.reached \in BOOLEAN

-----------------------------------------------------------------------------
(* Points *)

Distance(a, b) == IF a < b THEN b - a ELSE a - b

\* The part num/den of the points, kept within 0..maxPoints and taken to a nearest
\* whole number; at exactly half a point the float decides.
Nearest(maxPoints, num, den) == {k \in 0..maxPoints : 2 * Distance(k * den, maxPoints * num) <= den}
Scale(maxPoints, num, den) ==
  IF num <= 0 THEN {0} ELSE IF num > den THEN {maxPoints} ELSE Nearest(maxPoints, num, den)
\* One division and one product: two grids with as many cells right get the same points.
Rounded(maxPoints, num, den) ==
  LET near == Scale(maxPoints, num, den) IN
  {k \in near : \A j \in near : IF <<maxPoints, num, den>> \in Short THEN k <= j ELSE j <= k}

Result(correct, points) == [correct |-> correct, points |-> points]
\* All or nothing.
Awarded(correct, maxPoints) == {Result(correct, IF correct THEN maxPoints ELSE 0)}
\* A measured quality: correct as soon as it earns a point.
Measured(points) == {Result(p > 0, p) : p \in points}

-----------------------------------------------------------------------------
(* Answers typed, chosen or scanned *)

\* Texts up to case and blanks, numbers by value, nothing equals something else.
SameAnswer(a, b) == a.kind = b.kind /\ a.value = b.value

ExactAnswer(cfg, given, maxPoints) == Awarded(SameAnswer(cfg.answer, given.answer), maxPoints)

NumericAnswer(cfg, given, maxPoints) ==
  IF cfg.answer.kind # "number" \/ given.answer.kind # "number" THEN {}
  ELSE Awarded(Distance(cfg.answer.value, given.answer.value) <= Distance(cfg.tolerance, 0),
               maxPoints)

NormalisedSet(texts) == ToSet(texts) \ {Blank}
MultiSelect(cfg, given, maxPoints) ==
  Awarded(NormalisedSet(cfg.answers) = NormalisedSet(given.answers), maxPoints)

Barcode(cfg, given, maxPoints) == Awarded(cfg.payload = given.payload, maxPoints)

CorrectCells(solution, answers) ==
  {i \in DOMAIN solution : i <= Len(answers) /\ answers[i] = solution[i]}
GridFill(cfg, given, maxPoints) ==
  LET right == Cardinality(CorrectCells(cfg.solution, given.answers))
      cells == Len(cfg.solution)
  IN IF cells = 0 THEN {} ELSE {Result(right = cells, p) : p \in Rounded(maxPoints, right, cells)}

GateMatch(cfg, given, maxPoints) ==
  IF cfg.solution = <<>> THEN {} ELSE Awarded(cfg.solution = given.answers, maxPoints)

-----------------------------------------------------------------------------
(* Sensors, timers and choices *)

\* Each harsh stop or sharp turn costs a twentieth.
Telematics(given, maxPoints) ==
  IF given.hardStops < 0 \/ given.sharpTurns < 0 THEN {}
  ELSE Measured(Scale(maxPoints, 20 - given.hardStops - given.sharpTurns, 20))

Reached(given, maxPoints) == Awarded(given.reached, maxPoints)
RestLock(given) == {Result(given.reached, 0)}

BlindTimer(cfg, given, maxPoints) ==
  IF cfg.targetSec <= 0 \/ given.elapsedSec < 0 THEN {}
  ELSE Measured(Scale(maxPoints, cfg.targetSec - Distance(given.elapsedSec, cfg.targetSec),
                      cfg.targetSec))

Branch(cfg, given) ==
  CASE given.branch = "solve" -> {Result(TRUE, cfg.solvePoints)}
    [] given.branch = "skip" -> {Result(TRUE, cfg.skipPoints)}
    [] OTHER -> {}

TimedTrivia(cfg, given, maxPoints) ==
  IF cfg.limitSec <= 0 THEN {}
  ELSE Awarded(/\ given.elapsedSec <= cfg.limitSec
               /\ SameAnswer(cfg.answer, given.answer), maxPoints)

-----------------------------------------------------------------------------

\* The registry; a type it lacks is refused.
Validate(type, cfg, given, maxPoints) ==
  CASE type = "INPUT_SELECT" -> ExactAnswer(cfg, given, maxPoints)
    [] type = "INPUT_NUMBER" -> NumericAnswer(cfg, given, maxPoints)
    [] type = "MULTI_SELECT" -> MultiSelect(cfg, given, maxPoints)
    [] type = "SCAN_BARCODE" -> Barcode(cfg, given, maxPoints)
    [] type = "TELEMATICS" -> Telematics(given, maxPoints)
    [] type \in {"GEOFENCE_CROSS", "PROXIMITY"} -> Reached(given, maxPoints)
    [] type = "REST_LOCK" -> RestLock(given)
    [] type = "GRID_FILL" -> GridFill(cfg, given, maxPoints)
    [] type = "GATE_MATCH" -> GateMatch(cfg, given, maxPoints)
    [] type = "BLIND_TIMER" -> BlindTimer(cfg, given, maxPoints)
    [] type = "BRANCH" -> Branch(cfg, given)
    [] type = "TIMED_TRIVIA" -> TimedTrivia(cfg, given, maxPoints)
    [] OTHER -> {}

=============================================================================
