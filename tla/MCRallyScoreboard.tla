------------------------- MODULE MCRallyScoreboard -------------------------
(* A small rally for RallyScoreboard: a task that may be of any type, and  *)
(* for each type payloads that are right, near and wrong.                  *)
EXTENDS RallyScoreboard

CONSTANTS w1, w2    \* words of the answers

Config == [EmptyConfig EXCEPT
  !.answer = Number(5), !.tolerance = -1, !.answers = <<w1, w2>>, !.payload = w1,
  !.solution = <<w1, w2>>, !.targetSec = 4, !.limitSec = 2, !.solvePoints = 3, !.skipPoints = -1]

\* One definition of every type (PROXIMITY is scored as GEOFENCE_CROSS is), one that
\* nobody has configured and a branch that costs points.
Library ==
  [t \in Tasks |-> {[type |-> y, points |-> 3, config |-> Config] : y \in Types \ {"PROXIMITY"}}
                   \cup {[type |-> "BLIND_TIMER", points |-> 3, config |-> EmptyConfig],
                         [type |-> "BRANCH", points |-> -1, config |-> Config]}]

Unchanged == [type |-> None, points |-> None, config |-> None]
Retunes == [y \in Types |->
  IF y = "BRANCH" THEN {[Unchanged EXCEPT !.type = "GEOFENCE_CROSS"]} ELSE {}]

Answering(a) == [EmptyPayload EXCEPT !.answer = a]
Listing(l) == [EmptyPayload EXCEPT !.answers = l]
Sent == [y \in Types |->
  CASE y = "INPUT_SELECT" -> {Answering(Number(5)), Answering(Text(w1))}
    [] y = "INPUT_NUMBER" -> {Answering(Number(6)), Answering(Number(7))}
    [] y = "TIMED_TRIVIA" -> {[Answering(Number(5)) EXCEPT !.elapsedSec = n] : n \in {2, 3}}
    [] y = "MULTI_SELECT" -> {Listing(<<w2, w1>>), Listing(<<w1, Blank>>)}
    [] y = "GATE_MATCH" -> {Listing(<<w1, w2>>), Listing(<<w2, w1>>)}
    [] y = "GRID_FILL" ->
         {Listing(l) : l \in {<<w1, w2>>, <<w1>>, <<w1, Blank>>, <<Blank, w1>>}}
    [] y = "SCAN_BARCODE" -> {EmptyPayload, [EmptyPayload EXCEPT !.payload = w1]}
    [] y = "TELEMATICS" ->
         {[EmptyPayload EXCEPT !.hardStops = n, !.sharpTurns = 5] : n \in {-1, 0, 5}}
    [] y = "BLIND_TIMER" -> {[EmptyPayload EXCEPT !.elapsedSec = n] : n \in {4, 5, 9}}
    [] y = "BRANCH" -> {[EmptyPayload EXCEPT !.branch = b] : b \in {"solve", "skip", Blank}}
    [] OTHER -> {EmptyPayload, [EmptyPayload EXCEPT !.reached = TRUE]}]

Interchangeable == Permutations(Sessions) \cup Permutations(Calls)

=============================================================================
