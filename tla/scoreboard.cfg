\* Three runs, two requests at once, a task of any type that is retuned.
\* It may stop: every run over, and only a finite library to author.
SPECIFICATION Spec
CONSTANTS
  Tasks = {t1}
  w1 = w1
  w2 = w2
  Blank = Blank
  None = None
  Short = {}
  Sessions = {s1, s2, s3}
  Authors = {a1}
  Calls = {k1, k2}
  Drafts <- Library
  Patches <- Retunes
  Attempts <- Sent
  MaxTime = 1
SYMMETRY Interchangeable
INVARIANTS
  TypeOK
  AwardsAreFair
  BoardIsRanked
PROPERTIES
  NoSetback
CHECK_DEADLOCK FALSE
