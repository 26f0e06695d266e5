SPECIFICATION Spec
CONSTANTS
  Editors = {e1, e2}
  Routes = {r1}
  Names = {n1}
  Legs = {1, 2, 3}
  Spots = {s1}
  t1 = t1
  t2 = t2
  Bindings <- Sent
  Stored = {t1}
  Around <- Places
  Faults = TRUE
  None = None
SYMMETRY Interchangeable
INVARIANTS
  TypeOK
  DenseUnlessOutdated
  CarOnCourse
PROPERTIES
  LegsKeepTheirOrder
