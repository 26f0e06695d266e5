\* Two requests at once, three alerts; calls may die halfway.
SPECIFICATION MCSpec
CONSTANTS
  None = None
  Callers = {c1, c2}
  Alerts = {a1, a2, a3}
  Faults = TRUE
SYMMETRY CallersAndAlerts
INVARIANTS
  TypeOK
  ShownWasStored
  TroubleWasReported
  CalmAgrees
