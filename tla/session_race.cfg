\* Two phones of one run racing through an overlapping pair of waypoints, to
\* the finish, and for a sensor task.
SPECIFICATION MCSpec
CONSTANTS
  None = None
  w1 = w1
  w2 = w2
  start = start
  first = first
  both = both
  finish = finish
  Phones = {p1, p2}
  Sessions = {s1}
  Tasks = {t1}
  SensorTasks = {t1}
  Waypoints = {w1, w2}
  Places = {start, first, both}
  FinishPlaces = {both}
  Order <- TwoWaypointOrder
  Inside <- TwoWaypointInside
  Faults = TRUE
SYMMETRY PhonesAndSessions
INVARIANTS
  UnlockedOnce
  CalmTotalIsExact
  IInv
PROPERTIES
  LedgerSpec
  CalmFinishIsFinal
