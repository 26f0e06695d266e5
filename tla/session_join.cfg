\* Two phones, two runs of the car: joining, answering, finishing and joining
\* again, on a route without waypoints where every fix is plausible.
SPECIFICATION Spec
CONSTANTS
  None = None
  w1 = w1
  w2 = w2
  start = start
  first = first
  both = both
  finish = finish
  Phones = {p1, p2}
  Sessions = {s1, s2}
  Tasks = {t1}
  SensorTasks = {}
  Waypoints = {}
  Places = {start}
  FinishPlaces = {}
  Order <- OneWaypointOrder
  Inside <- OneWaypointInside
  Faults = TRUE
SYMMETRY PhonesAndSessions
INVARIANTS
  TypeOK
  CrewNotSplit
  NeverOverCredited
