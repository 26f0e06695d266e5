\* A Ping writes back the total it read before a submission.
SPECIFICATION Spec
CONSTANTS
  None = None
  w1 = w1
  w2 = w2
  start = start
  first = first
  both = both
  finish = finish
  Phones = {p1, p2}
  Sessions = {s1}
  Tasks = {t1}
  SensorTasks = {}
  Waypoints = {w1}
  Places = {start, finish}
  FinishPlaces = {finish}
  Order <- OneWaypointOrder
  Inside <- OneWaypointInside
  Faults = FALSE
PROPERTIES
  TotalNeverDrops
