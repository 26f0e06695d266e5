\* Every handler runs to its end: what the crew is eventually given and told.
SPECIFICATION FairSpec
CONSTANTS
  None = None
  w1 = w1
  w2 = w2
  start = start
  first = first
  both = both
  finish = finish
  Phones = {p1, p2}
  Sessions = {s1, s2}
  Tasks = {}
  SensorTasks = {}
  Waypoints = {w1}
  Places = {first, finish}
  FinishPlaces = {finish}
  Order <- OneWaypointOrder
  Inside <- OneWaypointInside
  Faults = FALSE
INVARIANT
  NothingForgotten
PROPERTIES
  FinishedGetsVoucher
  VisitAnnounced
