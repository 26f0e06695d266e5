\* Two organizers, two cars with one person in each, one screen.
SPECIFICATION Spec
CONSTANTS
  None = None
  Marker = Marker
  OrganizerRole = None
  AdminRole = admin
  bob = bob
  zoe = zoe
  org = org
  carA = carA
  carB = carB
  People = {bob, zoe, org}
  Cars = {carA, carB}
  Sessions = {s1, s2}
  Screens = {w1}
  Login <- Logins
  Roster <- Rosters
  Patches <- PinEdits
SYMMETRY RunsAlike
INVARIANTS
  TypeOK
  OpenedByPublish
  CarsKeptApart
PROPERTIES
  PublishHolds
