SPECIFICATION MCSpec
CONSTANTS
  Organizers = {o1, o2}
  ann = ann
  bob = bob
  People = {ann, bob}
  Phones = {ann}
  Vehicles = {v1}
  Codes = {c1}
  Generations = 5
  Tasks = {t1}
  Lists <- CrewLists
  Patches <- RosterEdits
  Reports = {"breakdown"}
  None = None
  Nobody = Nobody
  Keep = Keep
SYMMETRY Interchangeable
INVARIANTS
  RunIsCrewed
  CrewIsOneList
PROPERTIES
  ResultsSurvive
  StatusStands
