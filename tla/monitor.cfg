\* A car with two tasks, an alert, and two requests at a time.
SPECIFICATION FairSpec
CONSTANTS
  Handlers = {h1, h2}
  Alerts = {a1}
  Size = 2
  Library = 2
  Awards = {0, 1}
  Capacity = 2
  None = None

  
PROPERTY
  CatchesUp
