\* Two events, two cars each, the first row of the sheet retyped.
SPECIFICATION SheetSpec
CONSTANTS
  c1 = c1
  c2 = c2
  ann = ann
  bob = bob
  mailA = mailA
  mailB = mailB
  tel = tel
  r1 = r1
  r2 = r2
  e1 = e1
  e2 = e2
  Events = {e1, e2}
  Routes <- RouteNames
  Addresses = {mailA, mailB}
  Numbers = {tel}
  Colon = Colon
  Pipe = Pipe
  Cars <- Forms
  Typed <- Rows
  MaxRows = 1
  Before <- InOrder
  Null = Null
INVARIANT
  OneSetOfRules
PROPERTY
  ComesBack
