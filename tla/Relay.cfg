CONSTANTS
  Int32Max = 3
  Int64Max = 7
  Dates <- MCDates
  Doubles <- MCDoubles
  StrtodNormalPrecision <- MCStrtod
  MaxUlps = 3
  Originals <- MCOriginals
  MaxHops = 4
SPECIFICATION Spec
INVARIANTS
  JsonKeepsConversions
  XmlKeepsOrRefuses
PROPERTY Settles
CHECK_DEADLOCK FALSE
