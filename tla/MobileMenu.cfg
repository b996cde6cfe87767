SPECIFICATION Spec
CONSTANTS
  MaxOpens = 3
  MaxCloses = 3
  MaxPanels = 2
INVARIANTS SettlesAsAsked InertUnderMenu
PROPERTY RequestsEnd
CHECK_DEADLOCK FALSE
