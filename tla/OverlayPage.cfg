SPECIFICATION PageSpec
CONSTANTS
  Modals <- TwoModals
  Markups <- NoneOrBoth
  Home <- Nested
  MaxOpens = 3
  MaxHides = 2
INVARIANTS ModalsAsOpened ScrollLockKept
CHECK_DEADLOCK FALSE
