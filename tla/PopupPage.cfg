SPECIFICATION Spec
CONSTANTS
  Triggers = {1, 2, 3}
  Wrapped = {1, 2}
  Compact = {2}
  Subs <- SubMenus
  Overflows = TRUE
  Drops = {1, 2}
  Items <- ItemsOfDrops
  Scaling = {1}
  Default = "md"
  NoItem = "none"
  Helps = {1, 2}
  Pickers = {1, 2}
  Tips = {1, 2}
  MaxTimers = 2
  Offsets = {0, 16, 400, 640, 1180, 2300}
  Sizes = {40, 80, 600}
  Windows <- WindowSizes
INVARIANTS OneOpen WidgetsAgree PopupHoldsFocus ClicksObeyed
CHECK_DEADLOCK FALSE
