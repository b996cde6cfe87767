SPECIFICATION Spec
CONSTANTS
  Toggles = {1, 2, 3}
  Popups = {1, 2}
  MaxWaiting = 3
  Layouts <- Pages
  Folds = {1, 2, 3}
  Disclosures = {1}
  Boxes = {1, 2}
  Radios = {3, 4}
  Tops = {0, 20, 50, 90}
  ListTops <- Lists
  MaxTop = 90
  MaxListeners = 5
  Days = {1, 2, 3, 4}
  Today = 3
  Months = {1, 2}
  MaxSets = 3
INVARIANTS WidgetsTold LinksOfPlace RangeAsClicked
PROPERTY EventsTakeEffect
CHECK_DEADLOCK FALSE
