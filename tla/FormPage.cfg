SPECIFICATION Spec
CONSTANTS
  Alphabet <- Typeable
  MaxTyped = 5
  Pasted <- LongTexts
  Elements <- FormElements
  Tables <- FormTables
  Texts <- FewTexts
  MaxGestures = 3
  MaxRequests = 2
  ListPages = {1, 2}
  Ids = {1, 2}
  NoId = 0
INVARIANTS RulesAsDescribed SavesAsAsked ListRequests
PROPERTIES ValidatedAsExpected NotAskedAgain
CHECK_DEADLOCK FALSE
