SPECIFICATION Spec
CONSTANTS
  tab1 = tab1
  tab2 = tab2
  plain = plain
  other = other
  long = long
  Absent = Absent
  Tabs <- TwoTabs
  Texts <- ThreeTexts
  TooLong <- LongTexts
  ScriptRows <- OneRow
  MaxId = 5
  BlockSize = 2
  MaxInserts = 4
  MaxRestarts = 1
SYMMETRY Symmetry
INVARIANTS FreshIds
PROPERTIES ChangedByOwnForm DeletedStaysDeleted ImplementsTable
