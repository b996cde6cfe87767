SPECIFICATION ListSpec
CONSTANTS
  tab1 = tab1
  plain = plain
  hit = hit
  Absent = Absent
  ListTabs <- OneTab
  Texts <- TwoTexts
  NameHits <- HitText
  IdHits <- TwoIds
  ScriptRows <- FourRows
  MaxId = 5
  MaxInserts = 3
  PageUnit = 2
  PageSize = 2
  MaxWrites = 3
INVARIANTS ListTypeOK NumbersAreRanks LinksLeadToRows
