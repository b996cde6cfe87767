SPECIFICATION Spec
CONSTANTS
  t1 = t1  t2 = t2  t3 = t3
  b1 = b1  b2 = b2  u1 = u1  u2 = u2  home = home  en = en
  Tabs <- ThreeTabs
  Browsers <- TwoBrowsers
  BrowserOf <- TabBrowser
  Users <- TwoUsers
  UserOf <- TabUser
  Pages <- OnePage
  Languages <- OneLanguage
  None = None
INVARIANTS
  TokensOfOwnUser
  SessionEndsWithLogin
  CallbackFailsOnlyByOverlap
PROPERTY
  LanguageKept
CHECK_DEADLOCK FALSE
