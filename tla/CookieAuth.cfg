SPECIFICATION CookieSpec
CONSTANTS
  r1 = r1  r2 = r2  r3 = r3  first = first
  Calls <- ThreeRequests
  Tokens <- Origins
  FirstLogin = first
  PoolSize = 1
  Rotates = TRUE
  Returned <- BothReturned
  LoginCookies <- AllLogins
  Kinds <- AllKinds
  Faults <- MostFaults
  Lapsing <- ReadCookies
  Empty = Empty
  None = None
SYMMETRY Symmetry
INVARIANTS
  CookieTypeOK
  SpentAfterExpiry
  CookiesBackOnlyByOverlap
  OneGenerationInJar
CHECK_DEADLOCK FALSE
