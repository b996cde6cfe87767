SPECIFICATION CookieSpec
CONSTANTS
  r1 = r1  r2 = r2  r3 = r3  first = first
  Calls <- ThreeRequests
  Tokens <- Origins
  FirstLogin = first
  PoolSize = 2
  Rotates = TRUE
  Returned <- BothReturned
  LoginCookies <- AllLogins
  Kinds <- PagesOnly
  Faults <- NoFaults
  Lapsing <- NoneLapse
  Empty = Empty
  None = None
INVARIANT
  NoForcedLogout
CHECK_DEADLOCK FALSE
