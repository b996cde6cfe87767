SPECIFICATION FairSpec
CONSTANTS
  c1 = c1  c2 = c2  c3 = c3
  t1 = t1  t2 = t2
  Calls <- ThreeCalls
  Tokens <- TwoTokens
  PoolSize = 2
  Rotates = TRUE
  Empty = Empty
  None = None
INVARIANTS
  EntryHasWaiter
  OneRequestUnlessGivenUp
  SpentOnlyAfterReturn
  AnswerIsForOwnToken
PROPERTIES
  EveryCallReturns
  ImplementsContract
CHECK_DEADLOCK FALSE
