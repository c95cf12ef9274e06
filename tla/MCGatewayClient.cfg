\* Two concurrent calls sharing a token.
SPECIFICATION ClientFairSpec
CONSTANTS
  c1 = c1  c2 = c2
  None = None
  Calls <- MCCalls
  Lifetime = 3
  Buffer = 1
  MaxTime = 5
INVARIANTS
  ClientInv
  RetryIsFresh
  AtMostOnce
PROPERTIES
  SentInTime
  EveryCallEnds
\* Every call may have ended and the clock be at its bound.
CHECK_DEADLOCK FALSE
