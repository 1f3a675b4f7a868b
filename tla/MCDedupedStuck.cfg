SPECIFICATION DedupedFairSpec
CONSTANTS
  Caller = {t1, t2, t3}
  MaxSent = 0
  MaxCalls = 1
PROPERTY CallersAreAnswered
CHECK_DEADLOCK FALSE
