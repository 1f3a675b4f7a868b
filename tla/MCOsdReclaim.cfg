SPECIFICATION ReclaimSpec
CONSTANTS
  Agent = {m, c}
  Maintenance = m
  MaxMsgs = 3
  MaxBatch = 2
  MaxInt32 = 3
  MaxLate = 0
  MaxFailures = 0
  MaxClaims = 1
INVARIANT MarkedWereHandled
