SPECIFICATION BothSpec
CONSTANTS
  Agent = {m, c}
  Maintenance = m
  MaxMsgs = 3
  MaxBatch = 2
  MaxInt32 = 3
  MaxLate = 1
  MaxFailures = 1
  Caller = {t1, t2, t3}
  MaxSent = 2
  MaxCalls = 2
INVARIANT DeliveryInv
INVARIANT HandledOnceInOrder
INVARIANT NeverTooFarOff
INVARIANT AnswersAreFresh
INVARIANT WaitersAreKnownOnce
PROPERTY ImplementsQueue
PROPERTY MessagesGetThrough
