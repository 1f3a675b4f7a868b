CONSTANTS
  o1 = o1
  o2 = o2
  d1 = d1
  d2 = d2
  g1 = g1
  g2 = g2
  None = None
  Name = {"n"}
  ObjectId = {o1}
  Osd = {d1}
  Chunk = {0}
  Fragment = {0}
  Timestamp = {1}
  MaxEpoch = 2
  MaxVersion = 0
  Writer = {"w"}
  Collector <- MCCollector
  Cleaner = {"c"}
  MinFragments = 1
  MaxAttempts = 1
SPECIFICATION FairSpec
CHECK_DEADLOCK FALSE
INVARIANT LinkedFragmentsWrittenOnceExist
INVARIANT NoUntrackedGarbage
INVARIANT LatestEpochIsValid
INVARIANT CollectedEpochsAreClosed
PROPERTY ListedKeysGetDeleted
PROPERTY ClosedEpochsGetCollected
