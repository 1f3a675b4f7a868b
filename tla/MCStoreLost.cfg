CONSTANTS
  o1 = o1
  o2 = o2
  d1 = d1
  d2 = d2
  g1 = g1
  g2 = g2
  None = None
  Name = {"n"}
  ObjectId = {o1}
  Osd <- MCOsd
  Chunk = {0}
  Fragment = {0}
  Timestamp = {1}
  MaxEpoch = 1
  MaxVersion = 1
  Writer = {"w"}
  Collector = {g1}
  Cleaner = {"c"}
  MinFragments = 1
  MaxAttempts = 3
SPECIFICATION Spec
CHECK_DEADLOCK FALSE
INVARIANT LinkedFragmentsExist
