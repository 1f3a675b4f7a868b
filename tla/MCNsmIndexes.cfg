CONSTANTS
  o1 = o1
  o2 = o2
  d1 = d1
  d2 = d2
  d3 = d3
  n1 = n1
  n2 = n2
  None = None
  Name = {"n"}
  ObjectId <- MCObjectId
  Osd <- MCOsd
  Chunk = {0}
  Fragment = {0, 1}
  Timestamp = {1}
  MaxEpoch = 1
  MaxVersion = 1
  Node <- MCNode
  Policy <- MCPolicy
  Size = {1, 2}
  MaxPreset = 0
VIEW IndexView
SYMMETRY MCSymmetry
SPECIFICATION IndexSpec
INVARIANT IndexTypeOK
INVARIANT DeviceObjectsMatch
INVARIANT BucketsMatch
INVARIANT SizesMatch
INVARIANT NamesMatchObjects
INVARIANT FragmentVersionsBounded
PROPERTY VersionsAndEpochsGrow
