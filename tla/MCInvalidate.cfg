SPECIFICATION Spec
CONSTANTS
    Client = {c1, c2}
    NoClient = NoClient
    Object = {"o"}
    Layouts <- const_Layouts
    CacheLayout <- const_CacheLayout
    AlbaLevels <- const_AlbaLevels
    Requests <- const_Requests
    LocalCache <- const_LocalCache
    Capacity = 2
    MaxFailures = 0
    OnlyQuiet = FALSE
    MaxCalls = 3
    MaxWrites = 2
    MaxEvents = 1
    Word = 2
    Block = 1
INVARIANT InvalidationsAreSeen
CHECK_DEADLOCK FALSE
SYMMETRY ClientSymmetry
