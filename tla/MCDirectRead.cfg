SPECIFICATION Spec
CONSTANTS
    Thread = {t1, t2}
    Osd <- const_Osd
    Blobs <- const_Blobs
    Conn = {c1, c2}
    NoConn = NoConn
    Infos <- const_Infos
    Plans <- const_Plans
    Capacities = {1}
    InitCapacity = 2
    MaxFailures = 1
    MaxReads = 1
    MaxRestarts = 1
INVARIANT ReadsAreRight
INVARIANT ConnectionsHaveOneOwner
INVARIANT PooledConnectionsAreIdle
INVARIANT PoolsFitCapacity
INVARIANT ReadInv
SYMMETRY ThreadSymmetry
CHECK_DEADLOCK FALSE
