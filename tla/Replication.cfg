SPECIFICATION RepFairSpec
CONSTANTS
    Sizes <- MCSizes
    Overhead = 1
    Limit = 4
    MaxBatch = 2
    SnapshotEvery = 3
    Keep = 1
    MaxLog = 5
    MaxLost = 2
    Nothing = Nothing
INVARIANTS RepTypeOK FollowerHasPrefix
 
CHECK_DEADLOCK FALSE
