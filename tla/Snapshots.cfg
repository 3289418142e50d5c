SPECIFICATION SnapFairSpec
CONSTANTS
    MaxLog = 4
    MaxBuilt = 3
    Memberships <- MCMemberships
    NoSnapshot = NoSnapshot
INVARIANTS
    
    SnapshotCovered
    SnapshotIdsDiffer
PROPERTIES
    SnapshotNeverOlder
    SnapshotsEnd
CHECK_DEADLOCK FALSE
