SPECIFICATION WatchFairSpec
CONSTANTS
    m1 = m1
    m2 = m2
    r1 = r1
    Memberships <- MCMemberships
    Readers <- MCReaders
    MaxVersion = 3
INVARIANTS WatchTypeOK OneValue
PROPERTY LastMembershipRetained
CHECK_DEADLOCK FALSE
