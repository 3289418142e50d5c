SPECIFICATION WatchFairSpec
CONSTANTS
    m1 = m1
    m2 = m2
    r1 = r1
    Memberships <- MCMemberships
    Readers <- MCReaders
    MaxVersion = 2
PROPERTIES RoundEnds
CHECK_DEADLOCK FALSE
