SPECIFICATION MCSpec
CONSTANTS
    n1 = n1
    n2 = n2
    n3 = n3
    Nodes <- MCNodes
    Addrs <- MCAddrs
    MaxCrashes = 1
    None = None
INVARIANTS TypeOK  
PROPERTIES LeaversRemoved SpawnEnds  
CHECK_DEADLOCK FALSE
