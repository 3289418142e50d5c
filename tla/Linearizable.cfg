SPECIFICATION SpecFromN1
CONSTANTS
    n1 = n1
    n2 = n2
    n3 = n3
    c1 = c1
    c2 = c2
    a = a
    k = k
    v = v
    w = w
    None = None
    NewId = NewId
    Names = {a}
    Keys = {k}
    Values = {v, w}
    Clients = {c1, c2}
    Nodes <- MCNodes
    Quorums <- MCQuorums
    Home <- MCHome
    Requests <- InsertRead
    MaxCalls = 2
    MaxTerm = 1
    MaxReplaced = 1
INVARIANTS
    TypeOK
    
    ReplicasAgree
PROPERTY Linearizability
SYMMETRY Symmetry
CHECK_DEADLOCK FALSE
