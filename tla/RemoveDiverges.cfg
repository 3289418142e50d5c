SPECIFICATION Spec
CONSTANTS
    n1 = n1
    n2 = n2
    n3 = n3
    c1 = c1
    c2 = c2
    a = a
    k = k
    v = v
    w = w
    None = None
    NewId = NewId
    Names = {a}
    Keys = {k}
    Values = {v, w}
    Clients = {c1}
    Nodes <- MCNodes
    Quorums <- MCQuorums
    Home <- MCHomeOfOne
    Requests <- InsertRemove
    MaxCalls = 2
    MaxTerm = 1
    MaxReplaced = 0
INVARIANTS
    ReplicasAgree
CHECK_DEADLOCK FALSE
