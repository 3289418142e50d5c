SPECIFICATION Spec
CONSTANTS
    Terms <- MCTerms
    MaxIndex = 3
    NoLogId = NoLogId
INVARIANTS
    TypeOK
    Contiguous
PROPERTIES
    CommittedKept
    ImplementsRaftLog
