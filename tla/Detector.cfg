SPECIFICATION FairSpec
CONSTANTS
    v1 = v1
    v2 = v2
    l1 = l1
    Voters <- TwoVoters
    Learners <- OneLearner
    HEARTBEAT_DEADLINE = 1
    QUORUM_DEADLINE = 2
    MaxFailures = 1
    MaxElections = 1
    Leavers <- OneLeaver
    None = None
INVARIANT TypeOK
PROPERTIES OverdueUnanswered GivesUpUnanswered  
CHECK_DEADLOCK FALSE
