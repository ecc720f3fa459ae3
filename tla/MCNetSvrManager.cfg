SPECIFICATION FairSpec
CONSTANTS
    Keys = {k1}
    MaxServers = 4
    MaxTasks = 3
INVARIANTS
    OpenIsListed
    ListedHasSocket
PROPERTIES
    
    CloseTakesEffect
CHECK_DEADLOCK FALSE
