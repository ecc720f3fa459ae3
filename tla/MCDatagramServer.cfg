CONSTANTS
    Endpoints = {e1, e2}
    NoEndpoint = NoEndpoint
    MaxIds = 2
    MaxDatagrams = 3
    MaxCloses = 2
SPECIFICATION FairSpec
INVARIANTS
    
    ToldInOrder
    
    
    
PROPERTIES
    ServerCloseEndsAll
CHECK_DEADLOCK FALSE
