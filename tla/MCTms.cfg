SPECIFICATION FairSpec
CONSTANTS
    LogicIds <- MCLogicIds
    WorkIds <- MCWorkIds
    Msgs = {m1, m2, m3}
    CLOSE = CLOSE
CHECK_DEADLOCK FALSE
INVARIANTS
    RunOnce
    
PROPERTIES
    
    CloseReturns
    PushedIsRun
