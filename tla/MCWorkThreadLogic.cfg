SPECIFICATION MCFairSpec
CONSTANTS
    PluginIds = {p1}
    f1 = f1
    f2 = f2
    Frames = {f1, f2}
    Kinds <- MCKinds
    MaxInstances = 2
INVARIANTS
    PostedOnce
    ArmedIsListed
    DeletedIsNotPosted
PROPERTIES
    RefusedWhileCreated
    
    
CHECK_DEADLOCK FALSE
