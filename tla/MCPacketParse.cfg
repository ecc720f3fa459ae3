SPECIFICATION ParseSpec
CONSTANTS
    HeadLen = 2
    Limit = 4
    Bodies <- MCBodies
    MaxBuff = 5
    MaxPackets = 4
    MaxDatagrams = 2
INVARIANTS
    CutsDoNotMatter
    StopsForCause
    DatagramsAreAlone
    
CHECK_DEADLOCK FALSE
