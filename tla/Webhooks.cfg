CONSTANTS
    h1 = h1  s1 = s1  s2 = s2  v1 = v1  None = None
    Hooks = {h1}
    Workers = {s1, s2}
    Verifiers = {v1}
    RETRY_SCHEDULE <- OneRetry
    Limit = 2
    MaxEmits = 2
    MaxCrashes = 1
SPECIFICATION FairSpec
INVARIANTS
    TypeOK
    TriesAccounted
    
PROPERTIES
    EndedStaysEnded
    EveryDeliveryEnds
CHECK_DEADLOCK FALSE
