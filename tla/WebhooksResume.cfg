CONSTANTS
    h1 = h1  s1 = s1  s2 = s2  v1 = v1  None = None
    Hooks = {h1}
    Workers = {s1}
    Verifiers = {v1}
    RETRY_SCHEDULE <- FullSchedule
    Limit = 100
    MaxEmits = 1
    MaxCrashes = 0
SPECIFICATION FairSpec
PROPERTY ReverifyResumes
CHECK_DEADLOCK FALSE
