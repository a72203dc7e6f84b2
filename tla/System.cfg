CONSTANTS
    e1 = e1  e2 = e2  e3 = e3
    None = None
    Events = {e1, e2, e3}
    Malformed = {e1}
    MAX_BATCH = 2
    MaxRetries = 1
    Faults = {"crash", "outage"}
SPECIFICATION SysFairSpec
INVARIANTS
    AnsweredIsDone
    AnsweredIsStored
PROPERTIES
    CallsReturn
    TrackedIsCounted
CHECK_DEADLOCK FALSE
