CONSTANTS
    e1 = e1  e2 = e2  e3 = e3  e4 = e4
    Events = {e1, e2}
    MAX_BATCH = 2
    MaxRetries = 1
    Faults = {"outage"}
SPECIFICATION Spec
INVARIANT SpooledSurvive
CHECK_DEADLOCK FALSE
