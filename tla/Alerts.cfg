CONSTANTS
    d1 = d1
    m1 = m1
    m2 = m2
    Deployments = {d1}
    Monitors = {m1, m2}
    MaxScans = 3
    MaxChanges = 3
    MaxCrashes = 1
SPECIFICATION MonSpec
INVARIANTS
    QueuedIsAnnounced
CHECK_DEADLOCK FALSE
