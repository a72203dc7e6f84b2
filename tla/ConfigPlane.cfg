CONSTANTS
    Procs = {p1, p2}
    Workloads <- All
    Seed <- Registered
    MaxRequests = 3
    MaxCrashes = 1
    None = None
SPECIFICATION FairSpec
INVARIANTS
    RetriesAgree
    VersionsGapless
    LicensesTile
    RosterAnswersTrue
PROPERTY
    EveryRequestEnds
CHECK_DEADLOCK FALSE
