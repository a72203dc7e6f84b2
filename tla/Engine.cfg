CONSTANTS
    d1 = d1
    d2 = d2
    i1 = i1
    i2 = i2
    None = None
    Deployments = {d1}
    Agents = {d1}
    Engines = {i1, i2}
    Facts <- WeakThenClear
    ParameterSets <- SomeParameters
    ChangeEvents <- SomeChanges
    Licenses = {"unpriced"}
    PeriodStart = 1
    PeriodEnd = 5
    MaxEdits = 3
    MaxRuns = 2
    MaxCrashes = 1
SPECIFICATION FairSpec
INVARIANTS
    TreatmentFromLog
    PricedFromStamp
    VersionsContiguous
    ReportsAreSnapshots
    IssuedIsReadable
    UpdatesAccounted
PROPERTY
    RunsEnd
CHECK_DEADLOCK FALSE
