CONSTANTS
    d1 = d1  d2 = d2  p1 = p1  p2 = p2  s1 = s1  s2 = s2  s3 = s3
    Keys <- SomeKeys
    Deployments = {d1, d2}
    Environment = "production"
    Procs = {p1, p2}
    Slots = {s1, s2, s3}
    ProcOf <- TwoProcesses
    Batches <- SomeBatches
    WindowLength = 2
    DefaultRate = 1
    Rates = {2}
    InitialQuota = 2
    Quotas = {1}
    MaxTime = 2
    MaxMonths = 2
    MaxRequests = 3
    MaxEdits = 1
    None = None
SYMMETRY SameProcess
SPECIFICATION Spec
INVARIANTS
    RateBounded
    QuotaBounded
    AuthorizedOnly
CHECK_DEADLOCK FALSE
