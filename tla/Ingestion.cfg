CONSTANTS
    p1 = p1  p2 = p2  p3 = p3  d1 = d1
    Ingestors = {p1, p2, p3}
    Sandbox = {p3}
    Deployments = {d1}
    Requests <- MixedRequests
    Horizon = 0
    Skew = 0
    MaxBatch = 2
    Pausable = {d1}
    Declarable = {d1}
    MaxRequests = 2
    MaxTime = 1
SPECIFICATION FairSpec
INVARIANTS
    TypeOK
    OneRowPerFact
    AcksDurable
    AcceptedOnce
PROPERTIES
    StatusNeverRegresses
    EveryRequestEnds
    ImplementsWitnessStore
CHECK_DEADLOCK FALSE
