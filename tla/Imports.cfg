CONSTANTS
    j1 = j1
    j2 = j2
    r1 = r1
    r2 = r2
    None = None
    Jobs = {j1, j2}
    Runners = {r1, r2}
    Keys = {"a", "b", "c"}
    File <- MixedFiles
    MaxRuns = 3
    Mortal = {r1}
SPECIFICATION Spec
INVARIANTS
    CountsTruthful
    ReportExists
CHECK_DEADLOCK FALSE
