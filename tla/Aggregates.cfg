CONSTANTS
    u1 = u1
    w1 = w1
    None = None
    Events <- SomeEvents
    Users = {u1}
    WorkItems = {w1}
    GaugeMeters = {"seats_active"}
    DayLength = 3
    Capacity = 3
SPECIFICATION Spec
INVARIANTS
    StatsExact
    ActivityExact
    CountersExact
    ItemsExact
CHECK_DEADLOCK FALSE
