CONSTANTS
    u1 = u1  u2 = u2  w1 = w1  k1 = k1  k2 = k2  None = None
    Events <- SharedEvents
    Users = {u1, u2}
    WorkItems = {w1}
    GaugeMeters = {"seats_active"}
    DayLength = 3
    Capacity = 2
    Workers = {k1, k2}
    Namespaces = {"crm", "hr"}
    RosterItems <- Entries
    MaxChanges = 2
    MaxCrashes = 1
SPECIFICATION FairSpec
PROPERTIES
    ImplementsAggregates
    EveryEventFolded
CHECK_DEADLOCK FALSE
