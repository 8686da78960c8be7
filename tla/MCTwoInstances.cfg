CONSTANTS
    e1 = e1
    e2 = e2
    i1 = i1
    i2 = i2
    r1 = r1
    r2 = r2
    p1 = p1
    Aggregate = {p1}
    Event = {e1, e2}
    Instance <- TwoInstances
    Run = {r1, r2}
    Host <- TwoHosts
    Timestamp = {1}
    BatchSize = 2
    MaxRetries = 2
    Faults = {"db", "kafka"}
    MaxMessages = 1
    MaxStops = 1
    MaxResets = 1
SPECIFICATION Spec
SYMMETRY EventSymmetry
INVARIANTS TypeOK PublishedWasSent RetryBudget
PROPERTY ImplementsRelay
