CONSTANTS
    e1 = e1
    e2 = e2
    i1 = i1
    i2 = i2
    r1 = r1
    r2 = r2
    p1 = p1
    Aggregate = {p1}
    Event = {e1, e2}
    Instance <- OneInstance
    Run = {r1, r2}
    Host <- TwoRunsOneHost
    Timestamp = {1}
    BatchSize = 1
    MaxRetries = 2
    Faults = {"db", "kafka"}
    MaxMessages = 1
    MaxStops = 2
    MaxResets = 0
INVARIANTS OneBatchPerInstance DrainedBeforeClose NeverResent
SPECIFICATION FairSpec
PROPERTIES EventuallySettled DrainTerminates
