CONSTANTS
    e1 = e1
    e2 = e2
    i1 = i1
    i2 = i2
    r1 = r1
    r2 = r2
    p1 = p1
    Aggregate = {p1}
    Event = {e1, e2}
    Instance <- OneInstance
    Run = {r1}
    Host <- OneRunOneHost
    Timestamp = {1}
    BatchSize = 2
    MaxRetries = 2
    Faults = {}
    MaxMessages = 1
    MaxStops = 0
    MaxResets = 0
SPECIFICATION FairSpec
PROPERTY EventsNeverLost
