CONSTANTS
    o1 = o1
    k1 = k1
    e1 = e1
    e2 = e2
    c1 = c1
    h1 = h1
    h2 = h2
    i1 = i1
    i2 = i2
    r1 = r1
    r2 = r2
    Undefined = Undefined
    Aggregate = {o1}
    Key = {k1}
    Event = {e1, e2}
    MaxEvents = 2
    Timestamp = {1, 2}
    Call = {c1}
    Handler = {h1, h2}
    Settlements = {"success", "cancel"}
    PaymentFaults = {"crash"}
    MaxDay = 0
    Instance = {i1}
    Server = i1
    Run = {r1}
    Host <- OneRun
    BatchSize = 1
    MaxRetries = 2
    PublisherFaults = {}
    MaxMessages = 4
    MaxStops = 2
    MaxResets = 1
SPECIFICATION FairSystemSpec
INVARIANT FewDuplicates
PROPERTIES CompletedReachesKafka CallbackReachesKafka
