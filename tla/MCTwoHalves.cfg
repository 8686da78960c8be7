CONSTANTS
    o1 = o1
    k1 = k1
    e1 = e1
    e2 = e2
    c1 = c1
    h1 = h1
    h2 = h2
    i1 = i1
    i2 = i2
    r1 = r1
    r2 = r2
    Undefined = Undefined
    Aggregate = {o1}
    Key = {k1}
    Event = {e1, e2}
    MaxEvents = 2
    Timestamp = {1, 2}
    Call = {c1}
    Handler = {h1, h2}
    Settlements = {"success", "failure"}
    PaymentFaults = {"crash"}
    MaxDay = 0
    Instance = {i1, i2}
    Server = i1
    Run = {r1, r2}
    Host <- RunOfEach
    BatchSize = 2
    MaxRetries = 2
    PublisherFaults = {"kafka"}
    MaxMessages = 1
    MaxStops = 1
    MaxResets = 0
SPECIFICATION SystemSpec
SYMMETRY SystemSymmetry
INVARIANTS MessagesAreTrue NoOvertaking SettlementOnItsWay
PROPERTY ImplementsAnnouncer
