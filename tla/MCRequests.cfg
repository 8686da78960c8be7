CONSTANTS
    o1 = o1
    o2 = o2
    k1 = k1
    k2 = k2
    e1 = e1
    c1 = c1
    c2 = c2
    h1 = h1
    Undefined = Undefined
    Aggregate = {o1, o2}
    Key = {k1, k2}
    Event = {}
    MaxEvents = 0
    Timestamp = {}
    Call = {c1, c2}
    Handler = {}
    Settlements = {"success"}
    Faults = {"db", "crash"}
    MaxDay = 1
    Amount <- MCAmount
    MaxInt = 2
SPECIFICATION ApiSpec
SYMMETRY RequestSymmetry
INVARIANTS ApiTypeOK RecordedAmountIsCharged KnownLinksHaveRows OneLinkPerOrder
