CONSTANTS
    o1 = o1
    o2 = o2
    k1 = k1
    k2 = k2
    e1 = e1
    e2 = e2
    e3 = e3
    c1 = c1
    c2 = c2
    h1 = h1
    h2 = h2
    Undefined = Undefined
    Aggregate = {o1}
    Key = {k1}
    Event = {e1}
    MaxEvents = 1
    Timestamp = {1}
    Call = {c1, c2}
    Handler = {h1}
    Settlements = {"success"}
    Faults = {}
    MaxDay = 0
SPECIFICATION Spec
INVARIANT ReplayReturnsLink
