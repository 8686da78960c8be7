CONSTANTS
    o1 = o1
    o2 = o2
    k1 = k1
    k2 = k2
    e1 = e1
    e2 = e2
    e3 = e3
    c1 = c1
    c2 = c2
    h1 = h1
    h2 = h2
    Undefined = Undefined
    Aggregate = {o1, o2}
    Key = {k1, k2}
    Event = {e1, e2}
    MaxEvents = 2
    Timestamp = {1, 2}
    Call = {c1}
    Handler = {h1, h2}
    Settlements = {"success", "failure", "cancel"}
    Faults = {"db", "crash"}
    MaxDay = 1
SPECIFICATION Spec
SYMMETRY PaymentSymmetry
INVARIANTS TypeOK NewestEventNamesStatus NoFalseCompletion CallbackFindsRow
PROPERTY ImplementsLedger
