CONSTANTS
    a = a
    b = b
    Order <- MCOrder
    Rest <- MCRest
    Base = 2
    Shift = 50
    MaxSafe = 400
    None = None
    NaN = NaN
SPECIFICATION Spec
INVARIANTS InfoIsAlike CallbackFindsPayment
PROPERTY CancelsAlike
CHECK_DEADLOCK FALSE
