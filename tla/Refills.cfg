\* One order and every handler; three orders and two jars; two orders, a jar and
\* a checkout.
SPECIFICATION Spec
CONSTANTS
    o1 = o1
    o2 = o2
    o3 = o3
    j1 = j1
    j2 = j2
    a1 = a1
    a2 = a2
    k1 = k1
    Orders = {o1, o2, o3}
    Payments = {p1, p2}
    Jars = {j1, j2}
    Requests = {r1, r2, r3}
    Appointments = {a1, a2}
    ClientKeys = {k1}
    Ops = {"create", "cancel", "redeem", "pay", "callback", "decline", "deliver", "missing"}
    DeclineThenCharge = TRUE
    InitStock = 1
    MaxQty = 1
    MaxCrashes = 0
    None = None
INVARIANTS
    TypeOK
    OneWinner
    DeliveredIsCharged
    ReservationMatches
    KeyIsUnique
PROPERTIES
    PriceIsBacked
CONSTRAINT InScene
SYMMETRY Symmetry
CHECK_DEADLOCK FALSE
