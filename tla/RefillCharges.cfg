\* Three attempts to pay one order, which the shop delivers meanwhile; one
\* request dies.
SPECIFICATION FairSpec
CONSTANTS
    Orders = {o1}
    Payments = {p1, p2, p3}
    Jars = {}
    Requests = {r1, r2}
    Appointments = {a1}
    ClientKeys = {}
    Ops = {"create", "cancel", "pay", "callback", "decline", "deliver"}
    DeclineThenCharge = FALSE
    InitStock = 3
    MaxQty = 2
    MaxCrashes = 1
    None = None
INVARIANTS
    HandedOnce
PROPERTIES
    EveryChargeIsSettled
CHECK_DEADLOCK FALSE
