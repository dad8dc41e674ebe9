\* One size, one movement at a time, two requests, two rows, two attempts.
SPECIFICATION MCSpec
CONSTANTS
    Settlements = {s1, s2}
    Requests = {r1, r2}
    Coupons = {c1}
    Periods <- MCPeriods
    Attempts = 2
    None = None
    Tiers = {1}
    Clients = {k1}
    Handlers = {"counter", "undo"}
    InitQty = 1
    MaxQty = 2
    MaxTxns = 1
    o1 = o1
    o2 = o2
    v1 = v1
    v2 = v2
    Orders = {o1, o2}
    Vendors = {v1, v2}
    ShareBps <- Bps
    Contents <- MCContents
    MaxEditions = 2
    House = House
    SoldLines <- MCSoldLines
    Refunds = {f1, f2, f3}
    Disputes = {d1, d2}
    Face = 2
    Unapproved = Unapproved
INVARIANTS
    BilledOnce
    LocksMatchLines
    CreditedIsCollected
    RefundsUndoTheSale
PROPERTIES
    PosEndIsFinal
SYMMETRY Symmetry
CHECK_DEADLOCK FALSE
