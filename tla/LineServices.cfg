SPECIFICATION MCSpec
CONSTANTS
    m1 = m1
    m2 = m2
    f1 = f1
    f2 = f2
    Members = {m1, m2}
    Codes = {a2, a3}
    Coupons = {k1, k2}
    Requests = {r1, r2}
    Forms = {f1, f2}
    Member <- OfForm
    Change <- ByForm
    CouponPoints = 2
    RewardPoints = 1
    MaxRewards = 2
    None = None
    a1 = a1
    a2 = a2
    a3 = a3
    Appointments = {a1, a2, a3}
    Slots = {2, 3}
    TicksPerDay = 2
    MaxClock = 1
    Capacities = {1, 2}
    Desks = {r1, r2}
    Reachable = {a1}
    MaxApps = 1
    MaxParcels = 1
    Workers = {r1, r2}
INVARIANTS LedgerAddsUp ReturnCountsOnce CouponPaidOnce SlotsHold RemindersFollowTheTime
    ReviewedIsComplete SentWasPaid ApprovedIsQueued
SYMMETRY Symmetry
CHECK_DEADLOCK FALSE
