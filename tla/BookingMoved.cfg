\* One appointment, a scan and the requests of the shop.
SPECIFICATION BookingSpec
CONSTANTS
    Appointments = {a1}
    Slots = {2, 3}
    TicksPerDay = 2
    MaxClock = 1
    Capacities = {1}
    Desks = {r1, r2}
    Reachable = {a1}
INVARIANT WindowsRecomputed
CHECK_DEADLOCK FALSE
