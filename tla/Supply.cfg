SPECIFICATION MCSpec
CONSTANTS
    o1 = o1
    o2 = o2
    k1 = k1
    k2 = k2
    Orders = {o1, o2}
    Requests = {r1}
    Clerks = {k1, k2}
    Kinds = {"restock", "customer", "import"}
    Qtys = {1, 2}
    None = None
    Days = {1, 3}
    Ahead = 1
    LastDay = 2
    Crons = {k1, k2}
    Planners = {k1, k2}
INVARIANTS
    BooksFollowDocuments
    ConvertedOnce
    BoxFollowsSchedule
PROPERTIES
    ArrivesOnce
    EveryDueRowIsQueued
CHECK_DEADLOCK FALSE
