\* Two sizes, every writer, three movements, two transactions at a time.
SPECIFICATION ShelfSpec
CONSTANTS
    Settlements = {s1}
    None = None
    Tiers = {1, 2}
    Clients = {k1, k2}
    Handlers = {"counter", "receive", "sale", "count", "undo", "mirror"}
    InitQty = 1
    MaxQty = 1
    MaxTxns = 3
INVARIANTS
    ShelfExplained
    LotsMatchShelf
    ConsignedBilled
SYMMETRY Symmetry
CHECK_DEADLOCK FALSE
