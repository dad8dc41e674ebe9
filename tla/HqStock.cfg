SPECIFICATION MCSpec
CONSTANTS
    f1 = f1
    f2 = f2
    f3 = f3
    k1 = k1
    k2 = k2
    Lines <- TwoLines
    Ordered <- OrderedOf
    Raw <- RawOf
    Shipping = 4
    Discount = 3
    Forms = {f1, f2, f3}
    Counts = {s1}
    Clerks = {k1, k2}
    MaxSales = 1
    MaxQuantity = 2
    Found = {0, 2}
    None = None
INVARIANTS BalanceIsJournal DeliveredOnce CostsAddUp
PROPERTIES CountSeesAll
SYMMETRY Symmetry
CHECK_DEADLOCK FALSE
