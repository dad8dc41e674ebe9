SPECIFICATION Spec
CONSTANTS
    Orders = {o1}
    Requests = {}
    Clerks = {k1}
    Kinds = {"customer"}
    Qtys = {1}
    None = None
INVARIANTS
    ReturnedIsNotRevived
CHECK_DEADLOCK FALSE
