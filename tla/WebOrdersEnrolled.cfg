SPECIFICATION WebSpec
CONSTANTS
    MaxVersions = 1
    MaxTime = 1
    MaxFails = 1
    MaxRecoveryAttempts = 2
    Callers = {c1}
    Carrier = {}
    FromBefore = {TRUE}
    Unenrolled = Unenrolled
PROPERTY ReconcileEnrollsNone
CHECK_DEADLOCK FALSE
