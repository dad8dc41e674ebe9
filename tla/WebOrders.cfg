SPECIFICATION MCSpec
CONSTANTS
    MaxVersions = 3
    MaxTime = 2
    MaxFails = 2
    MaxRecoveryAttempts = 2
    Callers = {c1, c2}
    Carrier <- CarrierEvents
    FromBefore = {TRUE, FALSE}
    Unenrolled = Unenrolled
INVARIANTS ShippedAsReviewed
PROPERTIES ShippedIsNewest EnrolledOnlyByReview FailedIsRecovered
CHECK_DEADLOCK FALSE
