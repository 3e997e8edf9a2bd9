CONSTANTS
    r1 = r1
    r2 = r2
    r3 = r3
    Requests <- RequestSet
    Window = 3
    RateMax = 1
    Threshold = 2
    BlacklistTtl = 2
    Retries = 1
    Skew = 1
    MaxTime = 4
SYMMETRY RequestSymmetry
SPECIFICATION Spec
INVARIANTS
    AbuseTypeOK
    RateLimited
    RefusalIsEarned
    BlockLastsItsTtl
CHECK_DEADLOCK FALSE
