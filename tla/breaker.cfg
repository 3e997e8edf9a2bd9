CONSTANTS
    task1 = task1
    task2 = task2
    task3 = task3
    task4 = task4
    Callers <- CallerSet
    FailMax = 5
    ResetTimeout = 3
SPECIFICATION LiveSpec
INVARIANTS
    BreakerTypeOK
    TripsExactly
PROPERTY EventuallyCloses
