CONSTANTS
    m1 = m1
    m2 = m2
    idA = idA
    idB = idB
    idC = idC
    idD = idD
    None = None
    Members <- MemberSet
    Ids <- IdSet
    Kind <- KindOf
    NumRecords = 3
    Content <- TwoEvents
    BatchSize = 2
    MaxStarts = 2
    MaxRebalances = 0
SPECIFICATION Spec
INVARIANT FailedIsRedelivered
CHECK_DEADLOCK FALSE
