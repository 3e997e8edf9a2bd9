CONSTANTS
    m1 = m1
    m2 = m2
    idA = idA
    idB = idB
    idC = idC
    idD = idD
    None = None
    Members <- MemberSet
    Ids <- IdSet
    Kind <- KindOf
    NumRecords = 3
    Content <- MixedRecords
    BatchSize = 2
    MaxStarts = 2
    MaxRebalances = 1
SPECIFICATION LiveSpec
INVARIANTS
    ConsumerTypeOK
    HandledAtMostOnce
    LossHasACause
PROPERTY EveryRecordIsTried
CHECK_DEADLOCK FALSE
