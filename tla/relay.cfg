CONSTANTS
    relay1 = relay1
    relay2 = relay2
    Relays <- RelaySet
    NumRows = 2
    BatchSize = 2
    MaxAttempts = 2
SPECIFICATION LiveSpec
INVARIANTS
    RelayTypeOK
    ProcessedIsExplained
    FailedIsExplained
    ClaimsAreExclusive
PROPERTIES
    CommitsMakeProgress
    BatchIsSentInOrder
    OutboxPromiseKept
    EveryEventSettles
    StopCompletes
