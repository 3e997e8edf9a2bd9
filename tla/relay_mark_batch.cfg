CONSTANTS
    relay1 = relay1
    relay2 = relay2
    Relays <- RelaySet
    NumRows = 3
    BatchSize = 2
    MaxAttempts = 2
SPECIFICATION Spec
INVARIANT ProcessedWasPublished
