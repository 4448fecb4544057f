SPECIFICATION Spec
CONSTANTS
    NumFiles = 2
    MaxLines = 4
    Kinds <- TwoKinds
    Amounts <- SomeAmounts
    Contexts = {gpt}
    Restarts = {TRUE, FALSE}
    MaxWritten = 4
    MaxMalformed = 2
    Null = Null
INVARIANTS
    CallsCountedOnce
    NeverOvercounted
    TurnsAreReal
    NoSilentLoss
CHECK_DEADLOCK FALSE
