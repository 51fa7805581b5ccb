CONSTANTS
    A = A
    B = B
    Peers = {A, B}
    Funder = A
    Balance <- BothOwnTwo
    MaxAccepted = 2
    FeeFloor <- Floors
    FeeCeil <- Ceils
    Bad <- NoneBad
    MaxHtlcs <- TwoFromA
    MaxBreaks = 1
    MaxRestarts = 1
    MaxDelays = 1
    MaxFees = 0
    RepeatAfterDelay = FALSE
    Closers = {A}
    MaxTicks = 2
SPECIFICATION Spec
CHECK_DEADLOCK FALSE
INVARIANTS CloseAgreed CloseEnds
