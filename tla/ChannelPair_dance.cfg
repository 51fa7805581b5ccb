CONSTANTS
    A = A
    B = B
    Peers = {A, B}
    Funder = A
    Balance <- BothOwnTwo
    MaxAccepted = 2
    FeeFloor <- OneEach
    FeeCeil <- BothOwnTwo
    Bad <- BsBad
    MaxHtlcs <- OneEach
    MaxBreaks = 1
    MaxRestarts = 1
    MaxDelays = 1
    MaxFees = 1
    RepeatAfterDelay = FALSE
    Closers = {}
    MaxTicks = 0
SPECIFICATION Spec
INVARIANTS TypeOK NoClose TheirTxIsWatched OutcomesCommitted BooksAgree HandedOnce NeverStuck
PROPERTIES LedgerKept
CHECK_DEADLOCK FALSE
