SPECIFICATION FairSpec
CONSTANTS
    hub = hub
    far = far
    dest = dest
    s1 = s1
    s2 = s2
    pub = pub
    Hub = hub
    Guess = dest
    Hidden <- OneHidden
    GuessChannels = {}
    TargetErrors <- FeeTooLow
    RelayErrors <- RelaysBusy
    Nodes <- FarNode
    Txs <- OneTx
    Public = {pub}
    Plausible = {s1}
    Limit = 0
    Slots = 2
    Manual = {}
    Fake = {}
    MaxSends = 2
    MaxRestarts = 0
PROPERTIES
    InterruptStops
CHECK_DEADLOCK FALSE
