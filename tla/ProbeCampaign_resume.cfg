SPECIFICATION FairSpec
CONSTANTS
    hub = hub
    far = far
    dest = dest
    s1 = s1
    s2 = s2
    pub = pub
    Hub = hub
    Guess = dest
    Hidden <- OneHidden
    GuessChannels = {}
    TargetErrors <- FeeTooLow
    RelayErrors <- RelaysBusy
    Nodes <- FarNode
    Txs <- TwoTxs
    Public = {pub}
    Plausible = {s1}
    Limit = 0
    Slots = 1
    Manual = {}
    Fake = {}
    MaxSends = 3
    MaxRestarts = 1
PROPERTIES
    CampaignEnds
    NoReprobe
CHECK_DEADLOCK FALSE
