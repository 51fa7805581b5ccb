SPECIFICATION Spec
CONSTANTS
    hub = hub
    far = far
    dest = dest
    s1 = s1
    s2 = s2
    pub = pub
    Hub = hub
    Guess = dest
    Hidden <- OneHidden
    GuessChannels = {}
    TargetErrors <- Unreadable
    RelayErrors <- RelaysRefuse
    Nodes <- BothNodes
    Txs <- OneAndPublic
    Public = {pub}
    Plausible = {s1}
    Limit = 0
    Slots = 2
    Manual <- OneHidden
    Fake = {far}
    MaxSends = 3
    MaxRestarts = 0
INVARIANTS
    TypeOK
    VerdictsExplained
    CampaignCovers
CHECK_DEADLOCK FALSE
PROPERTIES
    ThrottleHolds
