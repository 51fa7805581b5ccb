SPECIFICATION FairSpec
CONSTANTS
    Channels = {c1}
    TxidOf <- OwnTxid
    MaxUpdate = 4
INVARIANTS
    TypeOK
    Durable
    ManagerNeverStale
    ClosedStaysClosed
PROPERTIES
    MonitorFileNeverRollsBack
    BlockSettles
