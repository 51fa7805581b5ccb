SPECIFICATION Spec
CONSTANTS
    Channels = {c1, c2}
    TxidOf <- OwnTxid
    MaxUpdate = 2
INVARIANT Durable
