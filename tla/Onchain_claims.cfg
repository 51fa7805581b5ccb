SPECIFICATION Spec
CONSTANTS
  o1 = o1
  o2 = o2
  i1 = i1
  i2 = i2
  HtlcSeq <- Order
  Outbound = {o1, o2}
  Deals <- OneReorg
  ANTI_REORG_DELAY = 3
  LATENCY_GRACE_PERIOD_BLOCKS = 1
  CLTV_CLAIM_BUFFER = 2
  CLTV_SHARED_CLAIM_BUFFER = 1
  HolderCsv = 4
  MaxHeight = 6
  MaxTxs = 2
INVARIANT ClaimsKept
CHECK_DEADLOCK FALSE
