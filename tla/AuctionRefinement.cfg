SPECIFICATION FairSpec
CONSTANTS
  a1 = a1
  a2 = a2
  b1 = b1
  Searchers = {s1}
  Builders = {p1}
  Validators = {v1}
  PayAddrs = {a1}
  StakingAddr <- OneStakingAddr
  BidIds = {b1}
  BidPays <- OneBidAddr
  MaxHeight = 3
  Requested = {3}
  AuctionOffset = 2
  BuildOffset = 1
  MaxTries = 2
  Retention = 1
  NULL = NULL
INVARIANTS IInv
PROPERTIES ImplementsLifecycle RequestsEnd
