SPECIFICATION Spec
CONSTANTS
  a1 = a1
  a2 = a2
  b1 = b1
  Searchers = {s1}
  Builders = {p1, p2}
  Validators = {v1}
  PayAddrs = {a1}
  StakingAddr <- OneStakingAddr
  BidIds = {b1}
  BidPays <- OneBidAddr
  MaxHeight = 4
  Requested = {4}
  AuctionOffset = 3
  BuildOffset = 1
  MaxTries = 1
  Retention = 2
  NULL = NULL
SYMMETRY Symmetry
INVARIANTS OneClaimPerAuction OneBlockPerAuction SettledAfterFinish BlockBidsStored
PROPERTIES AuctionImmutable
