SPECIFICATION Spec
CONSTANTS
  a1 = a1
  a2 = a2
  b1 = b1
  Searchers = {s1}
  Builders = {p1}
  Validators = {v1, v2}
  PayAddrs = {a1, a2}
  StakingAddr <- OtherStakingAddr
  BidIds = {b1, b2}
  BidPays <- TwoBidAddrs
  MaxHeight = 3
  Requested = {3}
  AuctionOffset = 2
  BuildOffset = 1
  MaxTries = 1
  Retention = 2
  NULL = NULL
SYMMETRY Symmetry
INVARIANTS BlockPaysAuction BlockByRecordedProposer
