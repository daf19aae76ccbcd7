SPECIFICATION FairFetchSpec
CONSTANTS
  NumNodes = 3
  MaxHeight = 2
  Ahead = 4
  Validators = {1, 2, 3, 4}
  PerPage = 2
  StakingLimit = 3
  Histories <- MCHistories
INVARIANTS
  SetWhole
  NoNeedlessError
  PredictionHolds
PROPERTIES
  FetchEnds
