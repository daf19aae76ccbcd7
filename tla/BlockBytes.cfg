SPECIFICATION Spec
CONSTANTS
  Txs <- MCTxs
  Decodes <- MCDecodes
  Normal <- MCNormal
  Pays <- MCPays
  Bytes <- MCBytes
  Gas <- MCGas
  Senders = {"ann", "bob"}
  BidIds = {1, 2, 3}
  OldIds = {2}
  BidTxs <- MCBidTxs
  Mempools <- MCMempools
  Balances <- MCBalances
  Limits <- MCLimits
  Allocation = 97
  MaxInt = 1000
  NULL = NULL
INVARIANTS BytesWithinLimit
