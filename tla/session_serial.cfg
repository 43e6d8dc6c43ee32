SPECIFICATION FairSpec
CONSTANTS
  a = a
  b = b
  Chunks = {a, b}
  Capacity = 2
  Paths = {p44, pDeep, pEth, pBad}
  EthPaths = {pEth}
  DeepPaths = {pDeep}
  BadPaths = {pBad}
  NoPath = NoPath
  Hrps = {cosmos, inj}
  CosmosHrps = {cosmos}
  EthHrps = {inj}
  NoHrp = NoHrp
  BadHrp = BadHrp
  ValidTxs <- MCValidTxs
  SwapTxs <- MCSwapTxs
  Concurrent = FALSE
  MaxResets = 2
INVARIANTS
  TypeOK
  SessionArgsChecked
  PendingCoherent
  SwapSignsOnce
  SuccessMeansAgreed
PROPERTIES
  SignedWasShown
  AddressWasShown
  EthNeedsExpert
  KeepsPromise
  ReviewEnds
  SwapEnds
