SPECIFICATION Spec
CONSTANTS
  a = a
  b = b
  Chunks = {a, b}
  Capacity = 2
  Paths = {p44, pDeep, pEth, pBad}
  EthPaths = {pEth}
  DeepPaths = {pDeep}
  BadPaths = {pBad}
  NoPath = NoPath
  Hrps = {cosmos, inj}
  CosmosHrps = {cosmos}
  EthHrps = {inj}
  NoHrp = NoHrp
  BadHrp = BadHrp
  ValidTxs <- MCValidTxs
  SwapTxs <- MCSwapTxs
  Concurrent = TRUE
  MaxResets = 1
INVARIANTS
  ReviewingCoherent
  FailsafeNeverTriggers
PROPERTIES
  RefusalIsHarmless
  UploadWhole
