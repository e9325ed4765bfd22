SPECIFICATION Spec
CONSTANTS
  One = 16
  MaxU64 = 2000000
  FeeDen = 1000
  Bps = 20
  VolDen = 1000
  SqrtAt <- MCSqrtAt
  ArraySize <- MCArraySize
  UpdateCap = 3
  OfferCap = 2
  Pools <- MCPoolNames
  ProbeAmount = 200
  PriceProbe = 20
  MinSolReserve = 100
  MinSpread = 1
  MaxSpread = 50
  SpreadDen = 100
  LossDen = 100
  BatchMax = 2
  PairSecs = 1
  KeepSecs = 2
  CleanEvery = 2
  Feeds <- MCFeeds
  BootPools = {"cpmm", "dlmm"}
  Found <- MCFound
  OnChain <- MCOnChain
  MaxBootFails = 1
INVARIANTS SeenLast ArmedComplete
CHECK_DEADLOCK FALSE
