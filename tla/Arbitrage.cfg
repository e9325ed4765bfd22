SPECIFICATION FairSpec
CONSTANTS
  One = 16
  MaxU64 = 2000000
  FeeDen = 1000
  Bps = 20
  VolDen = 1000
  SqrtAt <- MCSqrtAt
  ArraySize <- MCArraySize
  UpdateCap = 2
  OfferCap = 2
  Pools <- MCPoolNames
  ProbeAmount = 200
  PriceProbe = 20
  MinSolReserve = 100
  MinSpread = 1
  MaxSpread = 50
  SpreadDen = 100
  LossDen = 100
  BatchMax = 2
  PairSecs = 1
  KeepSecs = 2
  CleanEvery = 2
  Feeds <- MCFeeds
  RefreshEvery = 2
  SendEvery = 1
  MaxSlotLag = 2
  MaxRefreshFails = 1
  MaxCallSecs = 2
 
PROPERTIES PairSpaced DirectionRight Drained
