SPECIFICATION FairSpec
CONSTANTS
  One = 16
  MaxU64 = 100000
  FeeDen = 1000
  Bps = 4
  VolDen = 10
  SqrtAt <- MCSqrtAt
  MinInput = 40
  Iterations = 6
  MinReserve = 100
  MaxFee = 30
  ProbeAmount = 50
  ArraySize <- MCArraySize
  BaseMints <- Bases
  MaxHops = 3
  MaxRoutes = 50
  Streams <- MCStreams
  QueueCap = 2
  WarmupSecs = 1
  WarmupPools = 2
  ScanEvery = 2
  DedupSecs = 1
  TopN = 2
  OfferCap = 1
  MaxInput = 600
  MinProfit = 2
  MaxProfit = 200
  RatioNum = 1
  RatioDen = 2
  Guesses <- MCGuesses
  Amounts <- MCAmounts
  Watched <- MCWatched
INVARIANTS TableSound
PROPERTIES QuotesSound SearchFinds RoutesAdded OffersSound StandingServed
