SPECIFICATION FairSpec
CONSTANTS
  p1 = p1
  p2 = p2
  Pools <- Two
  Kind <- TwoKinds
  Idx <- ThreeArrays
  Ticks <- TwoTicks
  Span <- Span1
  CheckSpan = 1
  Radius <- TwoRadii
  MaxVer = 1
  ChanCap = 1
  Tasks = {t1, t2}
  Feed <- BothFeed
  MaxEvents = 3
  MaxFail = 0
  OnChain <- ThreeOnChain
  VaultChunk = 2
  ArrayChunk = 2
INVARIANTS VaultsSubscribed RefresherNotStranded
PROPERTIES VaultsAnswered DirtyTaken
CHECK_DEADLOCK FALSE
CONSTRAINT OnePool
