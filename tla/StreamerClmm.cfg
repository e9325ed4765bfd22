SPECIFICATION Spec
CONSTANTS
  p1 = p1
  p2 = p2
  Pools <- One
  Kind <- ClmmKind
  Idx <- ThreeArrays
  Ticks <- EndTicks
  Span <- Span1
  CheckSpan = 1
  Radius <- Radius1
  MaxVer = 2
  ChanCap = 1
  Tasks = {t1, t2}
  Feed <- ClmmFeed
  MaxEvents = 3
  MaxFail = 0
  OnChain <- EndsOnChain
  VaultChunk = 2
  ArrayChunk = 4
SYMMETRY HandlerSymmetry
INVARIANTS LimitsFresh ArraysIndexed ReloaderNotStranded
CHECK_DEADLOCK FALSE
