SPECIFICATION Spec
CONSTANTS
  p1 = p1
  p2 = p2
  Pools <- One
  Kind <- CpKind
  Idx <- Zero
  Ticks <- Zero
  Span <- Span1
  CheckSpan = 1
  Radius <- Radius0
  MaxVer = 2
  ChanCap = 2
  Tasks = {t1, t2}
  Feed <- CpFeed
  MaxEvents = 3
  MaxFail = 1
  OnChain <- None
  VaultChunk = 1
  ArrayChunk = 4
SYMMETRY HandlerSymmetry
INVARIANTS TypeOK IndexSound VaultsAccounted FetcherNotStranded EngineAgrees
PROPERTY StateKept
CHECK_DEADLOCK FALSE
