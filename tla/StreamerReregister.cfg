SPECIFICATION Spec
CONSTANTS
  p1 = p1
  p2 = p2
  Pools <- One
  Kind <- CpKind
  Idx <- Zero
  Ticks <- Zero
  Span <- Span1
  CheckSpan = 1
  Radius <- Radius0
  MaxVer = 1
  ChanCap = 1
  Tasks = {t1, t2}
  Feed <- CpFeed
  MaxEvents = 3
  MaxFail = 0
  OnChain <- None
  VaultChunk = 2
  ArrayChunk = 4
PROPERTY RegisteredOnlyUpdated
CHECK_DEADLOCK FALSE
