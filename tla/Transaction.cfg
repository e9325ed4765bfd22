SPECIFICATION Spec
CONSTANTS
  Snapshots <- EveryLayout
  MaxHops = 4
  Variants <- Every
  Profits <- Expected
  Outcomes <- Deltas
  U32 = 16
INVARIANTS ParsedMatches SlicesExact AmountFromInput NeverShort LandedProfit FlashloanCloses
CHECK_DEADLOCK FALSE
