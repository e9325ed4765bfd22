SPECIFICATION Spec
CONSTANTS
  Snapshots <- MovedDlmm
  MaxHops = 3
  Variants <- Send
  Profits <- Ten
  Outcomes <- Deltas
  U32 = 16
INVARIANT SlicesExact
CHECK_DEADLOCK FALSE
