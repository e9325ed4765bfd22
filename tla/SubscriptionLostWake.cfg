SPECIFICATION FairSpec
CONSTANTS
  Producers <- Three
  Addrs <- Four
  VaultsOf <- MCVaultsOf
  MaxFail = 0
PROPERTY QueuedIsSubscribed
CHECK_DEADLOCK FALSE
