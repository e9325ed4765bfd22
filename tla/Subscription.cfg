SPECIFICATION FairStream
CONSTANTS
  Producers <- Two
  Addrs <- Three
  VaultsOf <- MCVaultsOf
  MaxFail = 2
  Filters <- MCFilters
  Lists <- MCLists
  FirstLists <- MCFirstLists
  MaxStreams = 2
  MaxCalls = 2
  Protocols <- Dex
  Transactions <- MCTransactions
  Accounts <- MCAccounts
  Signatures = {1, 2, 3, 4}
  MAX_SIGNATURES = 2
  CLEANUP_BATCH_SIZE = 1
INVARIANTS NoneLost Settled RequestApplied EventsInOrder OwnParts ReadsRight DevMarked
PROPERTIES KeepsPromise WindowServed
CONSTRAINT Apart
CHECK_DEADLOCK FALSE
