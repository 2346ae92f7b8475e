CONSTANTS
  MaxRuns = 2
  MaxWrites = 2
  MaxTroubles = 2
SPECIFICATION FairSpec
INVARIANT VaultTypeOK
INVARIANT PendingIsTold
PROPERTY SavedIsCommitted
PROPERTY ReachesRemote
CHECK_DEADLOCK FALSE
