SPECIFICATION FairSpec
CONSTANTS
  RowCount = 2
  Interfaces = {0}
  ProofAttempts = 1
  Ages <- Worn
  MaxGeneration = 3
  MaxRecords = 1
  Restored <- Outbox
  Deletes = TRUE
  Retries = TRUE
INVARIANTS
  ReceiptsAccounted
  WorkspaceReturned
  DeletedNotSent
PROPERTIES
  ProofReachesRecord
  StopDrains
CHECK_DEADLOCK FALSE
