SPECIFICATION ToldSpec
CONSTANTS
  RowCount = 1
  Interfaces = {0}
  ProofAttempts = 1
  Ages <- Fresh
  MaxGeneration = 4
  MaxRecords = 2
  Restored <- Empty
  Deletes = TRUE
  Retries = FALSE
INVARIANTS
  SuppressedNotSent
CHECK_DEADLOCK FALSE
