SPECIFICATION StoreFairSpec
CONSTANTS
  NormalSlots = 1
  Compact = FALSE
  ClientRequests <- Clients
  JobRequests <- Passes
  Requests <- Both
  Tasks = {"service"}
  Executed = {"Committed", "Failed"}
  MaxSequence = 3
INVARIANTS
  NoneSkipped
  ConsumedAfterSettled
  DeletionFenced
PROPERTIES
  FenceLifts
  PassCollected
