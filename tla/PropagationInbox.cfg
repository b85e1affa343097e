SPECIFICATION FairSpec
CONSTANTS
  RowCount = 1
  ReceiptCount = 0
  ReceiptsPerRow = 0
  Messages = {1, 2}
  Peer <- Senders
  Proofs = {}
  MaxGeneration = 2
  MaxRecords = 1
  Relays <- Kept
  MaxReceived = 2
  MaxAttempts = 2
INVARIANTS
  HeldRowIsOurs
  PurgedAreKept
PROPERTIES
  CycleEnds
