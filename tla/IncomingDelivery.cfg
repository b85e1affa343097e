SPECIFICATION IncomingSpec
CONSTANTS
  RowCount = 1
  ReceiptCount = 2
  ReceiptsPerRow = 2
  Messages = {1, 2}
  Peer <- Senders
  Proofs = {1, 2}
  MaxGeneration = 2
  MaxRecords = 2
INVARIANTS
  ProofMeansStored
  RowsAccounted
