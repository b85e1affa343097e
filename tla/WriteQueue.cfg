SPECIFICATION FairSpec
CONSTANTS
  setup = setup
  service = service
  NormalSlots = 1
  Compact = FALSE
  Requests <- EveryClass
  Tasks = {setup, service}
  Executed = {"Committed"}
  MaxSequence = 3
INVARIANTS
  TypeOK
  CompletionInOrder
  StopDrains
PROPERTIES
  ImplementsOrderedTickets
  AdmittedIsAnswered
  StopCompletes
