SPECIFICATION FairSpec
CONSTANTS
  NormalSlots = 2
  BlockCount = 2
  Requests <- Small
  MaxId = 3
INVARIANTS
  BlocksAccounted
  LifecycleLast
  CancelHonoured
PROPERTIES
  TakenInOrder
  AdmittedIsAnswered
