SPECIFICATION DeviceFairSpec
CONSTANTS
  NormalSlots = 1
  BlockCount = 1
  Requests <- Small
  MaxId = 3
INVARIANTS
  PerformsAlone
  FailureIsFinal
  AlwaysAWayOut
PROPERTIES
  LifecycleAnswered
