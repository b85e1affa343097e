SPECIFICATION Spec
CONSTANTS
  Statuses <- MCStatuses
  MaxRevision = 3
  Absent = Absent
INVARIANTS
  ErasedStaysErased
  ConfirmedKept
PROPERTIES
  ReadersGoForward
