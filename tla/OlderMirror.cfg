SPECIFICATION Spec
CONSTANTS
  Statuses <- MCStatuses
  MaxRevision = 3
  Absent = Absent
INVARIANTS
  NeverBuiltOnOlder
