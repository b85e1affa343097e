SPECIFICATION Spec
CONSTANTS
  Values = {v1, v2, v3}
  Absent = Absent
  Torn = Torn
INVARIANTS
  TypeOK
  BackupInv
PROPERTIES
  ImplementsDurableFile
