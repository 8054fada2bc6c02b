SPECIFICATION Spec
CONSTANTS
  a = a
  big = big
  Name = {a, big}
  NameLen <- MCNameLen
  MaxNameLen = 3
  HeaderSize = 1
  PoolSize = 9
  ScopeSize = 4
  Address = {0, 1}
  MaxScope = 2
  MaxEntries = 3
INVARIANTS UniqueKeys SharedIsGlobal
PROPERTIES LabelsStay ImplementsTable
CHECK_DEADLOCK FALSE
