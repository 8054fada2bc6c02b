SPECIFICATION SpecLong
CONSTANTS
  a = a
  b = b
  Name = {a, b}
  Statement <- All
  ZeroPage = 2
  MaxScope = 2
  MaxStatements = 5
  MaxAddress = 10
INVARIANTS PhaseAgreement NoStaleBytes ScopesReplayed
PROPERTIES LateErrors
CHECK_DEADLOCK FALSE
