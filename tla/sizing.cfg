CONSTANTS
  Ways <- MarkedWays
  MaxStatements = 3
  Numbers <- SomeNumbers
  Origins <- SomeOrigins
SPECIFICATION Spec
INVARIANTS PassesAgree HoldsOperand
CHECK_DEADLOCK FALSE
