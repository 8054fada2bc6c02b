CONSTANTS
  Ways <- UnmarkedWays
  MaxStatements = 2
  Numbers <- FewNumbers
  Origins <- SomeOrigins
SPECIFICATION Spec
INVARIANTS PassesAgree
CHECK_DEADLOCK FALSE
