SPECIFICATION IfSpec
CONSTANTS
  Statement <- Statements
  MaxStatements = 6
  CondToken <- CondTokens
  MaxCondTokens = 6
  MaxConditions = 1
INVARIANTS ConditionalsRight RepeatClosed ConditionRight
CHECK_DEADLOCK FALSE
