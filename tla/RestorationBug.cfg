SPECIFICATION MCSpec
CONSTANTS
  Names <- MCNames
  Decide <- Action
  OfDetruits <- OnlyDeleted
  DataAnswers <- AskData
  EAAnswers <- AskEA
  Archives <- Retried
  Disks <- Bare
  Policies <- MCPolicies
  Options <- InSequence
  MaxFaults = 0
  Hour = 60
  HourShift = 0
CHECK_DEADLOCK FALSE
INVARIANT NoBug
