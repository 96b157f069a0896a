SPECIFICATION MCSpec
CONSTANTS
  Names <- MCNames
  Decide <- Action
  OfDetruits <- OnlyDeleted
  DataAnswers <- AskData
  EAAnswers <- AskEA
  Archives <- MCArchives
  Disks <- MCDisks
  Policies <- MCPolicies
  Options <- MCOptions
  MaxFaults = 1
  Hour = 60
  HourShift = 0
INVARIANT LinksAndDates
PROPERTY PreservedUntouched
PROPERTY NewInodeHasItsEA
INVARIANT WalkIsInStep
 
CHECK_DEADLOCK FALSE
