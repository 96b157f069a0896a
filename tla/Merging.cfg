SPECIFICATION MCMergeSpec
CONSTANTS
  ArchiveSets <- MCArchiveSets
  MergePolicies <- MCMergePolicies
  MergeOptions <- MCMergeOptions
  MergeFaults = 1
  Names <- MCNames
  Decide <- MCDecide
  DecrementalPolicy <- MCDecrementalPolicy
  DataAnswers <- MCDataAnswers
  EAAnswers <- MCEAAnswers
INVARIANT CursorsInStep
INVARIANT MapIsLive
 
INVARIANT DecrementalRestores
 
CHECK_DEADLOCK FALSE
