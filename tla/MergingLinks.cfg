SPECIFICATION MCMergeSpec
CONSTANTS
  ArchiveSets <- TwoSets
  MergePolicies <- Plain
  MergeOptions <- LeftOut
  MergeFaults = 1
  Names <- MCNames
  Decide <- MCDecide
  DecrementalPolicy <- MCDecrementalPolicy
  DataAnswers <- MCDataAnswers
  EAAnswers <- MCEAAnswers
CHECK_DEADLOCK FALSE
INVARIANT LinksOfOneInode
