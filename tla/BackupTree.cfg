SPECIFICATION Spec
CONSTANTS
  i1 = i1
  i2 = i2
  Path <- TreePath
  Order <- TreeOrder
  InitialDisk <- TreeDisk
  Masks <- TreeMasks
  Inode = {i1, i2}
  AlterAtime = FALSE
  EmptyDir = TRUE
  Faults = {"lstat", "opendir", "open"}
  RepeatCount = 1
  RepeatByte = 0
  MaxArchive = 2
  MaxTime = 4
INVARIANT InStep
INVARIANT ChainRestoresTheDisk
 
PROPERTY RemovedWasAbsent
CHECK_DEADLOCK FALSE
