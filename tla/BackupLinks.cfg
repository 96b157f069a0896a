SPECIFICATION Spec
CONSTANTS
  i1 = i1
  i2 = i2
  Path <- LinksPath
  Order <- LinksOrder
  InitialDisk <- LinksDisk
  Masks <- AllCovered
  Inode = {i1, i2}
  AlterAtime = TRUE
  EmptyDir = FALSE
  Faults = {}
  RepeatCount = 2
  RepeatByte = 2
  MaxArchive = 3
  MaxTime = 4
INVARIANT CopiesAreConsistent
CHECK_DEADLOCK FALSE
