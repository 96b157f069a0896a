SPECIFICATION MCSpec
CONSTANTS
  f = f
  g = g
  d = d
  root = root
  Modes = {"data", "adds", "tree"}
  Node <- TreeNode
  Root <- root
  Parent <- TreeParent
  Archive <- Archives
  Date <- RestoreDates
  ArchiveNumMax = 4
INVARIANT TypeOK
INVARIANT RecordsMatchArchives
INVARIANT NoStrayRecord
INVARIANT RestoreFromHolder
 
INVARIANT QueriesTellTheTree
