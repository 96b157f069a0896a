SPECIFICATION MCSpec
CONSTANTS
  Base = Base
  Other = Other
  Stamp = {1, 2}
  Earlier <- SomeDatabases
  ArchiveNumMax = 4
  MaxEdits = 2
  MaxRuns = 1
  Faults = {"full", "crash", "signal"}
INVARIANT MemoryIsWhole
INVARIANT SavedUnlessSlipped
PROPERTY StoreIsImplemented
CHECK_DEADLOCK FALSE
