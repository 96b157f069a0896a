SPECIFICATION Spec
CONSTANT Used = {"cache", "tronconneuse", "tronc", "escape", "sparse_file", "sar", "trivial_sar", "compressor"}
INVARIANT RestoredDataMatchesCrc
INVARIANT StreamsAreKept
PROPERTY FilesAreKept
 
 
CHECK_DEADLOCK FALSE
