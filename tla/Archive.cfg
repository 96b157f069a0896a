SPECIFICATION Spec
CONSTANTS
  Parts = {"comparison", "archive", "clusters", "storage", "numbers", "crc", "formats", "entries", "masks"}
  Names = {0, 1, 2, 3, 4, 5, 6, 7}
  Dot = 1
  DotDot = 2
  Root = 3
  Upper <- MCUpper
  Files <- MCFiles
  Origins <- MCOrigins
  Candidates <- MCCandidates
  Listings <- MCListings
  Added <- MCAdded
  MaxMembers = 4
 
 
INVARIANT FormatsReadBack
 
PROPERTY MemoryIsShared
CHECK_DEADLOCK FALSE
