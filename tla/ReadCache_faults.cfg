\* Disc reads that fail or read short, undecodable NAV packets, read-ahead of one or two blocks.
CONSTANTS
  Main = main
  Threads = {main}
  Handles = {h1, h2}
  Files = {f1, f2}
  NoFile = nofile
  NoLoan = noloan
  Junk = junk
  NChunks = 1
  MinAlloc = 2
  AheadMin = 1
  AheadMax = 2
  MaxSector = 3
  Cap = 3
  ReadFaults = TRUE
  BadNav = TRUE
SPECIFICATION Spec
SYMMETRY Symmetry
INVARIANTS TypeOK UsageIsLoans Coherent
PROPERTIES PinnedStays
CHECK_DEADLOCK FALSE
