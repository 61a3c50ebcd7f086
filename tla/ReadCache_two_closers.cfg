\* The last two buffers come back from two threads after the close.
CONSTANTS
  Main = main
  Threads = {main, t2}
  Handles = {h1, h2}
  Files = {f1}
  NoFile = nofile
  NoLoan = noloan
  Junk = junk
  NChunks = 1
  MinAlloc = 1
  AheadMin = 1
  AheadMax = 1
  MaxSector = 1
  Cap = 1
  ReadFaults = FALSE
  BadNav = FALSE
SPECIFICATION Spec
SYMMETRY Symmetry
INVARIANTS NoUseAfterFree
CHECK_DEADLOCK FALSE
