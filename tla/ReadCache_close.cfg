\* Two threads give buffers back, before and after the close, until the cache is gone; chunks are
\* reused and reallocated meanwhile.
CONSTANTS
  Main = main
  Threads = {main, t2}
  Handles = {h1, h2}
  Files = {f1}
  NoFile = nofile
  NoLoan = noloan
  Junk = junk
  NChunks = 2
  MinAlloc = 1
  AheadMin = 1
  AheadMax = 1
  MaxSector = 1
  Cap = 2
  ReadFaults = FALSE
  BadNav = FALSE
SPECIFICATION FairSpec
INVARIANTS HeldIntact FreedOnlyWhenReturned
PROPERTIES CloseFrees LendsBlocks
CHECK_DEADLOCK FALSE
