\* A failing read ahead of a block that is then delivered.
CONSTANTS
  Main = main
  Threads = {main}
  Handles = {h1}
  Files = {f1}
  NoFile = nofile
  NoLoan = noloan
  Junk = junk
  NChunks = 1
  MinAlloc = 1
  AheadMin = 1
  AheadMax = 1
  MaxSector = 2
  Cap = 2
  ReadFaults = TRUE
  BadNav = FALSE
SPECIFICATION Spec
SYMMETRY Symmetry
INVARIANTS HeldIntact
CHECK_DEADLOCK FALSE
