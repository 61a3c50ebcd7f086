\* The command decoder: all commands, and loops of three.
CONSTANTS
  Words <- MCWords
  And <- MCAnd
  Or <- MCOr
  Xor <- MCXor
  Blocks <- MCBlocks
  Registers <- MCRegisters
  MaxTotal = 5
  MaxClock = 1
SPECIFICATION Spec
INVARIANTS TypeOK LinksFollowed
PROPERTIES SkipsChangeNothing SetsInRange BlockEnds
CHECK_DEADLOCK FALSE
