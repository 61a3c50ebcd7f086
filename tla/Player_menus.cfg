\* A user who answers stills and waits, calls menus, presses buttons and stops.
CONSTANTS
  Cells <- SmallCells
  Disc <- SmallDisc
  FirstCell = "menu"
  VobuSize = 2
  Buttons = {1}
  Streams = {1}
  HopSeek = 2
  MaxHop = 1
  RestartMod = 3
  Calls = {"still_skip", "wait_skip", "menu", "press", "select", "stop", "exit"}
  ReadFaults = FALSE
  EndOfCell = end
  None = none
SPECIFICATION FairSpec
PROPERTIES KeepsPlaying StartsWhereVmIs
