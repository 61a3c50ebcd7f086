\* Two menus without a still, one after the other, and an application that only answers.
CONSTANTS
  Cells <- TinyCells
  Disc <- TinyDisc
  FirstCell = "menu"
  VobuSize = 2
  Buttons = {1}
  Streams = {1}
  HopSeek = 2
  MaxHop = 2
  RestartMod = 3
  Calls = {"wait_skip", "still_skip"}
  ReadFaults = FALSE
  EndOfCell = end
  None = none
SPECIFICATION Spec
PROPERTIES WaitAtMenuEnd
