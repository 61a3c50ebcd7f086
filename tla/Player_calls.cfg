\* Calls in any order and reads that fail: every call but the menu ones, over a menu and a title.
CONSTANTS
  Cells <- TinyCells
  Disc <- TinyDisc
  FirstCell = "menu"
  VobuSize = 2
  Buttons = {1}
  Streams = {1}
  HopSeek = 2
  MaxHop = 3
  RestartMod = 3
  Calls = {"still_skip", "wait_skip", "any_time", "part_play", "go_up", "search", "seek", "reset", "press", "activate", "select"}
  ReadFaults = TRUE
  EndOfCell = end
  None = none
SPECIFICATION Spec
INVARIANTS TypeOK ResumeInCell
PROPERTIES AnnouncesFirst DataOfCell PlayedInFull StillAtEnd StartsWhereVmIs
