\* A title with angles in another title set is played, and sought in, before the next poll.
CONSTANTS
  Cells <- TwoSetsCells
  Disc <- TwoSetsDisc
  FirstCell = "a"
  VobuSize = 2
  Buttons = {1}
  Streams = {1}
  HopSeek = 2
  MaxHop = 3
  RestartMod = 5
  Calls = {"part_play", "seek"}
  ReadFaults = FALSE
  EndOfCell = end
  None = none
SPECIFICATION Spec
INVARIANTS ResumeInCell
