\* Block remapping, buttons and streams, each on its own.
CONSTANTS
  Places <- MCPlaces
  Blocks = {1, 2, 3, 4, 5, 6, 7, 8}
  Lines <- MCLines
  MaxLines = 5
  Screens <- MCScreens
  Strays <- MCStrays
  Links <- MCLinks
  Points <- MCPoints
  Dist = 1000
  Nothing = nothing
  Chains <- MCChains
  AudioRegs = {0, 1, 15}
  SubpRegs <- MCSubpRegs
  NrAudio = 8
  NrSubp = 32
  Hidden = 128
SPECIFICATION Spec
INVARIANTS SkipsListedOnly SkipsAllListed StreamsCurrent
PROPERTIES ButtonsObey
CHECK_DEADLOCK FALSE
