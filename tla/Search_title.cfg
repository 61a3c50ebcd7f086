\* Seeks by block and by time, angles and positions in three chains.
CONSTANTS
  Chains <- MCChains
  Titles <- MCTitles
  NoChain = NoChain
  Angles = {1, 2}
  Times = {0, 3, 7, 12}
  Offsets <- MCOffsets
  Wrap = 64
SPECIFICATION Spec
INVARIANTS PositionWithin TimeReported ChaptersCover
PROPERTIES SeekLands ForwardMovesOn TimeLands AngleFollowed
CHECK_DEADLOCK FALSE
