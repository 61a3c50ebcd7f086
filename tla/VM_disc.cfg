\* A disc with two VTS: menus, an angle block, a chain without cells, every link and every call.
CONSTANTS
  Pgcit <- Disc
  Titles <- DiscTitles
  Ptts <- DiscPtts
  Programs <- DiscPrograms
  Angles = {1, 2}
  MaxBlock = 1
  NoVM = novm
SPECIFICATION Spec
INVARIANTS TypeOK InCell AssertsHold RegistersAgree ResumePoint
PROPERTIES TriesSafely PartPlayed
