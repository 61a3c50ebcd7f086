-------------------------------- MODULE Search --------------------------------
(***************************************************************************)
(* Positions within a title: seeking by block and by time, the position    *)
(* and time reported, angles (src/src/searching.c, dvdnav_get_current_time *)
(* and dvdnav_angle_change of src/src/dvdnav.c).                           *)
(*                                                                         *)
(* One program chain plays; the engine reads it VOBU by VOBU, and knows    *)
(* its position once it has read the NAV packet at its start.  An angle    *)
(* block holds the cells of the angles, whose VOBUs alternate on the disc, *)
(* one VOBU to an interleaved unit; only those of the selected angle are   *)
(* played.  Sectors count from the first one of the title.                 *)
(*                                                                         *)
(* Behind a seek the engine takes two polls to be in step with the machine *)
(* again: Hop, which in a title of several angles passes over the VOBU the *)
(* seek led to, and Arrive, the change of cell and the NAV packet there.   *)
(* The application may call in between.  Reads succeed.                    *)
(***************************************************************************)
EXTENDS Integers, Sequences, FiniteSets

CONSTANTS
  Chains,     \* the program chains
  Titles,     \* sequences of parts, [pgc, pgn], for the chapter times
  NoChain,    \* the chain of a part whose chain is missing
  Angles,     \* angle numbers the application asks for
  Times,      \* times it seeks to
  Offsets,    \* offsets it seeks to
  Wrap        \* the number of values of a uint32_t

(* cell_playback_t: sectors, duration and its place in an angle block. *)
CellType == [first : Nat, last : Nat, time : Nat, block : {"none", "first", "in"}]
(* A VOBU: its first sector, its cell, the time from the start of the cell.*)
VobuType == [start : Nat, cell : Nat, time : Nat]
(* pgc_t, the address map of the VOBUs and nr_of_angles of the title.      *)
ChainType == [cells : Seq(CellType), map : Seq(Nat), vobus : Seq(VobuType), angles : Nat]

(* The VOBUs follow one another on the disc, each within its cell, and one *)
(* of each cell at the start of it; nothing lies behind the last cell.     *)
VobusInOrder(c) ==
  /\ \A v, w \in DOMAIN c.vobus : v < w => c.vobus[v].start < c.vobus[w].start
  /\ \A v \in DOMAIN c.vobus :
       /\ c.vobus[v].cell \in DOMAIN c.cells
       /\ LET n == c.cells[c.vobus[v].cell]
              end == IF v < Len(c.vobus) THEN c.vobus[v + 1].start - 1 ELSE c.cells[Len(c.cells)].last
          IN  n.first <= c.vobus[v].start /\ c.vobus[v].start <= end /\ end <= n.last
  /\ \A n \in DOMAIN c.cells :
       /\ c.cells[n].first <= c.cells[n].last
       /\ c.cells[n].last <= c.cells[Len(c.cells)].last
       /\ \E v \in DOMAIN c.vobus : c.vobus[v].cell = n /\ c.vobus[v].start = c.cells[n].first
(* Cells follow one another too, but for the other angles of a block.      *)
CellsInOrder(c) ==
  \A m, n \in DOMAIN c.cells : m < n /\ c.cells[n].block # "in" => c.cells[m].last < c.cells[n].first
(* The programs begin with the first cell and follow one another.          *)
ProgramsInOrder(c) ==
  /\ c.map # <<>> /\ c.map[1] = 1
  /\ \A p \in DOMAIN c.map : c.map[p] \in DOMAIN c.cells
  /\ \A p, q \in DOMAIN c.map : p < q => c.map[p] < c.map[q]
(* An angle block has a cell for each angle of the title, and all cells of *)
(* a block but the first follow one.                                       *)
BlocksWhole(c) ==
  /\ c.angles >= 1
  /\ \A n \in DOMAIN c.cells :
       /\ c.cells[n].block = "first" =>
            \A a \in 2..c.angles : n + a - 1 \in DOMAIN c.cells /\ c.cells[n + a - 1].block = "in"
       /\ c.cells[n].block = "in" =>
            \E f \in 1..n - 1 : c.cells[f].block = "first" /\ \A k \in f + 1..n : c.cells[k].block = "in"

ASSUME ChainsAssumption ==
  \A c \in Chains :
    /\ c \in ChainType
    /\ VobusInOrder(c) /\ CellsInOrder(c) /\ ProgramsInOrder(c) /\ BlocksWhole(c)
ASSUME WrapAssumption ==
  Wrap \in Nat \ {0} /\ \A c \in Chains : \A n \in DOMAIN c.cells : c.cells[n].last < Wrap \div 2
(* A part names a program of a chain, which may be missing or empty.        *)
PartType == [pgc : ChainType \cup {NoChain}, pgn : Nat \ {0}]
ASSUME TitlesAssumption ==
  \A title \in Titles :
    /\ title \in Seq(PartType)
    /\ \A i \in DOMAIN title :
         title[i].pgc # NoChain /\ title[i].pgc.map # <<>> => ProgramsInOrder(title[i].pgc)
ASSUME RequestsAssumption == Times \subseteq Nat /\ Offsets \subseteq Int

(* What the theorems about searches suppose besides: offsets that leave     *)
(* the target in a uint32_t ...                                            *)
OffsetsFit == \A o \in Offsets : -(Wrap \div 2) < o /\ o < Wrap \div 2
(* ... and outside angle blocks, blocks that take equal times, the times of *)
(* VOBUs being rounded down.                                               *)
EvenTimes ==
  \A c \in Chains : (\A n \in DOMAIN c.cells : c.cells[n].block = "none") => \A v \in DOMAIN c.vobus :
    LET n == c.cells[c.vobus[v].cell]
    IN  c.vobus[v].time = ((c.vobus[v].start - n.first) * n.time) \div (n.last - n.first + 1)

VARIABLES
  chain,     \* the chain that plays
  cellN, blockN,   \* of vm->state
  agl,       \* AGL_REG
  pgc_based, \* positions count from the start of the chain, not of the program
  known,     \* position_current agrees with the machine
  hop,       \* but not its hop_channel: a seek was not announced yet
  chosen,    \* AGL_REG when vobu_next, or the cell to play, was worked out
  vobu,      \* index of the VOBU being read
  ahead,     \* vobu.blockN, blocks of it that were read (fewer than it has)
  cur_cell_time,
  seeking,   \* what dvdnav_sector_search remembers between its locked parts
  asked      \* result of the last search since the NAV packet

vars == <<chain, cellN, blockN, agl, pgc_based, known, hop, chosen, vobu, ahead, cur_cell_time,
          seeking, asked>>
vm == <<cellN, blockN, known, hop, chosen>>
engine == <<vobu, ahead>>

NotSeeking == [offset |-> 0, origin |-> "none", pos |-> 0, len |-> 0]

-----------------------------------------------------------------------------
(* The chain and what the engine plays of it *)

Cells == DOMAIN chain.cells
Cell(n) == chain.cells[n]
Size == [n \in Cells |-> Cell(n).last - Cell(n).first + 1]
Playtime == [n \in Cells |-> Cell(n).time]
Vobus == DOMAIN chain.vobus
Start(v) == chain.vobus[v].start
Blocks(v) == (IF v = Len(chain.vobus) THEN chain.cells[Len(chain.cells)].last + 1
              ELSE Start(v + 1)) - Start(v)
VobuAt(sector) == CHOOSE v \in Vobus : Start(v) <= sector /\ sector < Start(v) + Blocks(v)
VobusOf(n) == {v \in Vobus : chain.vobus[v].cell = n}

(* vobu.vobu_start + vobu.blockN *)
CurSector == Start(vobu) + ahead

(* set_PGN *)
PgN == CHOOSE p \in DOMAIN chain.map :
         /\ chain.map[p] <= cellN
         /\ p < Len(chain.map) => cellN < chain.map[p + 1]

(* play_Cell: the cell of the angle, for the first cell of a block. *)
AngleCell(n) ==
  LET m == n + agl - 1
  IN  IF Cell(n).block = "first" /\ m \in Cells /\ Cell(m).block # "none" THEN m ELSE n

(* play_Cell_post: behind the cell, and behind the block it is in. *)
Following == {n \in Cells : n > cellN /\ Cell(n).block # "in"}

(* The VOBU that dvdnav_get_vobu finds behind VOBU v: in a block, the next *)
(* one of angle a, whichever cell the machine is in; none at the end.      *)
BlockOf(n) == CHOOSE f \in 1..n : Cell(f).block # "in" /\ \A k \in f + 1..n : Cell(k).block = "in"
SameBlock(n) ==
  IF Cell(n).block = "none" THEN {n} ELSE {k \in Cells : Cell(k).block # "none" /\ BlockOf(k) = BlockOf(n)}
CellOf(v) == chain.vobus[v].cell
Playing == CellOf(vobu)
Rank(v) == Cardinality({w \in VobusOf(CellOf(v)) : w <= v})
Followed(v, a) ==
  LET m == BlockOf(CellOf(v)) + a - 1
      n == IF Cell(CellOf(v)).block # "none" /\ m \in SameBlock(CellOf(v)) THEN m ELSE CellOf(v)
  IN  {w \in VobusOf(n) : Rank(w) = Rank(v) + 1}

(* vm_jump_cell_block: the engine has to follow. *)
Enter(n, block) ==
  /\ cellN' = AngleCell(n)
  /\ blockN' = IF AngleCell(n) = n THEN block ELSE 0
  /\ known' = FALSE /\ chosen' = agl

-----------------------------------------------------------------------------
(* Locating a position *)

(* The cells of the program, or of the chain; those of other angles are    *)
(* not counted.                                                            *)
FirstCell == IF pgc_based THEN 1 ELSE chain.map[PgN]
LastCell == IF pgc_based \/ PgN = Len(chain.map) THEN Len(chain.cells)
            ELSE chain.map[PgN + 1] - 1
(* Mutant: the cells of all angles. *)
CountedAll == FirstCell..LastCell

Counted == {n \in FirstCell..LastCell : Cell(n).block # "in"}
(* What dvdnav_get_position asserts: a counted cell is the current one.    *)
AssertHolds == cellN \in Counted
(* The loops that add up lengths, the first k of them but for some.        *)
SumTo(k, length, N) ==
  LET sum[m \in {0} \cup DOMAIN length] ==
        IF m = 0 THEN 0 ELSE sum[m - 1] + (IF m \in N THEN length[m] ELSE 0)
  IN  sum[k]
SumBefore(n, length, N) == SumTo(n - 1, length, N)
Before(n, length) == SumBefore(n, length, Counted)
Holding(target, length) ==
  {n \in Counted : LET b == Before(n, length) IN b <= target /\ target < b + length[n]}

(* Mutant: <= and < swapped. *)
ScanAdmapLate(block, next) ==
  LET hits == {v \in Vobus : v > 1 /\ Start(v - 1) < block /\ block <= Start(v)}
      v == CHOOSE w \in hits : \A u \in hits : w <= u
  IN  IF hits = {} THEN Start(Len(chain.vobus))
      ELSE IF next THEN Start(v) ELSE Start(v - 1)

(* dvdnav_scan_admap: the start of the VOBU that holds the block, or of    *)
(* the one behind it.  The last one is all it returns for a block in the   *)
(* last VOBU or before the first.                                          *)
ScanAdmap(block, next) ==
  LET hits == {v \in Vobus : v > 1 /\ Start(v - 1) <= block /\ block < Start(v)}
      v == CHOOSE w \in hits : \A u \in hits : w <= u
  IN  IF hits = {} THEN Start(Len(chain.vobus))
      ELSE IF next THEN Start(v) ELSE Start(v - 1)

(* dvdnav_get_position *)
Position == Before(cellN, Size) + CurSector - Cell(cellN).first
Length == Before(LastCell + 1, Size)

(* The cell and the sector of a target: the seek forward within the        *)
(* current cell goes on to the VOBU behind the current one, or to the next *)
(* cell; no cell when it fails.                                            *)
Fails == [cell |-> 0, sector |-> 0]
(* Mutant: no rule for seeking forward. *)
GoalBack(target, forward) ==
  LET n == CHOOSE n \in Holding(target, Size) : TRUE
  IN  IF Holding(target, Size) = {} THEN Fails
      ELSE [cell |-> n, sector |-> Cell(n).first + target - Before(n, Size)]

Goal(target, forward) ==
  LET n == CHOOSE n \in Holding(target, Size) : TRUE
      sector == Cell(n).first + target - Before(n, Size)
      next == ScanAdmap(sector, TRUE)
  IN  CASE Holding(target, Size) = {} -> Fails
        [] Holding(target, Size) # {} /\ ~(forward /\ n = cellN /\ ScanAdmap(sector, FALSE) <= CurSector)
             -> [cell |-> n, sector |-> sector]
        [] OTHER
             -> IF next <= Cell(n).last THEN [cell |-> n, sector |-> next]
                ELSE IF n = LastCell THEN Fails
                ELSE [cell |-> n + 1, sector |-> Cell(n + 1).first]

(* The target of a sector search, Behind or Ahead when it is refused.      *)
Refused == -1
Target(s) ==
  CASE s.origin = "set" -> IF s.offset >= s.len THEN Refused ELSE s.offset % Wrap
    [] s.origin = "cur" -> IF s.pos + s.offset >= s.len \/ s.pos + s.offset < 0 THEN Refused
                           ELSE s.pos + s.offset
    [] s.origin = "end" -> IF s.len < s.offset THEN Refused ELSE (s.len - s.offset) % Wrap

Seek(goal) ==
  /\ cur_cell_time' = 0
  /\ IF goal = Fails
     THEN /\ asked' = "error"
          /\ UNCHANGED vm
     ELSE /\ Enter(goal.cell, ScanAdmap(goal.sector, FALSE) - Cell(goal.cell).first)
          /\ hop' = TRUE /\ asked' = "ok"

-----------------------------------------------------------------------------
(* Calls of the application *)

(* Mutant: the time is not made relative to the cell. *)
TimeSearchFar(t) ==
  LET found == Holding(t, Playtime)
      n == CHOOSE n \in found : TRUE
  IN  /\ Seek(IF found = {} THEN Fails
              ELSE [cell |-> n, sector |-> Cell(n).first + (t * Size[n]) \div Playtime[n]])
      /\ UNCHANGED <<chain, agl, pgc_based, engine, seeking>>

TimeSearch(t) ==
  LET found == Holding(t, Playtime)
      n == CHOOSE n \in found : TRUE
      into == t - Before(n, Playtime)
  IN  /\ Seek(IF found = {} THEN Fails
              ELSE [cell |-> n, sector |-> Cell(n).first + (into * Size[n]) \div Playtime[n]])
      /\ UNCHANGED <<chain, agl, pgc_based, engine, seeking>>

(* dvdnav_sector_search asks for the position under one lock ...           *)
SectorSearch(offset, origin) ==
  /\ seeking = NotSeeking /\ origin \in {"set", "cur", "end"}
  /\ IF known /\ AssertHolds
     THEN /\ seeking' = [offset |-> offset, origin |-> origin, pos |-> Position, len |-> Length]
          /\ UNCHANGED asked
     ELSE /\ asked' = IF known THEN "assertion" ELSE "error"
          /\ UNCHANGED seeking
  /\ UNCHANGED <<chain, agl, pgc_based, engine, vm, cur_cell_time>>

(* ... and jumps under another. *)
SectorJump ==
  /\ seeking # NotSeeking /\ seeking' = NotSeeking
  /\ LET target == Target(seeking)
     IN  IF target = Refused
         THEN /\ asked' = "refused"
              /\ UNCHANGED <<vm, cur_cell_time>>
         ELSE Seek(Goal(target, target > seeking.pos))
  /\ UNCHANGED <<chain, agl, pgc_based, engine>>

(* dvdnav_angle_change, and vm_get_angle_info for its check. *)
AngleChange(a) ==
  /\ a \in 1..chain.angles /\ a # agl
  /\ agl' = a
  /\ UNCHANGED <<chain, pgc_based, engine, vm, cur_cell_time, seeking, asked>>

SetPgcBased ==
  /\ pgc_based' = ~pgc_based
  /\ UNCHANGED <<chain, agl, engine, vm, cur_cell_time, seeking, asked>>

(* Mutant: the cells of all angles. *)
CurrentTimeAll ==
  SumBefore(cellN, Playtime, Cells) + cur_cell_time

(* dvdnav_get_current_time: the cells before the current one, one of each  *)
(* block, and the time of the last NAV packet.                             *)
Outer == {n \in Cells : Cell(n).block # "in"}
CurrentTime == SumBefore(cellN, Playtime, Outer) + cur_cell_time

(* dvdnav_describe_title_chapters: the cells it adds up for a part, and    *)
(* the time at the end of each; a part without a chain, programs or cells  *)
(* is left out, and one without counted cells has no time.  A program      *)
(* behind the last one of its chain makes it fail.                         *)
HasPrograms(p) == p.pgc # NoChain /\ p.pgc.map # <<>>
Usable(p) == HasPrograms(p) /\ p.pgc.cells # <<>>
(* Mutant: the first cell of the next program as well. *)
PartCellsOver(p) ==
  LET from == p.pgc.map[p.pgn]
      to == IF p.pgn < Len(p.pgc.map) THEN p.pgc.map[p.pgn + 1] ELSE 0
  IN  {n \in {from} \cup from..to : p.pgc.cells[n].block # "in"}

PartCells(p) ==
  LET from == p.pgc.map[p.pgn]
      to == IF p.pgn < Len(p.pgc.map) THEN p.pgc.map[p.pgn + 1] - 1 ELSE 0
  IN  {n \in {from} \cup from..to : p.pgc.cells[n].block # "in"}
TimeOf(p, N) == SumTo(Len(p.pgc.cells), [n \in DOMAIN p.pgc.cells |-> p.pgc.cells[n].time], N)
(* The parts up to the i-th, each with the cells that are given for it.    *)
Upto(title, cells, i) ==
  SumTo(i, [j \in DOMAIN title |-> IF Usable(title[j]) THEN TimeOf(title[j], cells[j]) ELSE 0],
        DOMAIN title)
UsableParts(title) == {i \in DOMAIN title : Usable(title[i])}
Played(title) == [i \in UsableParts(title) |-> PartCells(title[i])]
Chapters(title) ==
  IF \E i \in DOMAIN title : HasPrograms(title[i]) /\ title[i].pgn > Len(title[i].pgc.map)
  THEN [times |-> <<>>, duration |-> 0]
  ELSE [times |-> [i \in DOMAIN title |->
                     IF Usable(title[i]) /\ PartCells(title[i]) # {} THEN Upto(title, Played(title), i) ELSE 0],
        duration |-> Upto(title, Played(title), Len(title))]

-----------------------------------------------------------------------------
(* The engine *)

Landing == Cell(cellN).first + blockN

(* It reads the NAV packet of a VOBU, and works out which one is next. *)
ReadVobu(v) ==
  /\ vobu' = v /\ ahead' = 0 /\ chosen' = agl
  /\ cur_cell_time' = chain.vobus[v].time
  /\ asked' = "none"

(* Mutant: the VOBU the seek led to is played. *)
HopInPlace ==
  /\ hop /\ hop' = FALSE
  /\ vobu' = VobuAt(Landing) /\ ahead' = 0
  /\ UNCHANGED <<chain, cellN, blockN, agl, pgc_based, known, chosen, cur_cell_time, seeking, asked>>
(* It announces a seek.  With several angles the VOBU there "might belong  *)
(* to the wrong angle": the machine is moved to the next VOBU, if there is *)
(* one.                                                                    *)
Hop ==
  /\ hop /\ hop' = FALSE
  /\ LET v == VobuAt(Landing)
     IN  /\ vobu' = v /\ ahead' = 0
         /\ IF chain.angles = 1 THEN UNCHANGED <<blockN, chosen>>
            ELSE /\ chosen' = agl
                 /\ \E w \in IF Followed(v, agl) = {} THEN {v} ELSE Followed(v, agl) :
                      blockN' = Start(w) - Cell(cellN).first
  /\ UNCHANGED <<chain, cellN, agl, pgc_based, known, cur_cell_time, seeking, asked>>
(* It announces the cell and reads the NAV packet where the machine is. *)
Arrive ==
  /\ ~known /\ ~hop /\ known' = TRUE
  /\ ReadVobu(VobuAt(Landing))
  /\ UNCHANGED <<chain, cellN, blockN, agl, pgc_based, hop, seeking>>

(* The next block, the next VOBU, or the next cell. *)
ReadBlock ==
  /\ known /\ ahead + 1 < Blocks(vobu)
  /\ ahead' = ahead + 1
  /\ UNCHANGED <<chain, agl, pgc_based, vobu, vm, cur_cell_time, seeking, asked>>
NextVobu ==
  /\ known /\ ahead + 1 = Blocks(vobu)
  /\ \E v \in Followed(vobu, chosen) : ReadVobu(v) /\ blockN' = Start(vobu) - Cell(cellN).first
  /\ UNCHANGED <<chain, cellN, agl, pgc_based, known, hop, seeking>>
NextCell ==
  /\ known /\ ahead + 1 = Blocks(vobu) /\ Followed(vobu, chosen) = {} /\ Following # {}
  /\ Enter(CHOOSE n \in Following : \A m \in Following : n <= m, 0)
  /\ asked' = "none"
  /\ UNCHANGED <<chain, agl, pgc_based, hop, engine, cur_cell_time, seeking>>

Init ==
  /\ chain \in Chains /\ pgc_based = FALSE
  /\ agl = 1 /\ cellN = 1 /\ blockN = 0
  /\ known = FALSE /\ hop = FALSE /\ chosen = 1 /\ vobu = 1 /\ ahead = 0 /\ cur_cell_time = 0
  /\ seeking = NotSeeking /\ asked = "none"

Next ==
  \/ \E t \in Times : TimeSearch(t)
  \/ \E o \in Offsets, origin \in {"set", "cur", "end"} : SectorSearch(o, origin)
  \/ SectorJump
  \/ \E a \in Angles : AngleChange(a)
  \/ SetPgcBased
  \/ Hop \/ Arrive \/ ReadBlock \/ NextVobu \/ NextCell

Spec == Init /\ [][Next]_vars

-----------------------------------------------------------------------------
(* Properties *)

NoBlock == \A n \in Cells : Cell(n).block = "none"

(* The position is a place within the program or chain, or the assertion   *)
(* of dvdnav_get_position fails, which it does in every cell of an angle   *)
(* but the first.  While the machine is in the cell of one angle and the   *)
(* engine, after a change, in another, the position may lie behind the     *)
(* length.                                                                 *)
PositionWithin ==
  known =>
    /\ AssertHolds <=> Cell(cellN).block # "in"
    /\ AssertHolds /\ Playing = cellN => Position \in 0..Length - 1

(* The sector that target asks for: the target-th of the sectors of the    *)
(* program or chain.                                                       *)
Sectors == UNION {Cell(n).first..Cell(n).last : n \in Counted}
Wanted(target) == CHOOSE s \in Sectors : Cardinality({r \in Sectors : r < s}) = target
SeekTarget(s) == CASE s.origin = "set" -> s.offset
                   [] s.origin = "cur" -> s.pos + s.offset
                   [] s.origin = "end" -> s.len - s.offset
Jumps == seeking # NotSeeking /\ seeking' = NotSeeking /\ asked' = "ok"

(* Outside angle blocks a sector search that succeeds goes to the start of *)
(* the VOBU with the sector asked for, in the cell of that VOBU; or to the *)
(* VOBU behind it, when it seeks forward and would end up at or before the *)
(* current sector.  It never leaves the program it found at its second     *)
(* lock, whatever was played since the first.                              *)
SeekLands ==
  [][Jumps /\ NoBlock =>
       LET target == SeekTarget(seeking)
           v == VobuAt(Wanted(target))
       IN  /\ target \in 0..Length - 1
           /\ cellN' \in FirstCell..LastCell
           /\ \E w \in VobusOf(cellN') :
                /\ Landing' = Start(w)
                /\ \/ w = v
                   \/ w = v + 1 /\ target > seeking.pos /\ Start(v) <= CurSector]_vars

(* A search forward from the current position goes to a place behind it;   *)
(* but in the last VOBU of the address map, which is its own next one, the *)
(* search goes back to its start.                                          *)
ForwardMovesOn ==
  [][Jumps /\ NoBlock /\ known /\ seeking.pos = Position /\ SeekTarget(seeking) > seeking.pos =>
       (Landing' > CurSector <=> vobu # Len(chain.vobus))]_vars

(* A time search goes to the VOBU that plays at the time asked for, as far *)
(* as blocks take equal times.                                             *)
TimeLands ==
  [][\A t \in Times : asked' = "ok" /\ NoBlock /\ UNCHANGED seeking /\ TimeSearch(t) =>
       \E w \in VobusOf(cellN') :
         LET at(v) == Before(cellN', Playtime) + chain.vobus[v].time
         IN  /\ Landing' = Start(w) /\ at(w) <= t
             /\ \A v \in VobusOf(cellN') : v > w => t <= at(v)]_vars

(* In a title of several angles the engine enters, in an angle block, only *)
(* VOBUs of one angle: the one selected when the NAV packet before was     *)
(* read or the cell was jumped to.  Searches may lead to a VOBU of another *)
(* angle, but that is passed over; unless there is no VOBU behind it: then *)
(* it is played though its angle was not selected.                         *)
AngleFollowed ==
  [][(vobu' # vobu \/ ~known) /\ known' /\ chain.angles > 1 /\ Cell(Playing').block # "none" =>
       \/ Playing' = BlockOf(Playing') + chosen - 1
       \/ ~known /\ vobu' = vobu /\ Followed(vobu, chosen) = {}]_vars

(* The time reported is the time the current VOBU plays at; but in the     *)
(* cells of other angles the block counts twice, and a search that failed  *)
(* has set the time back to the start of the cell.                         *)
VobuTime == SumBefore(BlockOf(cellN), Playtime, Outer) + chain.vobus[vobu].time
Twice == IF Cell(cellN).block = "in" THEN Playtime[BlockOf(cellN)] ELSE 0
Lost == IF asked # "none" THEN {chain.vobus[vobu].time} ELSE {}
TimeReported == known => VobuTime + Twice - CurrentTime \in {0} \cup Lost

(* The chapter times of a title never decrease, and the duration is the    *)
(* time of all cells of its parts, each of which goes on to the next part  *)
(* of its chain; but of the last program of a chain only the first cell    *)
(* counts, and of a part of several programs only the first program.       *)
CellsOf(title, i) ==
  LET p == title[i]
      next == {title[j].pgn : j \in {k \in DOMAIN title : title[k].pgc = p.pgc /\ title[k].pgn > p.pgn}}
  IN  {n \in p.pgc.map[p.pgn]..Len(p.pgc.cells) :
         p.pgc.cells[n].block # "in" /\ \A q \in next : n < p.pgc.map[q]}
Missed(title, i) ==
  LET p == title[i]
      behind(n) == IF p.pgn = Len(p.pgc.map) THEN n > p.pgc.map[p.pgn] ELSE n >= p.pgc.map[p.pgn + 1]
  IN  {n \in CellsOf(title, i) : behind(n)}
Whole(title) == [i \in UsableParts(title) |-> CellsOf(title, i)]
LeftOut(title) == [i \in UsableParts(title) |-> Missed(title, i)]
ChaptersCover ==
  \A title \in {t \in Titles : \E i \in DOMAIN t : t[i].pgc = chain} :
    LET c == Chapters(title)
        timed == {i \in UsableParts(title) : PartCells(title[i]) # {}}
    IN  c.times # <<>> =>
          /\ c.duration = Upto(title, Whole(title), Len(title)) - Upto(title, LeftOut(title), Len(title))
          /\ \A i, j \in timed : i < j => c.times[i] <= c.times[j]
          /\ \A i \in timed : c.times[i] <= c.duration

=============================================================================
