----------------------------- MODULE PlayerData -----------------------------
(* The event engine delivers the cell the machine is in, block by block: for *)
(* every disc that has one NAV packet at a sector, if the machine is never   *)
(* stopped; and, where cells have places of their own, if it is stopped but  *)
(* no title is played before it is polled again.                             *)
EXTENDS PlayerAnnounces

(* Cells of a file that share a NAV packet agree whether another one of     *)
(* their cell follows.                                                      *)
OneNav ==
  \A c, d \in Cells : VobFile(Disc[c].vts, Disc[c].domain) = VobFile(Disc[d].vts, Disc[d].domain) =>
    \A n \in Navs(c) \cap Navs(d) : NextNav(c, n) = NextNav(d, n)

(* A seek in a cell with angles may find a NAV packet of another file: one  *)
(* that has a next VOBU only where the cell sought has one as well.         *)
AnglesApart ==
  \A c, d \in Cells : Disc[c].angles =>
    \A n \in Navs(c) \cap Navs(d) : NextNav(c, n) = EndOfCell => NextNav(d, n) = EndOfCell

-----------------------------------------------------------------------------
(* NAV packets of a cell *)

LEMMA Scaling ==
  ASSUME NEW a \in Nat, NEW b \in Nat
  PROVE  /\ a < b => a * VobuSize + VobuSize <= b * VobuSize
         /\ a * VobuSize < b * VobuSize => a < b
<1>1. VobuSize \in Nat BY VobuAssumption
<1>2. ASSUME NEW d \in Nat, NEW e \in Nat PROVE (e + d) * VobuSize >= e * VobuSize
  <2>1. (e + d) * VobuSize = e * VobuSize + d * VobuSize BY <1>1
  <2>2. d * VobuSize >= 0 BY <1>1
  <2>3. e * VobuSize \in Int /\ d * VobuSize \in Int BY <1>1
  <2> QED BY <2>1, <2>2, <2>3
<1>3. ASSUME a < b PROVE a * VobuSize + VobuSize <= b * VobuSize
  <2>1. PICK d \in Nat : b = (a + 1) + d
    <3>1. b - (a + 1) \in Nat BY <1>3
    <3> QED BY <3>1
  <2>2. b * VobuSize >= (a + 1) * VobuSize BY <1>2, <2>1
  <2>3. (a + 1) * VobuSize = a * VobuSize + VobuSize BY <1>1
  <2> QED BY <2>2, <2>3
<1>4. ASSUME b <= a PROVE a * VobuSize >= b * VobuSize
  <2>1. PICK d \in Nat : a = b + d
    <3>1. a - b \in Nat BY <1>4
    <3> QED BY <3>1
  <2> QED BY <1>2, <2>1
<1>5. a * VobuSize \in Int /\ b * VobuSize \in Int BY <1>1
<1> QED BY <1>3, <1>4, <1>5

LEMMA NavsInCell ==
  ASSUME NEW c \in Cells, NEW n \in Navs(c)
  PROVE  /\ n \in Int /\ Start(c) <= n /\ n + VobuSize - 1 <= Last(c)
         /\ Last(c) \in Int /\ Start(c) \in Nat
         /\ n + VobuSize <= Last(c) => n + VobuSize \in Navs(c)
         /\ n + VobuSize > Last(c) => n + VobuSize - 1 = Last(c)
<1>1. VobuSize \in Nat \ {0, 1} /\ Start(c) \in Nat /\ Disc[c].vobus \in Nat \ {0}
  BY VobuAssumption, DiscFields
<1>2. PICK k \in 0..(Disc[c].vobus - 1) : n = Start(c) + k * VobuSize
  BY DEF Navs
<1>3. k \in Nat /\ k < Disc[c].vobus /\ k + 1 \in Nat BY <1>1, <1>2
<1>4. k * VobuSize \in Nat /\ Disc[c].vobus * VobuSize \in Nat BY <1>1, <1>3
<1>5. k * VobuSize + VobuSize <= Disc[c].vobus * VobuSize BY <1>1, <1>3, Scaling
<1>6. (k + 1) * VobuSize = k * VobuSize + VobuSize BY <1>1, <1>3
<1>7. n + VobuSize = Start(c) + (k + 1) * VobuSize BY <1>1, <1>2, <1>4, <1>6
<1>8. Last(c) = Start(c) + Disc[c].vobus * VobuSize - 1 BY DEF Last
<1>9. ASSUME n + VobuSize <= Last(c) PROVE n + VobuSize \in Navs(c)
  <2>1. (k + 1) * VobuSize < Disc[c].vobus * VobuSize BY <1>1, <1>4, <1>6, <1>7, <1>8, <1>9
  <2>2. k + 1 < Disc[c].vobus BY <1>1, <1>3, <2>1, Scaling
  <2>3. k + 1 \in 0..(Disc[c].vobus - 1) BY <1>1, <1>3, <2>2
  <2> QED BY <1>7, <2>3 DEF Navs
<1>10. n \in Int /\ Start(c) <= n /\ n + VobuSize - 1 <= Last(c) /\ Last(c) \in Int
  BY <1>1, <1>2, <1>4, <1>5, <1>8
<1>11. n + VobuSize > Last(c) => n + VobuSize - 1 = Last(c) BY <1>1, <1>10
<1> QED BY <1>1, <1>9, <1>10, <1>11

LEMMA StartIsNav ==
  ASSUME NEW c \in Cells
  PROVE  Start(c) \in Navs(c) /\ Start(c) + 0 \in Navs(c)
<1>1. 0 \in 0..(Disc[c].vobus - 1) /\ Start(c) \in Nat BY DiscFields
<1>2. Start(c) = Start(c) + 0 * VobuSize BY <1>1, VobuAssumption
<1>3. Start(c) \in Navs(c) BY <1>1, <1>2 DEF Navs
<1> QED BY <1>1, <1>3

-----------------------------------------------------------------------------
(* Blocks the machine may be at *)

AtVobu(v) == Start(v.cell) + v.blockN \in Navs(v.cell)
Saves(r) == r # None => Start(r.cell) + r.blockN \in Navs(r.cell)

LEMMA RegistersAt ==
  ASSUME NEW v \in VmStates, NEW w \in Registers(v), AtVobu(v)
  PROVE  AtVobu(w)
<1>1. PICK r \in ({v.button} \cup Buttons) \X Streams \X Streams :
        w = [v EXCEPT !.button = r[1], !.spu = r[2], !.audio = r[3]]
  BY DEF Registers
<1>2. w.cell = v.cell /\ w.blockN = v.blockN BY <1>1 DEF VmStates
<1> QED BY <1>2 DEF AtVobu

LEMMA PlayAt ==
  ASSUME NEW v \in VmStates, NEW c \in Cells
  PROVE  AtVobu(Play(v, c))
<1>1. Play(v, c).cell = c /\ Play(v, c).blockN = 0 BY DEF Play, VmStates
<1> QED BY <1>1, StartIsNav DEF AtVobu

LEMMA HopAt ==
  ASSUME NEW w \in VmStates, NEW n \in Nat, AtVobu(w)
  PROVE  AtVobu([w EXCEPT !.hop = @ + n])
<1>1. [w EXCEPT !.hop = @ + n].cell = w.cell /\ [w EXCEPT !.hop = @ + n].blockN = w.blockN
  BY DEF VmStates
<1> QED BY <1>1 DEF AtVobu

LEMMA CommandsAt ==
  ASSUME NEW v, Playable(v), Kept(rsm), Saves(rsm), AtVobu(v), NEW o \in Commands(v)
  PROVE  AtVobu(o.vm) /\ Saves(o.rsm)
<1>0. v \in VmStates /\ v.cell \in Cells BY DEF Playable
<1>1. CASE o \in Jumps(v)
  <2>1. PICK c \in Cells : o \in {Outcome(w, Saved(v, c), stopped) : w \in Registers(Play(v, c))}
    BY <1>1 DEF Jumps
  <2>2. PICK w \in Registers(Play(v, c)) : o = Outcome(w, Saved(v, c), stopped)
    BY <2>1
  <2>3. AtVobu(w) BY <1>0, PlayAt, PlayType, RegistersAt DEF Playable
  <2>4. Saves(Saved(v, c)) BY <1>0, StartIsNav DEF Saved, Saves
  <2> QED BY <2>2, <2>3, <2>4 DEF Outcome
<1>2. CASE o \in Resumes(v)
  <2>1. rsm # None BY <1>2 DEF Resumes
  <2>2. PICK b \in Buttons :
          o = Outcome([v EXCEPT !.cell = rsm.cell, !.vts = Disc[rsm.cell].vts,
                                !.blockN = rsm.blockN, !.button = b], rsm, stopped)
    BY <1>2, <2>1 DEF Resumes
  <2>3. o.vm.cell = rsm.cell /\ o.vm.blockN = rsm.blockN /\ o.rsm = rsm
    BY <1>0, <2>2 DEF Outcome, VmStates
  <2> QED BY <2>1, <2>3 DEF AtVobu, Saves
<1>3. CASE o \in Exits(v)
  BY <1>3 DEF Exits, Outcome
<1> QED BY <1>1, <1>2, <1>3 DEF Commands

(* After a command, hopped or not. *)
LEMMA AfterCommandAt ==
  ASSUME Typed, NEW v, Playable(v), AtVobu(v), Saves(rsm), NEW o \in Commands(v),
         Became(o) \/ \E n \in Nat : Became(Hop(o, n))
  PROVE  AtVobu(vm') /\ Saves(rsm')
<1>1. AtVobu(o.vm) /\ Saves(o.rsm) /\ o.vm \in VmStates
  BY CommandsType, CommandsAt DEF Typed, TypeOK, Running, Playable
<1>2. CASE Became(o) BY <1>1, <1>2 DEF Became
<1>3. CASE \E n \in Nat : Became(Hop(o, n))
  <2>1. PICK n \in Nat : Became(Hop(o, n)) BY <1>3
  <2> DEFINE h == [o.vm EXCEPT !.hop = @ + n]
  <2>2. o = Outcome(o.vm, o.rsm, o.stopped) BY OutcomeForm
  <2>3. Hop(Outcome(o.vm, o.rsm, o.stopped), n) = Outcome(h, o.rsm, o.stopped) BY <1>1, HopType
  <2>4. AtVobu(h) BY <1>1, HopAt
  <2> HIDE DEF h
  <2>5. vm' = h /\ rsm' = o.rsm BY <2>1, <2>2, <2>3 DEF Became, Outcome
  <2> QED BY <1>1, <2>4, <2>5
<1> QED BY <1>2, <1>3

-----------------------------------------------------------------------------
(* The invariants *)

(* The machine, and its resume information, are at a VOBU of their cell.    *)
AtVobus == (vm.cell # None => AtVobu(vm)) /\ Saves(rsm)

(* The VOBU read is one of a cell, or about to be.                          *)
VobuOf(c) ==
  /\ vobu.start \in Navs(c)
  /\ \/ vobu.next = 0 /\ vobu.length = 0 /\ vobu.blockN = 0
     \/ /\ vobu.next = NextNav(c, vobu.start) /\ vobu.length = VobuSize - 1
        /\ vobu.blockN <= vobu.length

(* While the machine is in the cell told last, the VOBU is one of it.       *)
Aligned ==
  /\ started /\ ui # "clear" /\ file # None /\ pos.cell # -1
  /\ vm.restart = pos.restart /\ Disc[vm.cell].domain = pos.domain
  => VobuOf(vm.cell)

(* The last sector heard is where the VOBU is; at the end of a cell its last. *)
HeardHere == heard = IF vobu.length = 0 THEN None ELSE vobu.start + vobu.blockN
Heard == HeardHere /\ (step = "leave" => heard = Last(vm.cell))

(* A still that is on belongs to the end of the cell, or nothing was heard.  *)
StillHeard ==
  /\ started /\ ui # "clear" /\ file # None /\ pos.cell # -1
  /\ vm.restart = pos.restart /\ Disc[vm.cell].domain = pos.domain
  /\ pos.still
  => heard = None \/ (Disc[vm.cell].still /\ heard = Last(vm.cell))

(* While the machine is in the cell told last, no hop is under way, and     *)
(* before the first VOBU is read playback stands at the machine's block.    *)
AtEntry ==
  /\ started /\ ui # "clear" /\ file # None /\ pos.cell # -1
  /\ vm.restart = pos.restart /\ Disc[vm.cell].domain = pos.domain
  => /\ pos.hop = vm.hop
     /\ vobu.length = 0 => vobu.start = Start(vm.cell) + vm.blockN

Inv ==
  Typed /\ Told /\ KnownByCount /\ AtVobus /\ Aligned /\ Heard /\ StillHeard /\ AtEntry

LEMMA VobuFields ==
  ASSUME Typed
  PROVE  /\ vobu.start \in Int /\ vobu.length \in Nat /\ vobu.blockN \in Nat
         /\ vobu.next \in Int \cup {EndOfCell}
         /\ vobu \in [start : Int, length : Nat, blockN : Nat, next : Int \cup {EndOfCell}]
BY DEF Typed, TypeOK

LEMMA NowAt ==
  ASSUME Typed, AtVobus, Alive
  PROVE  Playable(Now) /\ Now \in VmStates /\ AtVobu(Now) /\ Saves(rsm')
<1>1. Playable(Now) /\ Now \in VmStates BY NowPlayable DEF Alive, Playable
<1>2. CASE started
  BY <1>1, <1>2, NoneAssumption DEF AtVobus, Now, Playable, Alive
<1>3. CASE ~started
  <2>1. NoVM \in VmStates
    BY RestartAssumption, ButtonAssumption, StreamAssumption DEF NoVM, VmStates
  <2>2. AtVobu(Now) BY <1>3, <2>1, PlayAt, DiscAssumption DEF Now, Booted
  <2>3. Saves(rsm') BY <1>3 DEF Alive, Saves
  <2> QED BY <1>1, <2>2, <2>3
<1> QED BY <1>2, <1>3

(* What the engine reads from is the cell the machine is in.                *)
LEMMA PlacedAligned ==
  ASSUME Inv, Placed
  PROVE  /\ started /\ Now = vm /\ vm.cell \in Cells /\ VobuOf(vm.cell)
         /\ pos.start = Start(vm.cell) /\ pos.restart = vm.restart
         /\ file = VobFile(vm.vts, Disc[vm.cell].domain)
         /\ file = VobFile(Disc[vm.cell].vts, Disc[vm.cell].domain)
         /\ AtVobu(vm)
<1>1. Playable(Now) /\ Alive BY NowPlayable DEF Inv, Placed, Calm, Alive
<1>2. /\ file # None /\ pos.cell = Disc[Now.cell].cellN /\ pos.start = Start(Now.cell)
      /\ pos.restart = Now.restart /\ pos.domain = Disc[Now.cell].domain /\ pos.vts = Now.vts
  BY DEF Placed, Moved, NewCell
<1>3. pos.cell # -1 BY <1>1, <1>2, DiscFields DEF Playable
<1>4. started /\ Now = vm /\ ui # "clear"
  BY <1>1, <1>2 DEF Inv, KnownByCount, Now, Alive, Polling
<1>5. VobuOf(vm.cell) BY <1>2, <1>3, <1>4 DEF Inv, Aligned
<1>6. vm.cell \in Cells /\ AtVobu(vm) BY <1>1, <1>4, NoneAssumption DEF Playable, Inv, AtVobus
<1>7. file = VobFile(vm.vts, Disc[vm.cell].domain) BY <1>2, <1>4 DEF Inv, Told
<1>8. VobFile(vm.vts, Disc[vm.cell].domain) = VobFile(Disc[vm.cell].vts, Disc[vm.cell].domain)
  BY <1>1, <1>4 DEF Playable, VobFile
<1> QED BY <1>2, <1>4, <1>5, <1>6, <1>7, <1>8

(* The NAV packet read next is one of the cell, and what it says of the    *)
(* next one holds of the cell.                                              *)
LEMMA NavRead ==
  ASSUME Typed, OneNav, NEW d \in Cells, VobuOf(d), file = VobFile(Disc[d].vts, Disc[d].domain),
         vobu.next # EndOfCell, NEW c \in NavAt(file, NextSector)
  PROVE  NextSector \in Navs(d) /\ NextNav(c, NextSector) = NextNav(d, NextSector)
<1>1. vobu.start \in Int BY VobuFields
<1>2. NextSector \in Navs(d)
  <2>1. CASE vobu.next = 0
    <3>1. vobu.start + 0 = vobu.start BY <1>1
    <3> QED BY <2>1, <3>1 DEF NextSector, VobuOf
  <2>2. CASE vobu.next = NextNav(d, vobu.start)
    <3>1. vobu.next = VobuSize /\ ~(vobu.start + VobuSize > Last(d))
      BY <2>2 DEF NextNav
    <3>2. vobu.start + VobuSize <= Last(d)
      BY <1>1, <3>1, NavsInCell, VobuAssumption DEF VobuOf
    <3> QED BY <3>1, <3>2, NavsInCell DEF NextSector, VobuOf
  <2> QED BY <2>1, <2>2 DEF VobuOf
<1>3. c \in Cells /\ VobFile(Disc[c].vts, Disc[c].domain) = file /\ NextSector \in Navs(c)
  BY DEF NavAt
<1> QED BY <1>2, <1>3 DEF OneNav

(* The end of the last VOBU is the end of the cell.                         *)
LEMMA EndHeard ==
  ASSUME Typed, HeardHere, NEW d \in Cells, VobuOf(d), VobuDone, vobu.next = EndOfCell
  PROVE  heard = Last(d)
<1>2. vobu.blockN >= vobu.length
  BY DEF VobuDone
<1>3. vobu.next # 0 BY NoneAssumption
<1>4. /\ NextNav(d, vobu.start) = EndOfCell /\ vobu.length = VobuSize - 1
      /\ vobu.blockN <= vobu.length
  BY <1>2, <1>3 DEF VobuOf
<1>5. vobu.start + VobuSize > Last(d)
  BY <1>4, VobuAssumption, NoneAssumption DEF NextNav
<1>6. vobu.start + VobuSize - 1 = Last(d)
  BY <1>5, NavsInCell DEF VobuOf
<1>7. vobu.start \in Int /\ vobu.blockN \in Nat /\ vobu.length \in Nat /\ VobuSize \in Nat \ {0, 1}
  BY VobuFields, VobuAssumption
<1>8. heard = vobu.start + vobu.blockN
  BY <1>4, <1>7 DEF HeardHere
<1>9. vobu.start + vobu.blockN = Last(d)
  BY <1>2, <1>4, <1>6, <1>7
<1> QED BY <1>8, <1>9

(* What is handed out lies in the cell, and goes on where the last sector   *)
(* was, or at a NAV packet.                                                 *)
LEMMA Delivered ==
  ASSUME Typed, HeardHere, OneNav, NEW d \in Cells, VobuOf(d),
         file = VobFile(Disc[d].vts, Disc[d].domain), Delivers
  PROVE  /\ event'.sector \in Start(d)..Last(d)
         /\ IF heard = None THEN event'.sector \in Navs(d) ELSE event'.sector = heard + 1
<1>1. /\ vobu.start \in Int /\ vobu.length \in Nat /\ vobu.blockN \in Nat
      /\ VobuSize \in Nat \ {0, 1}
  BY VobuFields, VobuAssumption
<1>2. CASE ReadNav
  <2>1. event'.sector = NextSector /\ NavAt(file, NextSector) # {} /\ vobu.next # EndOfCell /\ VobuDone
    BY <1>2 DEF ReadNav, Returns
  <2>2. NextSector \in Navs(d) BY <2>1, NavRead
  <2>3. NextSector \in Start(d)..Last(d) BY <2>2, NavsInCell, VobuAssumption
  <2>4. CASE vobu.length = 0
    BY <2>1, <2>2, <2>3, <2>4 DEF HeardHere
  <2>5. CASE vobu.length # 0
    <3>1. vobu.next = NextNav(d, vobu.start) /\ vobu.length = VobuSize - 1
          /\ vobu.blockN <= vobu.length
      BY <2>5 DEF VobuOf
    <3>2. vobu.next = VobuSize BY <2>1, <3>1 DEF NextNav
    <3>3. vobu.blockN = VobuSize - 1 BY <1>1, <2>1, <3>1 DEF VobuDone
    <3>4. NextSector = vobu.start + vobu.blockN + 1 BY <1>1, <3>2, <3>3 DEF NextSector
    <3>5. heard = vobu.start + vobu.blockN /\ heard # None
      BY <1>1, <2>5, NoneAssumption DEF HeardHere
    <3> QED BY <2>1, <2>3, <3>4, <3>5
  <2> QED BY <2>4, <2>5
<1>3. CASE ReadBlock(TRUE)
  <2>1. event'.sector = vobu.start + vobu'.blockN /\ vobu.blockN < vobu.length
        /\ vobu'.blockN = vobu.blockN + 1
    BY <1>1, <1>3, VobuFields DEF ReadBlock, Returns, VobuDone
  <2>2. heard = vobu.start + vobu.blockN /\ heard # None
    BY <1>1, <2>1, NoneAssumption DEF HeardHere
  <2>3. vobu.start \in Navs(d) /\ vobu.length = VobuSize - 1
    BY <1>1, <2>1 DEF VobuOf
  <2>4. Start(d) <= vobu.start /\ vobu.start + VobuSize - 1 <= Last(d)
        /\ Start(d) \in Int /\ Last(d) \in Int
    BY <2>3, NavsInCell
  <2> QED BY <1>1, <2>1, <2>2, <2>3, <2>4
<1> QED BY <1>2, <1>3 DEF Delivers

-----------------------------------------------------------------------------
(* The machine stays at VOBUs *)

LEMMA EngineAt ==
  ASSUME Typed, AtVobus, AnglesApart, GetNextBlock,
         Placed => VobuOf(Now.cell) /\ pos.start = Start(Now.cell)
  PROVE  AtVobus'
<1>a. CASE StartFails \/ Stop
  BY <1>a DEF StartFails, Stop, AtVobus, AtVobu, Saves
<1>b. Alive => Playable(Now) /\ Now \in VmStates /\ AtVobu(Now) /\ Saves(rsm')
  BY NowAt
<1>1. CASE Alive /\ vm' = Now
  BY <1>1, <1>b DEF AtVobus, AtVobu
<1>2. CASE HopChannel
  <2>1. Alive BY <1>2 DEF HopChannel
  <2>2. CASE ~SeekSkips BY <1>1, <1>2, <2>1, <2>2 DEF HopChannel
  <2>3. CASE SeekSkips
    <3>1. PICK c \in NavAt(file, Entry) :
            vm' = [Now EXCEPT !.blockN = IF NextNav(c, Entry) = EndOfCell THEN @ ELSE @ + VobuSize]
      BY <1>2, <2>3 DEF HopChannel
    <3>2. CASE NextNav(c, Entry) = EndOfCell
      <4>1. vm'.cell = Now.cell /\ vm'.blockN = Now.blockN BY <1>b, <2>1, <3>1, <3>2 DEF VmStates
      <4> QED BY <1>b, <2>1, <4>1 DEF AtVobus, AtVobu
    <3>3. CASE NextNav(c, Entry) # EndOfCell
      <4>1. vm'.cell = Now.cell /\ vm'.blockN = Now.blockN + VobuSize
        BY <1>b, <2>1, <3>1, <3>3 DEF VmStates
      <4>2. Now.cell \in Cells /\ Entry \in Navs(Now.cell) /\ Disc[Now.cell].angles
        BY <1>b, <2>1, <2>3 DEF Playable, AtVobu, Entry, SeekSkips
      <4>3. c \in Cells /\ Entry \in Navs(c) BY DEF NavAt
      <4>4. NextNav(Now.cell, Entry) # EndOfCell BY <3>3, <4>2, <4>3 DEF AnglesApart
      <4>5. ~(Entry + VobuSize > Last(Now.cell)) BY <4>4 DEF NextNav
      <4>6. Entry + VobuSize \in Navs(Now.cell)
        BY <4>2, <4>5, NavsInCell, VobuAssumption
      <4>7. Start(Now.cell) + (Now.blockN + VobuSize) = Entry + VobuSize
        BY <1>b, <2>1, <4>2, FieldsOfVm, DiscFields, VobuAssumption DEF Entry
      <4> QED BY <1>b, <2>1, <4>1, <4>6, <4>7 DEF AtVobus, AtVobu
    <3> QED BY <3>2, <3>3
  <2> QED BY <2>2, <2>3
<1>3. CASE ReadNav
  <2>1. Placed BY <1>3 DEF ReadNav, Playing, Tuned
  <2>2. VobuOf(Now.cell) /\ pos.start = Start(Now.cell) /\ Now.cell \in Cells /\ Alive
    BY <1>b, <2>1 DEF Placed, Calm, Playable
  <2>3. vm'.cell = Now.cell /\ vm'.blockN = vobu.start - pos.start
    BY <1>3, <1>b, <2>2 DEF ReadNav, VmStates
  <2>4. Start(Now.cell) + (vobu.start - Start(Now.cell)) = vobu.start
    BY <2>2, VobuFields, DiscFields
  <2> QED BY <1>b, <2>2, <2>3, <2>4 DEF AtVobus, AtVobu, VobuOf
<1>4. CASE NextCell
  <2>1. vm.cell # None /\ Playable(vm) /\ AtVobu(vm) /\ Saves(rsm)
    BY <1>4 DEF NextCell, Typed, Running, AtVobus
  <2>2. PICK o \in Commands(vm) : Became(o) BY <1>4 DEF NextCell
  <2> QED BY <2>1, <2>2, AfterCommandAt DEF AtVobus
<1>5. CASE HoldStill \/ CellLeft
  BY <1>5 DEF HoldStill, CellLeft, vmVars, AtVobus, AtVobu, Saves
<1>6. Highlight \/ Wait \/ VtsChange \/ VtsFails \/ CellChange \/ HopFails \/ ClutChange \/ SpuChange
        \/ AudioChange \/ StillFrame \/ LeaveCell \/ NavFails \/ ReadBlock(TRUE) \/ ReadBlock(FALSE)
      => Alive /\ vm' = Now
  BY DEF Highlight, Wait, VtsChange, VtsFails, CellChange, HopFails, ClutChange, SpuChange,
     AudioChange, StillFrame, LeaveCell, NavFails, ReadBlock, EndOfPlay, Playing, Tuned, Placed, Calm
<1> QED BY <1>a, <1>1, <1>2, <1>3, <1>4, <1>5, <1>6 DEF GetNextBlock

LEMMA UserAt ==
  ASSUME Typed, AtVobus, UserCall \/ Finish
  PROVE  AtVobus'
<1>a. /\ vm \in VmStates /\ Saves(rsm) /\ (vm.cell # None => Playable(vm) /\ AtVobu(vm))
      /\ Kept(rsm)
  BY DEF Typed, TypeOK, Running, AtVobus
<1>1. CASE UNCHANGED <<vm, rsm>>
  BY <1>1 DEF AtVobus, AtVobu, Saves
<1>2. CASE Reset
  BY <1>2 DEF Reset, NoVM, AtVobus, Saves
<1>3. CASE PartPlay
  <2>1. Now \in VmStates
    BY <1>3, <1>a, BootedType DEF Now, Playable
  <2>2. PICK c \in Cells : \E w \in Registers(Play(Now, c)) : vm' = [w EXCEPT !.hop = @ + 1]
    BY <1>3 DEF PartPlay
  <2>3. PICK w \in Registers(Play(Now, c)) : vm' = [w EXCEPT !.hop = @ + 1]
    BY <2>2
  <2>4. w \in VmStates /\ AtVobu(w)
    BY <2>1, PlayType, PlayAt, RegistersType, RegistersAt DEF Playable
  <2>5. AtVobu(vm') BY <2>3, <2>4, HopAt, 1 \in Nat
  <2>6. Saves(rsm') BY <1>3, <1>a DEF PartPlay, Saves
  <2> QED BY <2>5, <2>6 DEF AtVobus
<1>4. CASE GoUp
  <2>1. PICK o \in Commands(vm) : Became(o) BY <1>4 DEF GoUp
  <2> QED BY <1>4, <1>a, <2>1, AfterCommandAt DEF GoUp, HasCell, AtVobus
<1>5. CASE PgSearch
  <2>1. PICK o \in Commands(vm) : Became(Hop(o, 1)) BY <1>5 DEF PgSearch
  <2> QED BY <1>5, <1>a, <2>1, 1 \in Nat, AfterCommandAt DEF PgSearch, HasCell, AtVobus
<1>6. CASE MenuCall
  <2>0. Playable(vm) /\ AtVobu(vm) BY <1>6, <1>a DEF MenuCall, HasCell
  <2> DEFINE left == IF IsMenu(vm.cell) THEN rsm ELSE [cell |-> vm.cell, blockN |-> vm.blockN]
  <2>1. PICK o \in {Outcome(w, left, FALSE) : w \in UNION {Registers(Play(vm, c)) : c \in Cells}}
                   \cup Resumes(vm) : Became(Hop(o, 1))
    BY <1>6 DEF MenuCall
  <2>2. Saves(left) BY <1>a, <2>0 DEF Saves, AtVobu
  <2> HIDE DEF left
  <2>3. CASE o \in Resumes(vm)
    BY <1>a, <2>0, <2>1, <2>3, 1 \in Nat, AfterCommandAt DEF Commands, AtVobus
  <2>4. CASE o \notin Resumes(vm)
    <3>1. PICK w \in UNION {Registers(Play(vm, c)) : c \in Cells} : o = Outcome(w, left, FALSE)
      BY <2>1, <2>4
    <3>2. PICK c \in Cells : w \in Registers(Play(vm, c)) BY <3>1
    <3>3. w \in VmStates /\ AtVobu(w)
      BY <1>a, <3>2, PlayType, PlayAt, RegistersType, RegistersAt DEF Playable
    <3>4. Hop(o, 1) = Outcome([w EXCEPT !.hop = @ + 1], left, FALSE)
      <4>1. \A r, s : Hop(Outcome(w, r, s), 1) = Outcome([w EXCEPT !.hop = @ + 1], r, s)
        BY <3>3, HoppedOnce
      <4> QED BY <3>1, <4>1, Zenon
    <3>5. vm' = [w EXCEPT !.hop = @ + 1] /\ rsm' = left
      BY <2>1, <3>4 DEF Became, Outcome
    <3>6. AtVobu(vm') BY <3>3, <3>5, HopAt, 1 \in Nat
    <3> QED BY <2>2, <3>5, <3>6 DEF AtVobus
  <2> QED BY <2>3, <2>4
<1>7. CASE ActivateCmd
  <2>1. CASE ~UNCHANGED <<vm, rsm, stopped>>
    <3>1. PICK b \in Buttons :
            LET v == [vm EXCEPT !.button = b] IN
            \E o \in {Hop(j, 1) : j \in Jumps(v) \cup Resumes(v)} \cup Exits(v)
                     \cup {Outcome(w, rsm, stopped) : w \in Registers(v)} : Became(o)
      BY <1>7, <2>1 DEF ActivateCmd
    <3> DEFINE v == [vm EXCEPT !.button = b]
    <3>2. Playable(v) /\ v \in VmStates
      BY <1>7, <1>a, FieldsType DEF ActivateCmd, HasCell
    <3>3. AtVobu(v)
      <4>1. v.cell = vm.cell /\ v.blockN = vm.blockN BY <1>a DEF VmStates
      <4> QED BY <1>7, <1>a, <4>1 DEF ActivateCmd, HasCell, AtVobu
    <3>4. PICK o \in {Hop(j, 1) : j \in Jumps(v) \cup Resumes(v)} \cup Exits(v)
                     \cup {Outcome(w, rsm, stopped) : w \in Registers(v)} : Became(o)
      BY <3>1
    <3> HIDE DEF v
    <3>5. CASE o \in {Hop(j, 1) : j \in Jumps(v) \cup Resumes(v)}
      <4>1. PICK j \in Jumps(v) \cup Resumes(v) : o = Hop(j, 1) BY <3>5
      <4> QED BY <1>a, <3>2, <3>3, <3>4, <4>1, 1 \in Nat, AfterCommandAt DEF Commands, AtVobus
    <3>6. CASE o \in Exits(v)
      BY <1>a, <3>2, <3>3, <3>4, <3>6, AfterCommandAt DEF Commands, AtVobus
    <3>7. CASE o \in {Outcome(w, rsm, stopped) : w \in Registers(v)}
      <4>1. PICK w \in Registers(v) : o = Outcome(w, rsm, stopped) BY <3>7
      <4>2. vm' = w /\ rsm' = rsm BY <3>4, <4>1 DEF Became, Outcome
      <4>3. AtVobu(w) BY <3>2, <3>3, <4>1, RegistersAt
      <4> QED BY <1>a, <4>2, <4>3 DEF AtVobus
    <3> QED BY <3>4, <3>5, <3>6, <3>7
  <2> QED BY <1>1, <2>1
<1>8. CASE Select
  <2>1. vm'.cell = vm.cell /\ vm'.blockN = vm.blockN /\ rsm' = rsm
    BY <1>8, <1>a DEF Select, VmStates
  <2> QED BY <1>a, <2>1 DEF AtVobus, AtVobu
<1>9. CASE Seek
  <2>1. CASE ~UNCHANGED <<vm, rsm>>
    <3>1. rsm' = rsm BY <1>9 DEF Seek
    <3>2. PICK c \in Cells : \E n \in Navs(c) :
            vm' = [Play(vm, c) EXCEPT !.blockN = n - Start(c), !.hop = @ + HopSeek]
      BY <1>9, <2>1, <3>1 DEF Seek
    <3>3. PICK n \in Navs(c) :
            vm' = [Play(vm, c) EXCEPT !.blockN = n - Start(c), !.hop = @ + HopSeek]
      BY <3>2
    <3>4. Play(vm, c) \in VmStates /\ Play(vm, c).cell = c BY <1>a, PlayType DEF Playable
    <3>5. vm'.cell = c /\ vm'.blockN = n - Start(c) BY <3>3, <3>4 DEF VmStates
    <3>6. Start(c) + (n - Start(c)) = n BY NavsInCell
    <3> QED BY <1>a, <3>1, <3>5, <3>6 DEF AtVobus, AtVobu
  <2> QED BY <1>1, <2>1
<1>10. CASE Press
  <2>1. CASE PressJumps
    <3>1. PICK o \in Jumps(vm) \cup Resumes(vm) : Became(Hop(o, 1)) BY <2>1 DEF PressJumps
    <3> QED BY <1>a, <2>1, <3>1, 1 \in Nat, AfterCommandAt DEF Commands, PressJumps, HasCell, AtVobus
  <2>2. CASE PressStays
    <3>1. PICK o \in Exits(vm) \cup {Outcome(w, rsm, stopped) : w \in Registers(vm)} : Became(o)
      BY <2>2 DEF PressStays
    <3>2. CASE o \in Exits(vm)
      BY <1>a, <2>2, <3>1, <3>2, AfterCommandAt DEF Commands, PressStays, HasCell, AtVobus
    <3>3. CASE o \notin Exits(vm)
      <4>1. PICK w \in Registers(vm) : o = Outcome(w, rsm, stopped) BY <3>1, <3>3
      <4>2. vm' = w /\ rsm' = rsm BY <3>1, <4>1 DEF Became, Outcome
      <4>3. AtVobu(w) BY <1>a, <2>2, <4>1, RegistersAt DEF PressStays, HasCell
      <4> QED BY <1>a, <4>2, <4>3 DEF AtVobus
    <3> QED BY <3>2, <3>3
  <2>3. CASE PressLeaves
    <3>1. PICK o \in Commands(vm) : Became(o) BY <2>3 DEF PressLeaves
    <3> QED BY <1>a, <2>3, <3>1, AfterCommandAt DEF PressLeaves, HasCell, AtVobus
  <2>4. CASE PressFails
    BY <1>1, <2>4 DEF PressFails
  <2> QED BY <1>10, <2>1, <2>2, <2>3, <2>4 DEF Press
<1>11. StillSkip \/ WaitSkip \/ StopCall \/ SeekBegins \/ PressBegins \/ SkipWrites \/ Clear \/ ForceHighlight
       => UNCHANGED <<vm, rsm>>
  BY DEF StillSkip, WaitSkip, StopCall, SeekBegins, PressBegins, SkipWrites, Clear, ForceHighlight, vmVars
<1> QED BY <1>1, <1>2, <1>3, <1>4, <1>5, <1>6, <1>7, <1>8, <1>9, <1>10, <1>11 DEF UserCall, Finish

-----------------------------------------------------------------------------
(* The VOBU stays one of the cell *)

LEMMA StaysPut ==
  ASSUME Inv, ui # "clear", Silent,
         \/ vm'.cell = vm.cell /\ vm'.restart = vm.restart
         \/ Anew(vm, vm') /\ (vm.restart = pos.restart \/ MayJump),
         file # None, pos.cell # -1, vm'.restart = pos.restart, Disc[vm'.cell].domain = pos.domain
  PROVE  started /\ vm.restart = pos.restart /\ vm'.cell = vm.cell
<1>1. started BY DEF Inv, KnownByCount
<1>2. PICK c \in Cells : /\ Disc[c].domain = pos.domain
                         /\ vm.restart = pos.restart =>
                              vm.cell = c \/ (IsMenu(c) /\ ~IsMenu(vm.cell))
  BY DEF Inv, KnownByCount
<1>3. vm.restart \in 0..RestartMod - 1 /\ pos.restart \in 0..RestartMod - 1
  BY FieldsOfVm DEF Inv, Typed, TypeOK, Positions
<1>4. (vm'.cell = vm.cell /\ vm'.restart = vm.restart) \/ Same(vm, vm')
  BY <1>3, CountDiffers DEF Anew, MayJump
<1> QED BY <1>1, <1>2, <1>4 DEF Same, IsMenu

LEMMA AlignedFrame ==
  ASSUME Inv, ui # "clear", UNCHANGED vobu, Silent,
         \/ vm'.cell = vm.cell /\ vm'.restart = vm.restart
         \/ Anew(vm, vm') /\ (vm.restart = pos.restart \/ MayJump)
  PROVE  Aligned'
<1> SUFFICES ASSUME file # None, pos.cell # -1, vm'.restart = pos.restart,
                    Disc[vm'.cell].domain = pos.domain
             PROVE  VobuOf(vm'.cell)
  BY DEF Aligned, VobuOf, Silent
<1>1. started /\ vm.restart = pos.restart /\ vm'.cell = vm.cell BY StaysPut
<1> QED BY <1>1 DEF Inv, Aligned

(* Where a cell or a hop begins. *)
LEMMA EntryAligned ==
  ASSUME Inv, Alive, vm'.cell = Now.cell, vobu' = EntryVobu
  PROVE  Aligned'
<1>1. Entry \in Navs(Now.cell) BY NowAt DEF Inv, Entry, AtVobu
<1>2. vobu'.start = Entry /\ vobu'.next = 0 /\ vobu'.length = 0 /\ vobu'.blockN = 0
  BY DEF EntryVobu
<1> QED BY <1>1, <1>2 DEF Aligned, VobuOf

LEMMA EngineAligned ==
  ASSUME Inv, NeverStops, OneNav, GetNextBlock
  PROVE  Aligned'
<1>a. pos \in Positions /\ told \in ToldType BY DEF Inv, Typed, TypeOK
<1>b. ~StartFails /\ ~Stop BY DEF StartFails, Stop, NeverStops, Inv, KnownByCount
<1>c. Alive => Now \in VmStates BY NowPlayable DEF Inv, Alive, Playable
<1>1. CASE HopChannel
  <2>1. Alive /\ vobu' = EntryVobu BY <1>1 DEF HopChannel
  <2>2. vm'.cell = Now.cell BY <1>1, <1>c, <2>1 DEF HopChannel, VmStates
  <2> QED BY <2>1, <2>2, EntryAligned
<1>2. CASE CellChange
  BY <1>2, EntryAligned DEF CellChange, Calm
<1>3. CASE VtsChange
  <2>1. pos'.cell = -1 BY <1>3, <1>a DEF VtsChange, Positions
  <2> QED BY <2>1 DEF Aligned
<1>4. CASE VtsFails
  BY <1>4 DEF VtsFails, Aligned
<1>5. CASE ReadNav
  <2>1. Placed /\ vobu.next # EndOfCell BY <1>5 DEF ReadNav, Playing, Tuned
  <2>2. PICK c \in NavAt(file, NextSector) :
          vobu' = [start |-> NextSector, length |-> VobuSize - 1, blockN |-> 0,
                   next |-> NextNav(c, NextSector)]
    BY <1>5 DEF ReadNav
  <2>3. NextSector \in Navs(vm.cell) /\ NextNav(c, NextSector) = NextNav(vm.cell, NextSector)
    BY <2>1, PlacedAligned, NavRead DEF Inv
  <2>4. vm'.cell = vm.cell
    BY <1>5, <1>c, <2>1, PlacedAligned DEF ReadNav, VmStates, Placed, Calm
  <2>5. 0 <= VobuSize - 1 BY VobuAssumption
  <2>6. VobuOf(vm.cell)' BY <2>2, <2>3, <2>4, <2>5 DEF VobuOf
  <2> QED BY <2>6 DEF Aligned
<1>6. CASE ReadBlock(TRUE) \/ ReadBlock(FALSE)
  <2>1. Placed /\ vobu' = [vobu EXCEPT !.blockN = @ + 1] /\ ~VobuDone /\ vm' = Now
    BY <1>6 DEF ReadBlock, Playing, Tuned
  <2>2. vm' = vm /\ VobuOf(vm.cell) BY <2>1, PlacedAligned
  <2>3. /\ vobu'.start = vobu.start /\ vobu'.length = vobu.length
        /\ vobu'.next = vobu.next /\ vobu'.blockN = vobu.blockN + 1
    BY <2>1, VobuFields DEF Inv
  <2>4. vobu.blockN < vobu.length /\ vobu.blockN \in Nat /\ vobu.length \in Nat
    BY <2>1, VobuFields DEF Inv, VobuDone
  <2>5. VobuOf(vm.cell)' BY <2>2, <2>3, <2>4, VobuAssumption DEF VobuOf
  <2> QED BY <2>5 DEF Aligned
<1>7. CASE NextCell
  <2>1. vm.cell # None /\ ~stopped /\ vm.restart = pos.restart /\ ui # "clear"
    BY <1>7 DEF NextCell, Inv, Typed, Running, KnownByCount
  <2>2. PICK o \in Commands(vm) : Became(o) BY <1>7 DEF NextCell
  <2>3. Anew(vm, vm') BY <2>1, <2>2, CommandAnew DEF Inv
  <2>4. UNCHANGED vobu /\ Silent
    BY <1>7, EngineSilent DEF NextCell, Inv, navVars, Announces, Highlight, VtsChange, VtsFails,
       CellChange, ClutChange, SpuChange, AudioChange, Placed, Calm, Alive, Polling
  <2> QED BY <2>1, <2>3, <2>4, AlignedFrame
<1>d. ASSUME Alive, vm' = Now, UNCHANGED vobu, file' = file, pos'.cell = pos.cell,
             pos'.restart = pos.restart, pos'.domain = pos.domain
      PROVE  Aligned'
  <2>1. started \/ file = None BY DEF Inv, KnownByCount
  <2>2. started => vm' = vm /\ ui # "clear" BY <1>d DEF Now, Alive, Polling
  <2> QED BY <1>d, <2>1, <2>2 DEF Inv, Aligned, VobuOf
<1>8. CASE Highlight
  BY <1>8, <1>a, <1>d DEF Highlight, Positions, navVars
<1>9. CASE HopFails \/ Wait \/ StillFrame \/ NavFails
  BY <1>9, <1>d DEF HopFails, Wait, StillFrame, NavFails, Error, navVars, Playing, Tuned, Placed, Calm
<1>10. CASE ClutChange \/ SpuChange \/ AudioChange
  BY <1>10, <1>a, <1>d DEF ClutChange, SpuChange, AudioChange, Positions, navVars, Placed, Calm
<1>11. CASE LeaveCell
  BY <1>11, <1>a, <1>d DEF LeaveCell, EndOfPlay, Playing, Tuned, Placed, Calm, Positions, navVars
<1>12. CASE HoldStill \/ CellLeft
  BY <1>12 DEF HoldStill, CellLeft, vmVars, navVars, Inv, Aligned, VobuOf
<1> QED
  BY <1>b, <1>1, <1>2, <1>3, <1>4, <1>5, <1>6, <1>7, <1>8, <1>9, <1>10, <1>11, <1>12 DEF GetNextBlock

LEMMA UserAligned ==
  ASSUME Inv, NeverStops, UserCall \/ Finish
  PROVE  Aligned'
<1>1. CASE Reset BY <1>1 DEF Reset, Aligned
<1>2. CASE Clear BY <1>2 DEF Clear, Aligned
<1>3. CASE ~Reset /\ ~Clear
  <2>1. UserMove BY <1>3, UserMoves DEF Inv, KnownByCount
  <2>2. UNCHANGED vobu
    BY <1>3 DEF UserCall, Finish, StillSkip, WaitSkip, StopCall, PartPlay, GoUp, PgSearch, MenuCall,
       SeekBegins, PressBegins, ActivateCmd, Select, SkipWrites, Seek, Press, ForceHighlight, navVars
  <2>3. CASE ~started
    BY <2>1, <2>3 DEF UserMove, Silent, Inv, KnownByCount, Aligned
  <2>4. CASE started
    BY <2>1, <2>2, <2>4, AlignedFrame DEF UserMove
  <2> QED BY <2>3, <2>4
<1> QED BY <1>1, <1>2, <1>3

-----------------------------------------------------------------------------
(* What was heard *)

LEMMA HeardKept ==
  ASSUME Typed, HeardHere, GetNextBlock
  PROVE  HeardHere'
<1>1. CASE HopChannel
  BY <1>1 DEF HopChannel, EntryVobu, HeardHere
<1>2. CASE CellChange
  BY <1>2 DEF CellChange, EntryVobu, HeardHere
<1>3. CASE ReadNav
  <2>1. PICK c \in NavAt(file, NextSector) :
          vobu' = [start |-> NextSector, length |-> VobuSize - 1, blockN |-> 0,
                   next |-> NextNav(c, NextSector)]
    BY <1>3 DEF ReadNav
  <2>2. NextSector \in Int BY <1>3, VobuFields DEF ReadNav, NextSector
  <2>3. vobu'.length # 0 /\ vobu'.start + vobu'.blockN = NextSector
    BY <2>1, <2>2, VobuAssumption
  <2>4. heard' = NextSector BY <1>3 DEF ReadNav
  <2> QED BY <2>3, <2>4 DEF HeardHere
<1>4. CASE ReadBlock(TRUE) \/ ReadBlock(FALSE)
  <2>1. /\ vobu' = [vobu EXCEPT !.blockN = @ + 1] /\ ~VobuDone
        /\ heard' = vobu.start + vobu'.blockN
    BY <1>4 DEF ReadBlock
  <2>2. vobu'.start = vobu.start /\ vobu'.length = vobu.length
    BY <2>1, VobuFields
  <2>3. vobu.length # 0 BY <2>1, VobuFields DEF VobuDone
  <2> QED BY <2>1, <2>2, <2>3 DEF HeardHere
<1>5. CASE LeaveCell \/ NextCell \/ HoldStill \/ CellLeft \/ StartFails \/ Stop
  BY <1>5 DEF LeaveCell, NextCell, HoldStill, CellLeft, StartFails, Stop, Error, navVars, appVars, HeardHere
<1>6. CASE Highlight \/ HopFails \/ Wait \/ VtsChange \/ VtsFails \/ ClutChange \/ SpuChange
             \/ AudioChange \/ StillFrame \/ NavFails
  BY <1>6 DEF Highlight, HopFails, Wait, VtsChange, VtsFails, ClutChange, SpuChange, AudioChange,
     StillFrame, NavFails, Error, navVars, HeardHere
<1> QED BY <1>1, <1>2, <1>3, <1>4, <1>5, <1>6 DEF GetNextBlock

(* No other step of the engine ends a cell than the one that leaves it.     *)
LEMMA OnlyLeaves ==
  ASSUME GetNextBlock, ~LeaveCell
  PROVE  step' # "leave"
BY DEF GetNextBlock, StartFails, Stop, HopChannel, HopFails, Highlight, Wait, VtsChange, VtsFails,
   CellChange, ClutChange, SpuChange, AudioChange, StillFrame, NextCell, HoldStill, CellLeft, ReadNav,
   NavFails, ReadBlock, Playing, Tuned, Placed, Calm, Alive, Polling

LEMMA EngineHeard ==
  ASSUME Inv, GetNextBlock
  PROVE  Heard'
<1>1. HeardHere' BY HeardKept DEF Inv, Heard
<1>2. CASE LeaveCell
  <2>1. Now = vm /\ VobuOf(vm.cell) /\ vm.cell \in Cells
    BY <1>2, PlacedAligned DEF LeaveCell, EndOfPlay, Playing, Tuned
  <2>2. heard = Last(vm.cell)
    BY <1>2, <2>1, EndHeard DEF LeaveCell, EndOfPlay, Inv, Heard
  <2>3. vm' = vm /\ heard' = heard BY <1>2, <2>1 DEF LeaveCell, appVars
  <2> QED BY <1>1, <2>2, <2>3 DEF Heard
<1> QED BY <1>1, <1>2, OnlyLeaves DEF Heard

LEMMA UserHeard ==
  ASSUME Inv, NeverStops, UserCall \/ Finish
  PROVE  Heard'
<1>1. UNCHANGED <<vobu, heard, step>>
  BY DEF UserCall, Finish, StillSkip, WaitSkip, StopCall, Reset, PartPlay, GoUp, PgSearch, MenuCall,
     SeekBegins, PressBegins, ActivateCmd, Select, SkipWrites, Clear, Seek, Press, ForceHighlight,
     navVars, appVars
<1>2. step = "leave" => vm'.cell = vm.cell
  <2> SUFFICES ASSUME step = "leave" PROVE vm'.cell = vm.cell
    OBVIOUS
  <2>1. started /\ ~stopped BY DEF Inv, Typed, Running, KnownByCount
  <2>2. ~Reset /\ ~Clear BY DEF Reset, Clear, LockFree
  <2>3. UserMove BY <2>1, <2>2, UserMoves DEF Inv
  <2> QED BY <2>1, <2>3 DEF UserMove
<1> QED BY <1>1, <1>2 DEF Inv, Heard, HeardHere

-----------------------------------------------------------------------------
(* The still *)

LEMMA StillFrameKept ==
  ASSUME Inv, ui # "clear", UNCHANGED heard, Silent, pos'.still => pos.still,
         \/ vm'.cell = vm.cell /\ vm'.restart = vm.restart
         \/ Anew(vm, vm') /\ (vm.restart = pos.restart \/ MayJump)
  PROVE  StillHeard'
<1> SUFFICES ASSUME file # None, pos.cell # -1, vm'.restart = pos.restart,
                    Disc[vm'.cell].domain = pos.domain, pos.still
             PROVE  heard = None \/ (Disc[vm'.cell].still /\ heard = Last(vm'.cell))
  BY DEF StillHeard, Silent
<1>1. started /\ vm.restart = pos.restart /\ vm'.cell = vm.cell BY StaysPut
<1> QED BY <1>1 DEF Inv, StillHeard

LEMMA EngineStill ==
  ASSUME Inv, NeverStops, GetNextBlock
  PROVE  StillHeard'
<1>a. pos \in Positions BY DEF Inv, Typed, TypeOK
<1>b. ~StartFails /\ ~Stop BY DEF StartFails, Stop, NeverStops, Inv, KnownByCount
<1>1. CASE HopChannel \/ CellChange
  BY <1>1 DEF HopChannel, CellChange, StillHeard
<1>2. CASE VtsChange
  <2>1. pos'.cell = -1 BY <1>2, <1>a DEF VtsChange, Positions
  <2> QED BY <2>1 DEF StillHeard
<1>3. CASE VtsFails
  BY <1>3 DEF VtsFails, StillHeard
<1>4. CASE ReadNav \/ ReadBlock(TRUE) \/ ReadBlock(FALSE)
  <2>1. ~pos.still /\ pos' = pos BY <1>4 DEF ReadNav, ReadBlock, Playing
  <2> QED BY <2>1 DEF StillHeard
<1>5. CASE NextCell
  <2>1. ~pos'.still BY <1>5, <1>a DEF NextCell, Positions
  <2> QED BY <2>1 DEF StillHeard
<1>6. CASE LeaveCell
  <2>0. Now = vm /\ VobuOf(vm.cell) /\ vm.cell \in Cells
    BY <1>6, PlacedAligned DEF LeaveCell, EndOfPlay, Playing, Tuned
  <2>1. heard = Last(vm.cell)
    BY <1>6, <2>0, EndHeard DEF LeaveCell, EndOfPlay, Inv, Heard
  <2>2. vm' = vm /\ heard' = heard /\ pos'.still = Disc[vm.cell].still
    BY <1>6, <1>a, <2>0 DEF LeaveCell, appVars, Positions
  <2> QED BY <2>1, <2>2 DEF StillHeard
<1>d. ASSUME Alive, vm' = Now, UNCHANGED heard, file' = file, pos'.cell = pos.cell,
             pos'.restart = pos.restart, pos'.domain = pos.domain, pos'.still = pos.still
      PROVE  StillHeard'
  <2>1. started \/ file = None BY DEF Inv, KnownByCount
  <2>2. started => vm' = vm /\ ui # "clear" BY <1>d DEF Now, Alive, Polling
  <2> QED BY <1>d, <2>1, <2>2 DEF Inv, StillHeard
<1>7. CASE Highlight
  BY <1>7, <1>a, <1>d DEF Highlight, Positions
<1>8. CASE HopFails \/ Wait \/ StillFrame \/ NavFails
  BY <1>8, <1>d DEF HopFails, Wait, StillFrame, NavFails, Error, Playing, Tuned, Placed, Calm
<1>9. CASE ClutChange \/ SpuChange \/ AudioChange
  BY <1>9, <1>a, <1>d DEF ClutChange, SpuChange, AudioChange, Positions, Placed, Calm
<1>10. CASE HoldStill \/ CellLeft
  BY <1>10 DEF HoldStill, CellLeft, vmVars, Inv, StillHeard
<1> QED
  BY <1>b, <1>1, <1>2, <1>3, <1>4, <1>5, <1>6, <1>7, <1>8, <1>9, <1>10 DEF GetNextBlock

LEMMA UserStill ==
  ASSUME Inv, NeverStops, UserCall \/ Finish
  PROVE  StillHeard'
<1>a. pos \in Positions BY DEF Inv, Typed, TypeOK
<1>1. CASE Reset BY <1>1 DEF Reset, StillHeard
<1>2. CASE Clear BY <1>2 DEF Clear, StillHeard
<1>3. CASE ~Reset /\ ~Clear
  <2>1. UserMove BY <1>3, UserMoves DEF Inv, KnownByCount
  <2>2. UNCHANGED heard
    BY <1>3 DEF UserCall, Finish, StillSkip, WaitSkip, StopCall, PartPlay, GoUp, PgSearch, MenuCall,
       SeekBegins, PressBegins, ActivateCmd, Select, SkipWrites, Seek, Press, ForceHighlight, appVars
  <2>3. pos' \in {pos, [pos EXCEPT !.still = FALSE], [pos EXCEPT !.button = -1]}
    BY <1>3 DEF UserCall, Finish, StillSkip, WaitSkip, StopCall, PartPlay, GoUp, PgSearch, MenuCall,
       SeekBegins, PressBegins, ActivateCmd, Select, SkipWrites, Seek, Press, ForceHighlight,
       PressJumps, PressStays, PressLeaves, PressFails
  <2>4. pos'.still => pos.still BY <1>a, <2>3 DEF Positions
  <2>5. CASE ~started
    BY <2>1, <2>5 DEF UserMove, Silent, Inv, KnownByCount, StillHeard
  <2>6. CASE started
    BY <2>1, <2>2, <2>4, <2>6, StillFrameKept DEF UserMove
  <2> QED BY <2>5, <2>6
<1> QED BY <1>1, <1>2, <1>3

-----------------------------------------------------------------------------
(* Where a cell is entered *)

(* A step leaves the machine at its block, or takes it to another cell: one *)
(* that is played anew, or one of a title resumed from a menu.  A command   *)
(* that exits leaves it in its cell.                                        *)
Remains(v, w) == w.cell = v.cell /\ w.restart = v.restart /\ w.blockN = v.blockN
Stays(v, w)   == Remains(v, w) /\ w.hop = v.hop
Quits(v, w)   == "exit" \in Calls /\ Remains(v, w)
Leaves(v, w) ==
  \/ w.restart = (v.restart + 1) % RestartMod
  \/ rsm # None /\ w.restart = v.restart /\ IsMenu(v.cell) /\ ~IsMenu(w.cell)

LEMMA RegistersStay ==
  ASSUME NEW v \in VmStates, NEW w \in Registers(v)
  PROVE  Stays(v, w)
<1>1. PICK r \in ({v.button} \cup Buttons) \X Streams \X Streams :
        w = [v EXCEPT !.button = r[1], !.spu = r[2], !.audio = r[3]]
  BY DEF Registers
<1> QED BY <1>1 DEF VmStates, Stays, Remains

LEMMA PlayKeepsHop ==
  ASSUME NEW v \in VmStates, NEW c \in Cells, NEW w \in Registers(Play(v, c))
  PROVE  w \in VmStates /\ w.hop = v.hop
<1>1. Play(v, c) \in VmStates /\ Play(v, c).hop = v.hop
  BY PlayType DEF Playable, Play, VmStates
<1> QED BY <1>1, RegistersType, RegistersStay DEF Stays

LEMMA HopCounts ==
  ASSUME NEW w \in VmStates, NEW n \in Nat
  PROVE  LET h == [w EXCEPT !.hop = @ + n]
         IN  /\ h.hop >= w.hop /\ h.cell = w.cell /\ h.restart = w.restart
             /\ h.blockN = w.blockN
BY FieldsOfVm DEF VmStates

(* What a command does to the cell, the channel and the resume information. *)
LEMMA CommandMoves ==
  ASSUME Typed, NEW v, Playable(v), NEW o \in Commands(v)
  PROVE  /\ o.vm \in VmStates /\ o.vm.hop = v.hop
         /\ Leaves(v, o.vm) \/ (Quits(v, o.vm) /\ o.rsm = rsm)
<1>a. v \in VmStates /\ Kept(rsm) /\ stopped \in BOOLEAN
  BY DEF Playable, Typed, TypeOK, Running
<1>b. o.vm \in VmStates BY <1>a, CommandsType DEF Playable
<1>1. CASE o \in Jumps(v)
  <2>1. PICK c \in Cells : o \in {Outcome(w, Saved(v, c), stopped) : w \in Registers(Play(v, c))}
    BY <1>1 DEF Jumps
  <2>2. PICK w \in Registers(Play(v, c)) : o = Outcome(w, Saved(v, c), stopped) BY <2>1
  <2>3. o.vm.hop = v.hop BY <1>a, <2>2, PlayKeepsHop DEF Outcome
  <2>4. o.vm.restart = (v.restart + 1) % RestartMod BY <1>1, <1>a, JumpsType
  <2> QED BY <1>b, <2>3, <2>4 DEF Leaves
<1>2. CASE o \in Resumes(v)
  <2>1. rsm # None BY <1>2 DEF Resumes
  <2>2. PICK b \in Buttons :
          o = Outcome([v EXCEPT !.cell = rsm.cell, !.vts = Disc[rsm.cell].vts,
                                !.blockN = rsm.blockN, !.button = b], rsm, stopped)
    BY <1>2, <2>1 DEF Resumes
  <2>3. o.vm.hop = v.hop BY <1>a, <2>2 DEF Outcome, VmStates
  <2>4. o.vm.restart = v.restart /\ IsMenu(v.cell) /\ ~IsMenu(o.vm.cell)
    BY <1>2, <1>a, ResumesType
  <2> QED BY <1>b, <2>1, <2>3, <2>4 DEF Leaves
<1>3. CASE o \in Exits(v)
  BY <1>3, <1>b DEF Exits, Outcome, Quits, Remains
<1> QED BY <1>1, <1>2, <1>3 DEF Commands

LEMMA AfterCommandMoves ==
  ASSUME Typed, NEW v, Playable(v), NEW o \in Commands(v),
         Became(o) \/ \E n \in Nat : Became(Hop(o, n))
  PROVE  /\ vm'.hop >= v.hop
         /\ Leaves(v, vm') \/ (Quits(v, vm') /\ rsm' = rsm)
<1>1. /\ o.vm \in VmStates /\ o.vm.hop = v.hop /\ v.hop \in Nat
      /\ Leaves(v, o.vm) \/ (Quits(v, o.vm) /\ o.rsm = rsm)
  BY CommandMoves, FieldsOfVm DEF Playable
<1>2. CASE Became(o)
  BY <1>1, <1>2 DEF Became
<1>3. CASE \E n \in Nat : Became(Hop(o, n))
  <2>1. PICK n \in Nat : Became(Hop(o, n)) BY <1>3
  <2> DEFINE h == [o.vm EXCEPT !.hop = @ + n]
  <2>2. o = Outcome(o.vm, o.rsm, o.stopped) BY OutcomeForm
  <2>3. Hop(Outcome(o.vm, o.rsm, o.stopped), n) = Outcome(h, o.rsm, o.stopped) BY <1>1, HopType
  <2>4. h.hop >= o.vm.hop /\ h.cell = o.vm.cell /\ h.restart = o.vm.restart /\ h.blockN = o.vm.blockN
    BY <1>1, HopCounts
  <2> HIDE DEF h
  <2>5. vm' = h /\ rsm' = o.rsm BY <2>1, <2>2, <2>3 DEF Became, Outcome
  <2> QED BY <1>1, <2>4, <2>5 DEF Leaves, Quits, Remains
<1> QED BY <1>2, <1>3

(* A call that changes the cell or the channel of a started machine leaves  *)
(* the cell that plays, or quits.                                           *)
UserMotion ==
  /\ vm'.hop >= vm.hop
  /\ \/ (Stays(vm, vm') \/ Quits(vm, vm')) /\ rsm' = rsm
     \/ Leaves(vm, vm') /\ MayJump /\ step = "idle"

LEMMA UserMotions ==
  ASSUME Typed, started, UserCall \/ Finish, ~Reset, ~Clear
  PROVE  UserMotion
<1>a. vm \in VmStates /\ vm.hop \in Nat /\ (vm.cell # None => Playable(vm))
  BY FieldsOfVm DEF Typed, TypeOK, Running
<1>b. ASSUME HasCell, MayJump, step = "idle", NEW o \in Commands(vm),
             Became(o) \/ \E n \in Nat : Became(Hop(o, n))
      PROVE  UserMotion
  BY <1>a, <1>b, AfterCommandMoves DEF UserMotion, HasCell
<1>1. CASE UNCHANGED <<vm, rsm>>
  BY <1>1, <1>a DEF Stays, Remains, UserMotion
<1>c. ASSUME NEW c \in Cells, NEW w \in Registers(Play(vm, c)), vm' = [w EXCEPT !.hop = @ + 1],
             MayJump, step = "idle"
      PROVE  UserMotion
  <2>1. w \in VmStates /\ w.hop = vm.hop BY <1>a, PlayKeepsHop
  <2>2. vm'.hop >= vm.hop BY <1>c, <2>1, HopCounts, 1 \in Nat
  <2>3. vm'.restart = (vm.restart + 1) % RestartMod BY <1>a, <1>c, PlayAnew, 1 \in Nat
  <2> QED BY <1>c, <2>2, <2>3 DEF UserMotion, Leaves
<1>2. CASE PartPlay
  <2>1. PICK c \in Cells : \E w \in Registers(Play(vm, c)) : vm' = [w EXCEPT !.hop = @ + 1]
    BY <1>2 DEF PartPlay, Now
  <2> QED BY <1>2, <1>c, <2>1 DEF PartPlay, LockFree
<1>3. CASE GoUp
  <2>1. PICK o \in Commands(vm) : Became(o) BY <1>3 DEF GoUp
  <2> QED BY <1>3, <1>b, <2>1 DEF GoUp, LockFree
<1>4. CASE PgSearch
  <2>1. PICK o \in Commands(vm) : Became(Hop(o, 1)) BY <1>4 DEF PgSearch
  <2> QED BY <1>4, <1>b, <2>1, 1 \in Nat DEF PgSearch, LockFree
<1>5. CASE MenuCall
  <2> DEFINE left == IF IsMenu(vm.cell) THEN rsm ELSE [cell |-> vm.cell, blockN |-> vm.blockN]
  <2>1. PICK o \in {Outcome(w, left, FALSE) : w \in UNION {Registers(Play(vm, c)) : c \in Cells}}
                   \cup Resumes(vm) : Became(Hop(o, 1))
    BY <1>5 DEF MenuCall
  <2> HIDE DEF left
  <2>2. CASE o \in Resumes(vm)
    BY <1>5, <1>b, <2>1, <2>2, 1 \in Nat DEF Commands, MenuCall, LockFree
  <2>3. CASE o \notin Resumes(vm)
    <3>1. PICK w \in UNION {Registers(Play(vm, c)) : c \in Cells} : o = Outcome(w, left, FALSE)
      BY <2>1, <2>3
    <3>2. PICK c \in Cells : w \in Registers(Play(vm, c)) BY <3>1
    <3>3. w \in VmStates BY <1>a, <3>2, PlayKeepsHop
    <3>4. Hop(o, 1) = Outcome([w EXCEPT !.hop = @ + 1], left, FALSE)
      <4>1. \A r, s : Hop(Outcome(w, r, s), 1) = Outcome([w EXCEPT !.hop = @ + 1], r, s)
        BY <3>3, HoppedOnce
      <4> QED BY <3>1, <4>1, Zenon
    <3>5. vm' = [w EXCEPT !.hop = @ + 1]
      BY <2>1, <3>4 DEF Became, Outcome
    <3> QED BY <1>5, <1>c, <3>2, <3>5 DEF MenuCall, LockFree
  <2> QED BY <2>2, <2>3
<1>6. CASE ActivateCmd
  <2>1. CASE UNCHANGED <<vm, rsm, stopped>>
    BY <1>1, <2>1
  <2>2. CASE ~UNCHANGED <<vm, rsm, stopped>>
    <3>1. PICK b \in Buttons :
            LET v == [vm EXCEPT !.button = b] IN
            \E o \in {Hop(j, 1) : j \in Jumps(v) \cup Resumes(v)} \cup Exits(v)
                     \cup {Outcome(w, rsm, stopped) : w \in Registers(v)} : Became(o)
      BY <1>6, <2>2 DEF ActivateCmd
    <3> DEFINE v == [vm EXCEPT !.button = b]
    <3>2. Playable(v) /\ v \in VmStates /\ Stays(vm, v)
      BY <1>6, <1>a, FieldsType DEF ActivateCmd, HasCell, Stays, Remains, VmStates
    <3>3. PICK o \in {Hop(j, 1) : j \in Jumps(v) \cup Resumes(v)} \cup Exits(v)
                     \cup {Outcome(w, rsm, stopped) : w \in Registers(v)} : Became(o)
      BY <3>1
    <3> HIDE DEF v
    <3>a. ASSUME NEW j \in Commands(v), Became(j) \/ \E n \in Nat : Became(Hop(j, n))
          PROVE  UserMotion
      <4>1. vm'.hop >= v.hop /\ (Leaves(v, vm') \/ (Quits(v, vm') /\ rsm' = rsm))
        BY <3>2, <3>a, AfterCommandMoves
      <4> QED BY <1>6, <3>2, <4>1 DEF ActivateCmd, LockFree, Leaves, Stays, Quits, Remains, UserMotion
    <3>4. CASE o \in {Hop(j, 1) : j \in Jumps(v) \cup Resumes(v)}
      <4>1. PICK j \in Jumps(v) \cup Resumes(v) : o = Hop(j, 1) BY <3>4
      <4> QED BY <3>3, <3>a, <4>1, 1 \in Nat DEF Commands
    <3>5. CASE o \in Exits(v)
      BY <3>3, <3>5, <3>a DEF Commands
    <3>6. CASE o \in {Outcome(w, rsm, stopped) : w \in Registers(v)}
      <4>1. PICK w \in Registers(v) : o = Outcome(w, rsm, stopped) BY <3>6
      <4>2. vm' = w /\ rsm' = rsm /\ Stays(v, w)
        BY <3>2, <3>3, <4>1, RegistersStay DEF Became, Outcome
      <4> QED BY <1>a, <3>2, <4>2 DEF Stays, Remains, UserMotion
    <3> QED BY <3>3, <3>4, <3>5, <3>6
  <2> QED BY <2>1, <2>2
<1>7. CASE Select
  <2>1. Stays(vm, vm') /\ rsm' = rsm
    BY <1>7, <1>a DEF Select, Stays, Remains, VmStates
  <2> QED BY <1>a, <2>1 DEF Stays, UserMotion
<1>8. CASE Seek
  <2>1. CASE ~UNCHANGED vm
    <3>1. PICK c \in Cells : \E n \in Navs(c) :
            vm' = [Play(vm, c) EXCEPT !.blockN = n - Start(c), !.hop = @ + HopSeek]
      BY <1>8, <2>1 DEF Seek
    <3>2. Play(vm, c) \in VmStates /\ Play(vm, c).restart = (vm.restart + 1) % RestartMod
          /\ Play(vm, c).hop = vm.hop
      BY <1>a, PlayType DEF Playable, Play, VmStates
    <3>3. vm'.restart = (vm.restart + 1) % RestartMod /\ vm'.hop = vm.hop + HopSeek
      BY <3>1, <3>2 DEF VmStates
    <3>4. vm'.hop >= vm.hop BY <1>a, <3>3, HopAssumption
    <3> QED BY <1>8, <2>1, <3>3, <3>4 DEF Seek, LockFree, Leaves, UserMotion
  <2> QED BY <1>1, <1>8, <2>1 DEF Seek
<1>9. CASE Press
  <2>0. step = "idle" BY <1>9 DEF Press, LockFree
  <2>1. CASE PressJumps
    <3>1. PICK o \in Jumps(vm) \cup Resumes(vm) : Became(Hop(o, 1)) BY <2>1 DEF PressJumps
    <3> QED BY <1>b, <2>0, <2>1, <3>1, 1 \in Nat DEF Commands, PressJumps
  <2>2. CASE PressStays
    <3>1. PICK o \in Exits(vm) \cup {Outcome(w, rsm, stopped) : w \in Registers(vm)} : Became(o)
      BY <2>2 DEF PressStays
    <3>2. CASE o \in Exits(vm)
      <4>1. /\ vm'.hop >= vm.hop
            /\ "exit" \in Calls /\ Remains(vm, vm') /\ rsm' = rsm
        BY <1>a, <3>1, <3>2 DEF Exits, Became, Outcome, Remains
      <4> QED BY <4>1 DEF Quits, UserMotion
    <3>3. CASE o \notin Exits(vm)
      <4>1. PICK w \in Registers(vm) : o = Outcome(w, rsm, stopped) BY <3>1, <3>3
      <4>2. Stays(vm, vm') /\ rsm' = rsm
        BY <1>a, <3>1, <4>1, RegistersStay DEF Became, Outcome
      <4> QED BY <1>a, <4>2 DEF Stays, UserMotion
    <3> QED BY <3>2, <3>3
  <2>3. CASE PressLeaves
    <3>1. PICK o \in Commands(vm) : Became(o) BY <2>3 DEF PressLeaves
    <3> QED BY <1>b, <2>0, <2>3, <3>1 DEF PressLeaves
  <2>4. CASE PressFails
    BY <1>1, <2>4 DEF PressFails
  <2> QED BY <1>9, <2>1, <2>2, <2>3, <2>4 DEF Press
<1>10. StillSkip \/ WaitSkip \/ StopCall \/ SeekBegins \/ PressBegins \/ SkipWrites \/ ForceHighlight
       => UNCHANGED <<vm, rsm>>
  BY DEF StillSkip, WaitSkip, StopCall, SeekBegins, PressBegins, SkipWrites, ForceHighlight, vmVars
<1> QED
  BY <1>1, <1>2, <1>3, <1>4, <1>5, <1>6, <1>7, <1>8, <1>9, <1>10 DEF UserCall, Finish

(* What stays in the cell told is where it was entered; what leaves it is   *)
(* not in the cell told.                                                    *)
LEMMA EntryFrame ==
  ASSUME Inv, ui # "clear", UNCHANGED vobu, Silent, pos'.hop = pos.hop,
         \/ Stays(vm, vm')
         \/ Leaves(vm, vm') /\ (vm.restart = pos.restart \/ MayJump)
  PROVE  AtEntry'
<1> SUFFICES ASSUME file # None, pos.cell # -1, vm'.restart = pos.restart,
                    Disc[vm'.cell].domain = pos.domain
             PROVE  /\ pos'.hop = vm'.hop
                    /\ vobu.length = 0 => vobu.start = Start(vm'.cell) + vm'.blockN
  BY DEF AtEntry, Silent
<1>1. PICK c \in Cells : /\ Disc[c].domain = pos.domain
                         /\ vm.restart = pos.restart =>
                              vm.cell = c \/ (IsMenu(c) /\ ~IsMenu(vm.cell))
  BY DEF Inv, KnownByCount
<1>2. vm.restart \in 0..RestartMod - 1 /\ pos.restart \in 0..RestartMod - 1
  BY FieldsOfVm DEF Inv, Typed, TypeOK, Positions
<1>3. ~Leaves(vm, vm') \/ Stays(vm, vm')
  BY <1>1, <1>2, CountDiffers DEF Leaves, MayJump, IsMenu
<1>4. Stays(vm, vm') BY <1>3
<1>5. started BY DEF Inv, KnownByCount
<1> QED BY <1>4, <1>5 DEF Inv, AtEntry, Stays, Remains

LEMMA EngineEntry ==
  ASSUME Inv, NeverStops, GetNextBlock
  PROVE  AtEntry'
<1>a. pos \in Positions BY DEF Inv, Typed, TypeOK
<1>b. ~StartFails /\ ~Stop BY DEF StartFails, Stop, NeverStops, Inv, KnownByCount
<1>c. Alive => Now \in VmStates BY NowPlayable DEF Inv, Alive, Playable
<1>d. started \/ file = None BY DEF Inv, KnownByCount
<1>1. CASE HopChannel
  <2>1. Alive /\ Hopped /\ vobu' = EntryVobu /\ file' = file BY <1>1 DEF HopChannel
  <2>2. /\ pos'.hop = Now.hop /\ pos'.cell = pos.cell /\ pos'.restart = pos.restart
        /\ pos'.domain = pos.domain
    BY <1>1, <1>a DEF HopChannel, Positions
  <2>3. vm'.cell = Now.cell /\ vm'.restart = Now.restart /\ vm'.hop = Now.hop
    BY <1>1, <1>c, <2>1 DEF HopChannel, VmStates
  <2>4. SUFFICES ASSUME file # None, pos.cell # -1, vm'.restart = pos.restart,
                        Disc[vm'.cell].domain = pos.domain
                 PROVE  FALSE
    BY <2>1, <2>2 DEF AtEntry
  <2>5. started /\ Now = vm /\ ui # "clear"
    BY <1>d, <2>1, <2>4 DEF Now, Alive, Polling
  <2>6. pos.hop = vm.hop BY <2>3, <2>4, <2>5 DEF Inv, AtEntry
  <2> QED BY <2>1, <2>5, <2>6 DEF Hopped
<1>2. CASE CellChange
  <2>1. vm' = Now /\ vobu' = EntryVobu /\ pos'.hop = pos.hop /\ pos.hop = Now.hop
    BY <1>2, <1>a DEF CellChange, Calm, Hopped, Positions
  <2> QED BY <2>1 DEF AtEntry, EntryVobu, Entry
<1>3. CASE VtsChange
  <2>1. pos'.cell = -1 BY <1>3, <1>a DEF VtsChange, Positions
  <2> QED BY <2>1 DEF AtEntry
<1>4. CASE VtsFails
  BY <1>4 DEF VtsFails, AtEntry
<1>5. CASE ReadNav
  <2>1. Alive /\ ~Hopped /\ pos' = pos BY <1>5 DEF ReadNav, Playing, Tuned, Placed, Calm
  <2>2. vm'.hop = Now.hop BY <1>5, <1>c, <2>1 DEF ReadNav, VmStates
  <2>3. vobu'.length # 0 BY <1>5, VobuAssumption DEF ReadNav
  <2> QED BY <2>1, <2>2, <2>3 DEF AtEntry, Hopped
<1>6. CASE ReadBlock(TRUE) \/ ReadBlock(FALSE)
  <2>1. /\ vobu' = [vobu EXCEPT !.blockN = @ + 1] /\ ~VobuDone /\ vm' = Now /\ pos' = pos
        /\ ~Hopped
    BY <1>6 DEF ReadBlock, Playing, Tuned, Placed, Calm
  <2>2. vobu'.length # 0
    BY <2>1, VobuFields DEF Inv, VobuDone
  <2> QED BY <2>1, <2>2 DEF AtEntry, Hopped
<1>7. CASE NextCell
  <2>1. vm.cell # None /\ ~stopped /\ vm.restart = pos.restart /\ ui # "clear" /\ Playable(vm)
    BY <1>7 DEF NextCell, Inv, Typed, Running, KnownByCount
  <2>2. PICK o \in Commands(vm) : Became(o) BY <1>7 DEF NextCell
  <2>3. Leaves(vm, vm') BY <2>1, <2>2, AfterCommandMoves DEF Inv, Quits, NeverStops
  <2>4. UNCHANGED vobu /\ Silent /\ pos'.hop = pos.hop
    BY <1>7, <1>a, EngineSilent DEF NextCell, Inv, navVars, Announces, Highlight, VtsChange, VtsFails,
       CellChange, ClutChange, SpuChange, AudioChange, Placed, Calm, Alive, Polling, Positions
  <2> QED BY <2>1, <2>3, <2>4, EntryFrame
<1>e. ASSUME Alive, vm' = Now, UNCHANGED vobu, file' = file, pos'.cell = pos.cell,
             pos'.restart = pos.restart, pos'.domain = pos.domain, pos'.hop = pos.hop
      PROVE  AtEntry'
  <2>1. started => vm' = vm /\ ui # "clear" BY <1>e DEF Now, Alive, Polling
  <2> QED BY <1>d, <1>e, <2>1 DEF Inv, AtEntry
<1>8. CASE Highlight
  BY <1>8, <1>a, <1>e DEF Highlight, Positions, navVars
<1>9. CASE HopFails \/ Wait \/ StillFrame \/ NavFails
  BY <1>9, <1>e DEF HopFails, Wait, StillFrame, NavFails, Error, navVars, Playing, Tuned, Placed, Calm
<1>10. CASE ClutChange \/ SpuChange \/ AudioChange
  BY <1>10, <1>a, <1>e DEF ClutChange, SpuChange, AudioChange, Positions, navVars, Placed, Calm
<1>11. CASE LeaveCell
  BY <1>11, <1>a, <1>e DEF LeaveCell, EndOfPlay, Playing, Tuned, Placed, Calm, Positions, navVars
<1>12. CASE HoldStill \/ CellLeft
  BY <1>12 DEF HoldStill, CellLeft, vmVars, navVars, Inv, AtEntry
<1> QED
  BY <1>b, <1>1, <1>2, <1>3, <1>4, <1>5, <1>6, <1>7, <1>8, <1>9, <1>10, <1>11, <1>12 DEF GetNextBlock

LEMMA UserEntry ==
  ASSUME Inv, NeverStops, UserCall \/ Finish
  PROVE  AtEntry'
<1>a. pos \in Positions BY DEF Inv, Typed, TypeOK
<1>1. CASE Reset BY <1>1 DEF Reset, AtEntry
<1>2. CASE Clear BY <1>2 DEF Clear, AtEntry
<1>3. CASE ~Reset /\ ~Clear
  <2>1. UserMove BY <1>3, UserMoves DEF Inv, KnownByCount
  <2>2. UNCHANGED vobu
    BY <1>3 DEF UserCall, Finish, StillSkip, WaitSkip, StopCall, PartPlay, GoUp, PgSearch, MenuCall,
       SeekBegins, PressBegins, ActivateCmd, Select, SkipWrites, Seek, Press, ForceHighlight, navVars
  <2>3. pos' \in {pos, [pos EXCEPT !.still = FALSE], [pos EXCEPT !.button = -1]}
    BY <1>3 DEF UserCall, Finish, StillSkip, WaitSkip, StopCall, PartPlay, GoUp, PgSearch, MenuCall,
       SeekBegins, PressBegins, ActivateCmd, Select, SkipWrites, Seek, Press, ForceHighlight,
       PressJumps, PressStays, PressLeaves, PressFails
  <2>4. pos'.hop = pos.hop BY <1>a, <2>3 DEF Positions
  <2>5. CASE ~started
    BY <2>1, <2>5 DEF UserMove, Silent, Inv, KnownByCount, AtEntry
  <2>6. CASE started
    <3>1. Stays(vm, vm') \/ (Leaves(vm, vm') /\ MayJump)
      BY <1>3, <2>6, UserMotions DEF Inv, UserMotion, Quits, NeverStops
    <3> QED BY <2>1, <2>2, <2>4, <3>1, EntryFrame DEF UserMove
  <2> QED BY <2>5, <2>6
<1> QED BY <1>1, <1>2, <1>3

-----------------------------------------------------------------------------
(* Theorems *)

LEMMA InitInv == Init => Inv
<1> SUFFICES ASSUME Init PROVE Inv
  OBVIOUS
<1>1. Typed /\ Told /\ KnownByCount BY InitTyped, InitAllowed
<1>2. AtVobus BY DEF Init, NoVM, AtVobus, Saves
<1>3. Aligned /\ Heard /\ StillHeard /\ AtEntry
  BY DEF Init, Aligned, Heard, HeardHere, StillHeard, AtEntry
<1> QED BY <1>1, <1>2, <1>3 DEF Inv

LEMMA InvKept ==
  ASSUME NeverStops, OneNav, AnglesApart, Inv, [Next]_vars
  PROVE  Inv'
<1>1. Typed' /\ Told' /\ KnownByCount'
  BY NextTyped, ByCount, ToldKept, CountKept DEF Inv
<1>2. CASE GetNextBlock
  BY <1>1, <1>2, PlacedAligned, EngineAt, EngineAligned, EngineHeard, EngineStill, EngineEntry DEF Inv
<1>3. CASE UserCall \/ Finish
  BY <1>1, <1>3, UserAt, UserAligned, UserHeard, UserStill, UserEntry DEF Inv
<1>4. CASE UNCHANGED vars
  <2>1. AtVobus' /\ Aligned' /\ Heard' /\ StillHeard' /\ AtEntry'
    BY <1>4 DEF vars, vmVars, navVars, appVars, Inv, AtVobus, AtVobu, Saves, Aligned, VobuOf, Heard,
       HeardHere, StillHeard, AtEntry
  <2> QED BY <1>1, <2>1 DEF Inv
<1> QED BY <1>2, <1>3, <1>4 DEF Next

(* The block the machine would resume at is the start of a VOBU of the cell *)
(* it is for, on a disc where a seek finds no NAV packet of another file    *)
(* that leads out of the cell.                                              *)
THEOREM ResumesInCell ==
  ASSUME NeverStops, OneNav, AnglesApart
  PROVE  Spec => []ResumeInCell
<1>1. Inv => ResumeInCell
  BY DEF Inv, Typed, Running, Kept, AtVobus, AtVobu, Saves, ResumeInCell, HasCell
<1> QED BY <1>1, InitInv, InvKept, PTL DEF Spec

(* Stream data belong to the cell the machine is in, from its VOB file.     *)
THEOREM DataFromCell ==
  ASSUME NeverStops, OneNav, AnglesApart
  PROVE  Spec => DataOfCell
<1>1. ASSUME Inv, [Next]_vars, Delivers
      PROVE  /\ event'.sector \in Start(vm'.cell)..Last(vm'.cell)
             /\ file = VobFile(vm'.vts, Disc[vm'.cell].domain)
  <2>1. Placed BY <1>1 DEF Delivers, ReadNav, ReadBlock, Playing, Tuned
  <2>2. /\ Now = vm /\ vm.cell \in Cells /\ VobuOf(vm.cell)
        /\ file = VobFile(vm.vts, Disc[vm.cell].domain) /\ vm \in VmStates
    BY <1>1, <2>1, PlacedAligned DEF Inv, Typed, TypeOK
  <2>3. vm'.cell = vm.cell /\ vm'.vts = vm.vts
    BY <1>1, <2>2 DEF Delivers, ReadNav, ReadBlock, VmStates
  <2>4. event'.sector \in Start(vm.cell)..Last(vm.cell)
    BY <1>1, <2>1, <2>2, PlacedAligned, Delivered DEF Inv, Heard
  <2> QED BY <2>2, <2>3, <2>4
<1> QED BY <1>1, InitInv, InvKept, PTL DEF Spec, DataOfCell

(* A cell is played sector by sector, from a NAV packet on, to its end.     *)
THEOREM CellsPlayedInFull ==
  ASSUME NeverStops, OneNav, AnglesApart
  PROVE  Spec => PlayedInFull
<1>1. ASSUME Inv, [Next]_vars, Delivers
      PROVE  IF heard = None THEN event'.sector \in Navs(vm'.cell) ELSE event'.sector = heard + 1
  <2>1. Placed BY <1>1 DEF Delivers, ReadNav, ReadBlock, Playing, Tuned
  <2>2. Now = vm /\ vm.cell \in Cells /\ VobuOf(vm.cell) /\ vm \in VmStates
    BY <1>1, <2>1, PlacedAligned DEF Inv, Typed, TypeOK
  <2>3. vm'.cell = vm.cell BY <1>1, <2>2 DEF Delivers, ReadNav, ReadBlock, VmStates
  <2> QED BY <1>1, <2>1, <2>2, <2>3, PlacedAligned, Delivered DEF Inv, Heard
<1>2. ASSUME Inv, NextCell PROVE heard = Last(vm.cell)
  BY <1>2 DEF Inv, Heard, NextCell
<1> QED BY <1>1, <1>2, InitInv, InvKept, PTL DEF Spec, PlayedInFull

(* A still frame is reported at the end of the cell that carries it, or     *)
(* before the first block of a cell; never in the middle of one.            *)
THEOREM StillsAtEnd ==
  ASSUME NeverStops, OneNav, AnglesApart
  PROVE  Spec => StillAtEnd
<1>1. ASSUME Inv, StillFrame
      PROVE  heard = None \/ (Disc[vm'.cell].still /\ heard = Last(vm'.cell))
  <2>1. Placed /\ pos.still /\ vm' = Now BY <1>1 DEF StillFrame, Tuned
  <2>2. /\ started /\ Now = vm /\ vm.cell \in Cells
        /\ file = VobFile(vm.vts, Disc[vm.cell].domain) /\ pos.restart = vm.restart
    BY <1>1, <2>1, PlacedAligned
  <2>3. file # None /\ pos.cell # -1 /\ Disc[vm.cell].domain = pos.domain /\ ui # "clear"
    BY <2>1, <2>2, DiscFields DEF Placed, Moved, NewCell, Calm, Alive, Polling
  <2> QED BY <1>1, <2>1, <2>2, <2>3 DEF Inv, StillHeard
<1> QED BY <1>1, InitInv, InvKept, PTL DEF Spec, StillAtEnd

(* A call that restarts the machine after a stop and hands out data at once *)
(* finds the restarted machine where position_current was: in the first     *)
(* cell, with the restart count noted before the stop.  On every disc.      *)
LEMMA RestartNoted ==
  ASSUME Delivers, ~started
  PROVE  pos.start = Start(FirstCell) /\ pos.restart = vm'.restart
<1>1. Placed /\ Now = Booted
  BY DEF Delivers, ReadNav, ReadBlock, Playing, Tuned, Now
<1>2. pos.start = Start(Now.cell) /\ pos.restart = Now.restart
  BY <1>1 DEF Placed, NewCell
<1>3. Booted \in VmStates /\ Booted.cell = FirstCell
  BY BootedType DEF Playable, Booted, Play, NoVM
<1>4. vm'.restart = Booted.restart
  BY <1>1, <1>3 DEF Delivers, ReadNav, ReadBlock, VmStates
<1> QED BY <1>1, <1>2, <1>3, <1>4

(* Playback starts, or goes on after a hop, at the block the machine is at. *)
(* What the property says of restarts needs none of the assumptions.        *)
THEOREM PlaybackStartsAtBlock ==
  ASSUME NeverStops, OneNav, AnglesApart
  PROVE  Spec => StartsWhereVmIs
<1>1. ASSUME Inv, ReadNav, heard = None
      PROVE  event'.sector = Start(Now.cell) + Now.blockN
  <2>1. Placed BY <1>1 DEF ReadNav, Playing, Tuned
  <2>2. /\ started /\ Now = vm /\ vm.cell \in Cells /\ VobuOf(vm.cell) /\ pos.restart = vm.restart
        /\ file = VobFile(vm.vts, Disc[vm.cell].domain)
    BY <1>1, <2>1, PlacedAligned
  <2>3. file # None /\ pos.cell # -1 /\ Disc[vm.cell].domain = pos.domain /\ ui # "clear"
    BY <2>1, <2>2, DiscFields DEF Placed, Moved, NewCell, Calm, Alive, Polling
  <2>4. vobu.start \in Int /\ vobu.blockN \in Nat /\ VobuSize \in Nat \ {0, 1}
    BY <1>1, VobuFields, VobuAssumption DEF Inv
  <2>5. vobu.length = 0
    BY <1>1, <2>4, NoneAssumption DEF Inv, Heard, HeardHere
  <2>6. vobu.next = 0 BY <2>2, <2>4, <2>5 DEF VobuOf
  <2>7. NextSector = vobu.start BY <2>4, <2>6 DEF NextSector
  <2>8. vobu.start = Start(vm.cell) + vm.blockN
    BY <1>1, <2>2, <2>3, <2>5 DEF Inv, AtEntry
  <2> QED BY <1>1, <2>2, <2>7, <2>8 DEF ReadNav, Returns
<1>2. ASSUME ~started, Delivers
      PROVE  pos.start = Start(FirstCell) /\ pos.restart = vm'.restart
  BY <1>2, RestartNoted
<1> QED BY <1>1, <1>2, InitInv, InvKept, PTL DEF Spec, StartsWhereVmIs

-----------------------------------------------------------------------------
(* Machines that stop.  A handle that was stopped starts again from a       *)
(* machine that was reset, against the position it noted before.  On discs  *)
(* whose cells each have a place of their own it still delivers the cell it *)
(* is in, if dvdnav_part_play is not what restarts it.                      *)

PartWhileStarted == PartPlay => started \/ file = None
PartsWhileStarted == [][PartWhileStarted]_vars

(* The machine is in another cell than c, with no way to resume c.          *)
Elsewhere(c) == vm.cell # c /\ (rsm = None \/ (IsMenu(c) /\ ~IsMenu(vm.cell)))

(* A machine that counts the restarts noted is in c, or elsewhere; it will  *)
(* not be taken for one in c again.                                         *)
Near(c) == started /\ vm.restart = pos.restart => vm.cell = c \/ Elsewhere(c)
Gone(c) ==
  /\ started => vm.restart # pos.restart \/ Elsewhere(c)
  /\ pos.hop # 0 \/ Booted.restart # pos.restart \/ FirstCell # c

StillOf(c) == pos.still => heard = None \/ (Disc[c].still /\ heard = Last(c))

(* What is known of the cell told last, whatever became of the machine.     *)
CellNoted == file # None /\ pos.cell # -1 /\ ui # "clear"
ToldOf(c) ==
  /\ told.play = <<c, pos.restart>> /\ Near(c)
  /\ VobuOf(c) \/ Gone(c)
  /\ StillOf(c)
Restarts ==
  CellNoted => (started => pos.hop <= vm.hop) /\ \E c \in Cells : ToldOf(c)

(* The end of a cell is the end of the one told.                            *)
Leaving ==
  step = "leave" =>
    /\ started /\ CellNoted
    /\ told.play = <<vm.cell, pos.restart>> /\ vm.restart = pos.restart
    /\ heard = Last(vm.cell) /\ VobuOf(vm.cell)

StopInv ==
  Typed /\ Told /\ KnownByPlace /\ AtVobus /\ HeardHere /\ Restarts /\ Leaving

LEMMA BootedFields ==
  Booted \in VmStates /\ Booted.cell = FirstCell /\ Booted.hop = 0
<1>1. NoVM \in VmStates
  BY RestartAssumption, ButtonAssumption, StreamAssumption DEF NoVM, VmStates
<1>2. NoVM.hop = 0 BY DEF NoVM
<1> QED BY <1>1, <1>2, BootedType, DiscAssumption DEF Playable, Booted, Play, VmStates

(* What the engine reads from is the cell the machine is in.                *)
LEMMA PlacedNoted ==
  ASSUME StopInv, OwnPlaces, Placed
  PROVE  /\ Now \in VmStates /\ Now.cell \in Cells /\ VobuOf(Now.cell) /\ StillOf(Now.cell)
         /\ pos.start = Start(Now.cell) /\ pos.restart = Now.restart /\ pos.hop = Now.hop
         /\ CellNoted /\ told.play = <<Now.cell, pos.restart>>
         /\ file = VobFile(Now.vts, Disc[Now.cell].domain)
         /\ file = VobFile(Disc[Now.cell].vts, Disc[Now.cell].domain)
<1>1. Playable(Now) /\ Alive BY NowPlayable DEF StopInv, Placed, Calm, Alive
<1>2. /\ file # None /\ pos.cell = Disc[Now.cell].cellN /\ pos.start = Start(Now.cell)
      /\ pos.restart = Now.restart /\ pos.domain = Disc[Now.cell].domain /\ pos.vts = Now.vts
      /\ pos.hop = Now.hop
  BY DEF Placed, Calm, Moved, NewCell, Hopped
<1>3. CellNoted BY <1>1, <1>2, DiscFields DEF Playable, CellNoted, Alive, Polling
<1>4. told.play = <<Now.cell, Now.restart>>
  BY <1>1, ByPlace DEF StopInv, Knows, Placed, Alive
<1>5. PICK c \in Cells : ToldOf(c) BY <1>3 DEF StopInv, Restarts
<1>6. c = Now.cell BY <1>4, <1>5 DEF ToldOf
<1>7. ~Gone(c)
  <2>1. CASE started
    BY <1>2, <1>6, <2>1 DEF Now, Gone, Elsewhere
  <2>2. CASE ~started
    BY <1>2, <1>6, <2>2, BootedFields DEF Now, Gone
  <2> QED BY <2>1, <2>2
<1>8. file = VobFile(Now.vts, Disc[Now.cell].domain) BY <1>2 DEF StopInv, Told
<1>9. VobFile(Now.vts, Disc[Now.cell].domain) = VobFile(Disc[Now.cell].vts, Disc[Now.cell].domain)
  BY <1>1 DEF Playable, VobFile
<1> QED BY <1>1, <1>2, <1>3, <1>4, <1>5, <1>6, <1>7, <1>8, <1>9 DEF ToldOf, Playable

-----------------------------------------------------------------------------
(* The engine, restarted or not *)

(* A call that restarts the machine leaves the cell told near or gone.      *)
LEMMA AliveNear ==
  ASSUME StopInv, Alive, vm'.cell = Now.cell, vm'.restart = Now.restart,
         pos'.restart = pos.restart, NEW c \in Cells, Near(c)
  PROVE  /\ Near(c)'
         /\ started' /\ vm'.restart = pos'.restart => vm'.cell = c \/ Elsewhere(c)'
<1>1. CASE started
  BY <1>1 DEF Now, Alive, Near, Elsewhere
<1>2. CASE ~started
  BY <1>2 DEF Now, Alive, Near, Elsewhere
<1> QED BY <1>1, <1>2 DEF Near

(* Steps that leave the VOBU and what was heard of it alone.                *)
LEMMA AliveFrame ==
  ASSUME StopInv, Alive, started \/ ~Hopped, vm' = Now,
         UNCHANGED <<vobu, heard, file, ui>>, told'.play = told.play,
         pos'.cell = pos.cell, pos'.restart = pos.restart, pos'.hop = pos.hop,
         pos'.still = pos.still
  PROVE  Restarts'
<1> SUFFICES ASSUME CellNoted
             PROVE  pos.hop <= vm'.hop /\ \E c \in Cells : ToldOf(c)'
  BY DEF Restarts, CellNoted
<1>0. Now \in VmStates BY NowPlayable DEF StopInv, Alive, Playable
<1>1. pos.hop <= vm'.hop
  <2>1. CASE started BY <2>1 DEF StopInv, Restarts, Now
  <2>2. CASE ~started BY <1>0, <2>2, FieldsOfVm DEF Hopped
  <2> QED BY <2>1, <2>2
<1>2. PICK c \in Cells : ToldOf(c) BY DEF StopInv, Restarts
<1>3. Near(c)' BY <1>2, AliveNear DEF ToldOf
<1>4. Gone(c) => Gone(c)'
  <2>1. CASE started
    BY <2>1 DEF Now, Alive, Gone, Elsewhere
  <2>2. CASE ~started
    BY <2>2, BootedFields DEF Now, Alive, Gone, Elsewhere, Hopped
  <2> QED BY <2>1, <2>2
<1>5. VobuOf(c)' \/ Gone(c)' BY <1>2, <1>4 DEF ToldOf, VobuOf
<1>6. StillOf(c)' BY <1>2 DEF ToldOf, StillOf
<1>7. ToldOf(c)' BY <1>2, <1>3, <1>5, <1>6 DEF ToldOf
<1> QED BY <1>1, <1>7

(* Steps that read from the cell told.                                      *)
LEMMA PlacedFrame ==
  ASSUME StopInv, OwnPlaces, Placed, NEW c \in Cells, c = Now.cell,
         vm'.cell = c, vm'.hop = Now.hop, told'.play = told.play,
         pos'.restart = pos.restart, pos'.hop = pos.hop, VobuOf(c)', StillOf(c)'
  PROVE  Restarts'
<1>1. told.play = <<c, pos.restart>> /\ pos.hop = Now.hop /\ Now.hop \in Nat
  BY PlacedNoted, FieldsOfVm
<1>2. Near(c)' BY DEF Near
<1>3. ToldOf(c)' BY <1>1, <1>2 DEF ToldOf
<1> QED BY <1>1, <1>3 DEF Restarts

LEMMA HopRestarts ==
  ASSUME StopInv, HopChannel
  PROVE  Restarts'
<1> SUFFICES ASSUME CellNoted
             PROVE  pos'.hop <= vm'.hop /\ \E c \in Cells : ToldOf(c)'
  BY DEF HopChannel, Restarts, CellNoted, StopInv, Typed, TypeOK, Positions
<1>a. Alive /\ Now \in VmStates /\ Now.hop \in Nat /\ pos \in Positions /\ pos.hop \in Nat
  BY NowPlayable, FieldsOfVm DEF HopChannel, StopInv, Typed, TypeOK, Positions, Alive, Playable
<1>1. /\ vm'.cell = Now.cell /\ vm'.restart = Now.restart /\ vm'.hop = Now.hop
      /\ pos'.hop = Now.hop /\ pos'.restart = pos.restart /\ told' = told
      /\ heard' = None /\ vobu' = EntryVobu
  BY <1>a DEF HopChannel, Positions, VmStates
<1>2. PICK c \in Cells : ToldOf(c) BY DEF StopInv, Restarts
<1>3. /\ Near(c)'
      /\ started' /\ vm'.restart = pos'.restart => vm'.cell = c \/ Elsewhere(c)'
  BY <1>a, <1>1, <1>2, AliveNear DEF ToldOf
<1>4. Now.cell = c => VobuOf(c)'
  <2>1. Entry \in Navs(Now.cell) BY <1>a, NowAt DEF StopInv, Entry, AtVobu
  <2>2. vobu'.start = Entry /\ vobu'.next = 0 /\ vobu'.length = 0 /\ vobu'.blockN = 0
    BY <1>1 DEF EntryVobu
  <2> QED BY <2>1, <2>2 DEF VobuOf
<1>5. ASSUME Now.cell # c PROVE Gone(c)'
  <2>1. started' => vm'.restart # pos'.restart \/ Elsewhere(c)' BY <1>1, <1>3, <1>5
  <2>2. pos'.hop # 0 \/ FirstCell # c
    <3>1. CASE started
      BY <1>a, <1>1, <3>1 DEF StopInv, Restarts, Now, HopChannel, Hopped
    <3>2. CASE ~started
      BY <1>5, <3>2, BootedFields DEF Now
    <3> QED BY <3>1, <3>2
  <2> QED BY <2>1, <2>2 DEF Gone
<1>6. ToldOf(c)' BY <1>1, <1>2, <1>3, <1>4, <1>5 DEF ToldOf, StillOf
<1> QED BY <1>a, <1>1, <1>6

LEMMA CellRestarts ==
  ASSUME StopInv, CellChange
  PROVE  Restarts'
<1>a. Alive /\ Now \in VmStates /\ Now.hop \in Nat /\ Now.cell \in Cells /\ pos \in Positions
      /\ told \in ToldType
  BY NowPlayable, FieldsOfVm DEF CellChange, Calm, StopInv, Typed, TypeOK, Alive, Playable
<1>1. /\ vm' = Now /\ pos'.hop = Now.hop /\ pos'.restart = Now.restart
      /\ told'.play = <<Now.cell, Now.restart>> /\ heard' = None /\ vobu' = EntryVobu
  BY <1>a DEF CellChange, Calm, Hopped, Positions, ToldType
<1>2. PICK c \in Cells : c = Now.cell BY <1>a
<1>3. VobuOf(c)'
  <2>1. Entry \in Navs(c) BY <1>a, <1>2, NowAt DEF StopInv, Entry, AtVobu
  <2>2. vobu'.start = Entry /\ vobu'.next = 0 /\ vobu'.length = 0 /\ vobu'.blockN = 0
    BY <1>1 DEF EntryVobu
  <2> QED BY <2>1, <2>2 DEF VobuOf
<1>4. ToldOf(c)' BY <1>1, <1>2, <1>3 DEF ToldOf, Near, StillOf
<1> QED BY <1>a, <1>1, <1>4 DEF Restarts

(* A step that keeps the cell told and the VOBU, and takes the machine      *)
(* where a command or a call may.                                           *)
LEMMA LeaveFrame ==
  ASSUME StopInv, ui # "clear", started,
         UNCHANGED <<vobu, heard, file>>, told'.play = told.play,
         pos'.cell = pos.cell, pos'.restart = pos.restart, pos'.hop = pos.hop,
         pos'.still => pos.still,
         vm'.hop \in Nat, vm'.hop >= vm.hop,
         \/ Remains(vm, vm') /\ rsm' = rsm
         \/ Leaves(vm, vm') /\ (vm.restart = pos.restart \/ MayJump)
  PROVE  Restarts'
<1> SUFFICES ASSUME CellNoted
             PROVE  pos.hop <= vm'.hop /\ \E c \in Cells : ToldOf(c)'
  BY DEF Restarts, CellNoted
<1>0. /\ vm.restart \in 0..RestartMod - 1 /\ pos.restart \in 0..RestartMod - 1
      /\ pos.hop \in Nat /\ vm.hop \in Nat
  BY FieldsOfVm DEF StopInv, Typed, TypeOK, Positions
<1>1. pos.hop <= vm'.hop BY <1>0 DEF StopInv, Restarts
<1>2. PICK c \in Cells : ToldOf(c) BY DEF StopInv, Restarts
<1>3. Near(c)' /\ (Gone(c) => Gone(c)')
  <2>1. CASE Remains(vm, vm') /\ rsm' = rsm
    BY <1>2, <2>1 DEF ToldOf, Near, Gone, Elsewhere, Remains
  <2>2. CASE vm'.restart = (vm.restart + 1) % RestartMod /\ (vm.restart = pos.restart \/ MayJump)
    <3>1. vm'.restart # pos.restart BY <1>0, <2>2, CountDiffers DEF MayJump
    <3> QED BY <3>1 DEF Near, Gone
  <2>3. CASE rsm # None /\ vm'.restart = vm.restart /\ IsMenu(vm.cell) /\ ~IsMenu(vm'.cell)
    <3>1. vm.restart = pos.restart => IsMenu(c)
      BY <1>2, <2>3 DEF ToldOf, Near, Elsewhere
    <3>2. vm.restart = pos.restart => Elsewhere(c)' BY <2>3, <3>1 DEF Elsewhere, IsMenu
    <3> QED BY <2>3, <3>2 DEF Near, Gone
  <2> QED BY <2>1, <2>2, <2>3 DEF Leaves
<1>4. VobuOf(c)' \/ Gone(c)' BY <1>2, <1>3 DEF ToldOf, VobuOf
<1>5. StillOf(c)' BY <1>2 DEF ToldOf, StillOf
<1>6. ToldOf(c)' BY <1>2, <1>3, <1>4, <1>5 DEF ToldOf
<1> QED BY <1>1, <1>6

LEMMA EngineRestarts ==
  ASSUME StopInv, OwnPlaces, OneNav, GetNextBlock
  PROVE  Restarts'
<1>a. pos \in Positions /\ told \in ToldType
  BY DEF StopInv, Typed, TypeOK
<1>b. vm' \in VmStates /\ vm'.hop \in Nat
  BY NextTyped, FieldsOfVm DEF Next, StopInv, Typed, TypeOK
<1>c. Alive => Now \in VmStates /\ Now.hop \in Nat
  BY NowPlayable, FieldsOfVm DEF StopInv, Alive, Playable
<1>1. CASE HopChannel BY <1>1, HopRestarts
<1>2. CASE CellChange BY <1>2, CellRestarts
<1>3. CASE VtsChange
  <2>1. pos'.cell = -1 BY <1>3, <1>a DEF VtsChange, Positions
  <2> QED BY <2>1 DEF Restarts, CellNoted
<1>4. CASE VtsFails
  BY <1>4 DEF VtsFails, Restarts, CellNoted
<1>5. CASE StartFails
  BY <1>5 DEF StartFails, Error, navVars, StopInv, Restarts, CellNoted, ToldOf, Near, Gone, Elsewhere,
     VobuOf, StillOf
<1>6. CASE Stop
  BY <1>6 DEF Stop, navVars, StopInv, Restarts, CellNoted, ToldOf, Near, Gone, VobuOf, StillOf
<1>7. CASE ReadNav
  <2>1. Placed /\ vobu.next # EndOfCell BY <1>7 DEF ReadNav, Playing, Tuned
  <2>2. PICK d \in Cells : d = Now.cell BY <2>1, PlacedNoted
  <2>3. PICK c \in NavAt(file, NextSector) :
          vobu' = [start |-> NextSector, length |-> VobuSize - 1, blockN |-> 0,
                   next |-> NextNav(c, NextSector)]
    BY <1>7 DEF ReadNav
  <2>4. NextSector \in Navs(d) /\ NextNav(c, NextSector) = NextNav(d, NextSector)
    BY <2>1, <2>2, PlacedNoted, NavRead DEF StopInv
  <2>5. 0 <= VobuSize - 1 BY VobuAssumption
  <2>6. VobuOf(d)' BY <2>3, <2>4, <2>5 DEF VobuOf
  <2>7. vm'.cell = d /\ vm'.hop = Now.hop
    BY <1>7, <1>c, <2>1, <2>2 DEF ReadNav, VmStates, Placed, Calm
  <2>8. StillOf(d)' BY <1>7 DEF ReadNav, Playing, StillOf
  <2> QED BY <1>7, <2>1, <2>2, <2>6, <2>7, <2>8, PlacedFrame DEF ReadNav
<1>8. CASE ReadBlock(TRUE) \/ ReadBlock(FALSE)
  <2>1. Placed /\ vobu' = [vobu EXCEPT !.blockN = @ + 1] /\ ~VobuDone /\ vm' = Now
        /\ pos' = pos /\ told' = told /\ ~pos.still
    BY <1>8 DEF ReadBlock, Playing, Tuned
  <2>2. PICK d \in Cells : d = Now.cell BY <2>1, PlacedNoted
  <2>3. VobuOf(d) BY <2>1, <2>2, PlacedNoted
  <2>4. /\ vobu'.start = vobu.start /\ vobu'.length = vobu.length
        /\ vobu'.next = vobu.next /\ vobu'.blockN = vobu.blockN + 1
    BY <2>1, VobuFields DEF StopInv
  <2>5. vobu.blockN < vobu.length /\ vobu.blockN \in Nat /\ vobu.length \in Nat
    BY <2>1, VobuFields DEF StopInv, VobuDone
  <2>6. VobuOf(d)' BY <2>3, <2>4, <2>5, VobuAssumption DEF VobuOf
  <2>7. StillOf(d)' BY <2>1 DEF StillOf
  <2> QED BY <2>1, <2>2, <2>6, <2>7, PlacedFrame
<1>9. CASE LeaveCell
  <2>1. Placed /\ VobuDone /\ vobu.next = EndOfCell BY <1>9 DEF LeaveCell, EndOfPlay, Playing, Tuned
  <2>2. PICK d \in Cells : d = Now.cell BY <2>1, PlacedNoted
  <2>3. VobuOf(d) BY <2>1, <2>2, PlacedNoted
  <2>4. heard = Last(d) BY <2>1, <2>3, EndHeard DEF StopInv
  <2>5. /\ pos'.still = Disc[d].still /\ pos'.restart = pos.restart /\ pos'.hop = pos.hop
        /\ vm' = Now /\ UNCHANGED <<vobu, heard, told>>
    BY <1>9, <1>a, <2>2 DEF LeaveCell, Positions, navVars, appVars
  <2>6. VobuOf(d)' /\ StillOf(d)' BY <2>3, <2>4, <2>5 DEF VobuOf, StillOf
  <2> QED BY <2>1, <2>2, <2>5, <2>6, PlacedFrame
<1>10. CASE NextCell
  <2>1. /\ vm.cell # None /\ vm.restart = pos.restart /\ ui # "clear" /\ started /\ Playable(vm)
    BY <1>10 DEF NextCell, StopInv, Typed, Running, Leaving
  <2>2. PICK o \in Commands(vm) : Became(o) BY <1>10 DEF NextCell
  <2>3. /\ vm'.hop >= vm.hop
        /\ Leaves(vm, vm') \/ (Remains(vm, vm') /\ rsm' = rsm)
    BY <2>1, <2>2, AfterCommandMoves DEF StopInv, Quits
  <2>4. /\ UNCHANGED <<vobu, heard, file, told>>
        /\ pos'.cell = pos.cell /\ pos'.restart = pos.restart /\ pos'.hop = pos.hop
        /\ ~pos'.still
    BY <1>10, <1>a DEF NextCell, navVars, appVars, Positions
  <2> QED BY <1>b, <2>1, <2>3, <2>4, LeaveFrame
<1>11. CASE Highlight
  <2>1. Alive /\ ~Hopped BY <1>11 DEF Highlight
  <2> QED BY <1>11, <1>a, <2>1, AliveFrame DEF Highlight, Positions, ToldType, navVars
<1>12. CASE HopFails
  <2>1. started
    <3>1. pos.hop \in Nat BY <1>a DEF Positions
    <3> QED BY <1>12, <3>1, BootedFields, HopAssumption DEF HopFails, SeekSkips, Now
  <2> QED BY <1>12, <2>1, AliveFrame DEF HopFails, Error, navVars
<1>13. CASE Wait \/ StillFrame \/ NavFails
  BY <1>13, AliveFrame DEF Wait, StillFrame, NavFails, Error, navVars, Playing, Tuned, Placed, Calm
<1>14. CASE ClutChange \/ SpuChange \/ AudioChange
  <2>1. /\ Alive /\ ~Hopped /\ vm' = Now /\ UNCHANGED <<vobu, heard, file, ui>>
        /\ told'.play = told.play
        /\ pos'.cell = pos.cell /\ pos'.restart = pos.restart /\ pos'.hop = pos.hop
        /\ pos'.still = pos.still
    BY <1>14, <1>a DEF ClutChange, SpuChange, AudioChange, Positions, ToldType, navVars, Placed, Calm
  <2> QED BY <2>1, AliveFrame
<1>15. CASE HoldStill \/ CellLeft
  BY <1>15 DEF HoldStill, CellLeft, vmVars, navVars, StopInv, Restarts, CellNoted, ToldOf, Near, Gone,
     Elsewhere, VobuOf, StillOf
<1> QED
  BY <1>1, <1>2, <1>3, <1>4, <1>5, <1>6, <1>7, <1>8, <1>9, <1>10, <1>11, <1>12, <1>13, <1>14, <1>15
  DEF GetNextBlock

LEMMA EngineLeaving ==
  ASSUME StopInv, OwnPlaces, GetNextBlock
  PROVE  Leaving'
<1>1. CASE ~LeaveCell BY <1>1, OnlyLeaves DEF Leaving
<1>2. CASE LeaveCell
  <2>0. pos \in Positions BY DEF StopInv, Typed, TypeOK
  <2>1. Placed /\ VobuDone /\ vobu.next = EndOfCell BY <1>2 DEF LeaveCell, EndOfPlay, Playing, Tuned
  <2>2. PICK d \in Cells : d = Now.cell BY <2>1, PlacedNoted
  <2>3. VobuOf(d) /\ told.play = <<d, pos.restart>> /\ pos.restart = Now.restart /\ CellNoted
    BY <2>1, <2>2, PlacedNoted
  <2>4. heard = Last(d) BY <2>1, <2>3, EndHeard DEF StopInv
  <2>5. /\ pos'.restart = pos.restart /\ pos'.cell = pos.cell /\ started'
        /\ vm' = Now /\ UNCHANGED <<vobu, heard, told, file, ui>>
    BY <1>2, <2>0, <2>1 DEF LeaveCell, Positions, navVars, appVars, Placed, Calm, Alive
  <2>6. VobuOf(d)' /\ CellNoted' BY <2>3, <2>5 DEF VobuOf, CellNoted
  <2>7. vm'.cell = d BY <2>2, <2>5
  <2>8. VobuOf(vm.cell)' BY <2>6, <2>7 DEF VobuOf
  <2> QED BY <2>3, <2>4, <2>5, <2>6, <2>7, <2>8 DEF Leaving
<1> QED BY <1>1, <1>2

-----------------------------------------------------------------------------
(* The calls *)

LEMMA UserRestarts ==
  ASSUME StopInv, UserCall \/ Finish, PartWhileStarted
  PROVE  Restarts'
<1>a. pos \in Positions BY DEF StopInv, Typed, TypeOK
<1>b. vm' \in VmStates /\ vm'.hop \in Nat
  BY NextTyped, FieldsOfVm DEF Next, StopInv, Typed, TypeOK
<1>1. CASE Reset BY <1>1 DEF Reset, Restarts, CellNoted
<1>2. CASE Clear BY <1>2 DEF Clear, Restarts, CellNoted
<1>3. CASE ~Reset /\ ~Clear
  <2>1. Silent /\ ui # "clear"
    <3>1. Silent BY <1>3, UserSilent DEF StopInv
    <3> QED BY <1>3, <3>1 DEF UserCall, Finish, StillSkip, WaitSkip, StopCall, PartPlay, GoUp, PgSearch,
       MenuCall, SeekBegins, PressBegins, ActivateCmd, Select, SkipWrites, Seek, Press, ForceHighlight,
       Begins, Unlocked
  <2>2. UNCHANGED <<vobu, heard>>
    BY <1>3 DEF UserCall, Finish, StillSkip, WaitSkip, StopCall, PartPlay, GoUp, PgSearch, MenuCall,
       SeekBegins, PressBegins, ActivateCmd, Select, SkipWrites, Seek, Press, ForceHighlight, navVars,
       appVars
  <2>3. pos' \in {pos, [pos EXCEPT !.still = FALSE], [pos EXCEPT !.button = -1]}
    BY <1>3 DEF UserCall, Finish, StillSkip, WaitSkip, StopCall, PartPlay, GoUp, PgSearch, MenuCall,
       SeekBegins, PressBegins, ActivateCmd, Select, SkipWrites, Seek, Press, ForceHighlight,
       PressJumps, PressStays, PressLeaves, PressFails
  <2>4. pos'.hop = pos.hop /\ (pos'.still => pos.still) BY <1>a, <2>3 DEF Positions
  <2>5. CASE started
    <3>1. UserMotion BY <1>3, <2>5, UserMotions DEF StopInv
    <3>2. /\ vm'.hop >= vm.hop
          /\ \/ Remains(vm, vm') /\ rsm' = rsm
             \/ Leaves(vm, vm') /\ MayJump
      BY <3>1 DEF UserMotion, Stays, Quits
    <3> QED BY <1>b, <2>1, <2>2, <2>4, <2>5, <3>2, LeaveFrame DEF Silent
  <2>6. CASE ~started
    <3>1. CASE PartPlay
      BY <2>1, <2>6, <3>1 DEF PartWhileStarted, Silent, Restarts, CellNoted
    <3>2. CASE ~PartPlay
      <4>1. ~started'
        BY <1>3, <2>6, <3>2 DEF UserCall, Finish, StillSkip, WaitSkip, StopCall, GoUp, PgSearch, MenuCall,
           SeekBegins, PressBegins, ActivateCmd, Select, SkipWrites, Seek, Press, ForceHighlight, vmVars
      <4>2. CellNoted' => CellNoted BY <2>1 DEF CellNoted, Silent
      <4>3. ASSUME NEW c \in Cells, ToldOf(c) PROVE ToldOf(c)'
        BY <2>1, <2>2, <2>4, <4>1, <4>3 DEF ToldOf, Near, Gone, VobuOf, StillOf, Silent
      <4> QED BY <4>1, <4>2, <4>3 DEF StopInv, Restarts
    <3> QED BY <3>1, <3>2
  <2> QED BY <2>5, <2>6
<1> QED BY <1>1, <1>2, <1>3

LEMMA UserLeaving ==
  ASSUME StopInv, UserCall \/ Finish
  PROVE  Leaving'
<1>1. UNCHANGED <<vobu, heard, step>>
  BY DEF UserCall, Finish, StillSkip, WaitSkip, StopCall, Reset, PartPlay, GoUp, PgSearch, MenuCall,
     SeekBegins, PressBegins, ActivateCmd, Select, SkipWrites, Clear, Seek, Press, ForceHighlight,
     navVars, appVars
<1> SUFFICES ASSUME step = "leave" PROVE Leaving'
  BY <1>1 DEF Leaving
<1>2. ~Reset /\ ~Clear /\ ~PartPlay BY DEF Reset, Clear, PartPlay, LockFree
<1>3. Silent BY <1>2, UserSilent DEF StopInv
<1>4. started /\ CellNoted /\ told.play = <<vm.cell, pos.restart>> /\ vm.restart = pos.restart
      /\ heard = Last(vm.cell) /\ VobuOf(vm.cell)
  BY DEF StopInv, Leaving
<1>5. vm'.cell = vm.cell /\ vm'.restart = vm.restart
  <2>1. UserMotion BY <1>2, <1>4, UserMotions DEF StopInv
  <2> QED BY <2>1 DEF UserMotion, Stays, Quits, Remains
<1>6. started' /\ ui' # "clear"
  BY <1>2, <1>4 DEF UserCall, Finish, StillSkip, WaitSkip, StopCall, GoUp, PgSearch, MenuCall,
     SeekBegins, PressBegins, ActivateCmd, Select, SkipWrites, Seek, Press, ForceHighlight, Unlocked,
     CellNoted, vmVars
<1>7. CellNoted' BY <1>3, <1>4, <1>6 DEF CellNoted, Silent
<1> QED BY <1>1, <1>3, <1>4, <1>5, <1>6, <1>7 DEF Leaving, Silent, VobuOf

-----------------------------------------------------------------------------
(* Theorems of machines that stop *)

LEMMA InitStopInv == Init => StopInv
<1> SUFFICES ASSUME Init PROVE StopInv
  OBVIOUS
<1>1. Typed /\ Told /\ KnownByPlace BY InitTyped, InitAllowed
<1>2. AtVobus BY DEF Init, NoVM, AtVobus, Saves
<1>3. HeardHere /\ Restarts /\ Leaving
  BY DEF Init, HeardHere, Restarts, CellNoted, Leaving
<1> QED BY <1>1, <1>2, <1>3 DEF StopInv

LEMMA StopInvKept ==
  ASSUME OwnPlaces, OneNav, AnglesApart, StopInv, [Next]_vars, [PartWhileStarted]_vars
  PROVE  StopInv'
<1>1. Typed' /\ Told' /\ KnownByPlace'
  BY NextTyped, ByPlace, ToldKept, PlaceKept DEF StopInv
<1>2. CASE GetNextBlock
  <2>1. Placed => VobuOf(Now.cell) /\ pos.start = Start(Now.cell) BY PlacedNoted
  <2>2. AtVobus' BY <1>2, <2>1, EngineAt DEF StopInv
  <2>3. HeardHere' BY <1>2, HeardKept DEF StopInv
  <2> QED BY <1>1, <1>2, <2>2, <2>3, EngineRestarts, EngineLeaving DEF StopInv
<1>3. CASE (UserCall \/ Finish) /\ PartWhileStarted
  <2>1. AtVobus' BY <1>3, UserAt DEF StopInv
  <2>2. UNCHANGED <<vobu, heard>>
    BY <1>3 DEF UserCall, Finish, StillSkip, WaitSkip, StopCall, Reset, PartPlay, GoUp, PgSearch, MenuCall,
       SeekBegins, PressBegins, ActivateCmd, Select, SkipWrites, Clear, Seek, Press, ForceHighlight,
       navVars, appVars
  <2>3. HeardHere' BY <2>2 DEF StopInv, HeardHere
  <2> QED BY <1>1, <1>3, <2>1, <2>3, UserRestarts, UserLeaving DEF StopInv
<1>4. CASE UNCHANGED vars
  BY <1>1, <1>4 DEF vars, vmVars, navVars, appVars, StopInv, AtVobus, AtVobu, Saves, HeardHere, Restarts,
     Leaving, CellNoted, ToldOf, Near, Gone, Elsewhere, VobuOf, StillOf
<1> QED BY <1>2, <1>3, <1>4 DEF Next

(* The block the machine would resume at is the start of a VOBU of the cell *)
(* it is for, whatever stops and restarts it.                               *)
THEOREM ResumesInCellAfterStops ==
  ASSUME OwnPlaces, OneNav, AnglesApart
  PROVE  Spec /\ PartsWhileStarted => []ResumeInCell
<1>1. StopInv => ResumeInCell
  BY DEF StopInv, Typed, Running, Kept, AtVobus, AtVobu, Saves, ResumeInCell, HasCell
<1> QED BY <1>1, InitStopInv, StopInvKept, PTL DEF Spec, PartsWhileStarted

(* Stream data belong to the cell the machine is in, from its VOB file,     *)
(* also when a poll restarted the machine and found it where it was noted.  *)
THEOREM DataFromCellAfterStops ==
  ASSUME OwnPlaces, OneNav, AnglesApart
  PROVE  Spec /\ PartsWhileStarted => DataOfCell
<1>1. ASSUME StopInv, [Next]_vars, Delivers
      PROVE  /\ event'.sector \in Start(vm'.cell)..Last(vm'.cell)
             /\ file = VobFile(vm'.vts, Disc[vm'.cell].domain)
  <2>1. Placed BY <1>1 DEF Delivers, ReadNav, ReadBlock, Playing, Tuned
  <2>2. /\ Now \in VmStates /\ Now.cell \in Cells /\ VobuOf(Now.cell)
        /\ file = VobFile(Now.vts, Disc[Now.cell].domain)
        /\ file = VobFile(Disc[Now.cell].vts, Disc[Now.cell].domain)
    BY <1>1, <2>1, PlacedNoted
  <2>3. vm'.cell = Now.cell /\ vm'.vts = Now.vts
    BY <1>1, <2>2 DEF Delivers, ReadNav, ReadBlock, VmStates
  <2>4. event'.sector \in Start(Now.cell)..Last(Now.cell)
    BY <1>1, <2>2, Delivered DEF StopInv
  <2> QED BY <2>2, <2>3, <2>4
<1> QED BY <1>1, InitStopInv, StopInvKept, PTL DEF Spec, PartsWhileStarted, DataOfCell

(* A cell is played sector by sector, from a NAV packet on, to its end; a   *)
(* stop and a restart at the position noted leave no gap.                   *)
THEOREM CellsPlayedInFullAfterStops ==
  ASSUME OwnPlaces, OneNav, AnglesApart
  PROVE  Spec /\ PartsWhileStarted => PlayedInFull
<1>1. ASSUME StopInv, [Next]_vars, Delivers
      PROVE  IF heard = None THEN event'.sector \in Navs(vm'.cell) ELSE event'.sector = heard + 1
  <2>1. Placed BY <1>1 DEF Delivers, ReadNav, ReadBlock, Playing, Tuned
  <2>2. /\ Now \in VmStates /\ Now.cell \in Cells /\ VobuOf(Now.cell)
        /\ file = VobFile(Disc[Now.cell].vts, Disc[Now.cell].domain)
    BY <1>1, <2>1, PlacedNoted
  <2>3. vm'.cell = Now.cell BY <1>1, <2>2 DEF Delivers, ReadNav, ReadBlock, VmStates
  <2>4. IF heard = None THEN event'.sector \in Navs(Now.cell) ELSE event'.sector = heard + 1
    BY <1>1, <2>2, Delivered DEF StopInv
  <2> QED BY <2>3, <2>4
<1>2. ASSUME StopInv, NextCell PROVE heard = Last(vm.cell)
  BY <1>2 DEF StopInv, Leaving, NextCell
<1> QED BY <1>1, <1>2, InitStopInv, StopInvKept, PTL DEF Spec, PartsWhileStarted, PlayedInFull

(* A still frame is reported at the end of the cell that carries it, or     *)
(* before the first block of a cell, also by a machine started again.       *)
THEOREM StillsAtEndAfterStops ==
  ASSUME OwnPlaces, OneNav, AnglesApart
  PROVE  Spec /\ PartsWhileStarted => StillAtEnd
<1>1. ASSUME StopInv, StillFrame
      PROVE  heard = None \/ (Disc[vm'.cell].still /\ heard = Last(vm'.cell))
  <2>1. Placed /\ pos.still /\ vm' = Now BY <1>1 DEF StillFrame, Tuned
  <2> QED BY <1>1, <2>1, PlacedNoted DEF StillOf
<1> QED BY <1>1, InitStopInv, StopInvKept, PTL DEF Spec, PartsWhileStarted, StillAtEnd

=============================================================================
