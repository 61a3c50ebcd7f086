-------------------------------- MODULE VMInv --------------------------------
(***************************************************************************)
(* Discs that use commands where DVD-Video allows them, and the inductive  *)
(* invariants of the machine on such a disc.  TLC evaluates the            *)
(* assumptions on a small disc; VMProofs proves the invariants for all.    *)
(***************************************************************************)
EXTENDS VM

-----------------------------------------------------------------------------
(* The disc *)

CellType == [block : {"normal", "first", "in"}, cmd : SUBSET LinkType]
ChainType ==
  [map : Seq(Nat), cells : Seq(CellType), prev : Nat, next : Nat, goup : Nat, id : Nat,
   pre : SUBSET LinkType, post : SUBSET LinkType, buttons : SUBSET LinkType]

(* The tables: of the video manager, and of the menus and titles of a VTS. *)
VmgmTable == <<"vmgm", 0>>
ASSUME TableAssumption ==
  /\ Vts \subseteq Nat \ {0}
  /\ DOMAIN Pgcit \subseteq {FP, VmgmTable} \cup ({"vtsm", "title"} \X Vts)
  /\ Pgcit \in [DOMAIN Pgcit -> Seq(ChainType)]
  /\ Ptts \in [Vts -> Seq(Seq([pgcn : Nat, pgn : Nat]))]
  /\ Titles \in Seq([vts : Nat, ttn : Nat])
  /\ \E i \in DOMAIN Titles : HasPart(Titles[i].vts, Titles[i].ttn, 1)

(* Programs begin in cells of the chain, the first one in the first cell:  *)
(* a chain without programs has no cells.                                  *)
ProgramsFit(p) ==
  /\ p.map = <<>> => p.cells = <<>>
  /\ \A i \in DOMAIN p.map : p.map[i] \in DOMAIN p.cells
  /\ p.map # <<>> => p.map[1] = 1

(* The First Play chain has commands only. *)
FirstPlayFits ==
  /\ DOMAIN Pgcit[FP] = {1}
  /\ LET p == Pgcit[FP][1] IN p.map = <<>> /\ p.next = 0 /\ p.prev = 0 /\ p.goup = 0

(* A part begins with a program of its chain, or is a chain without any. *)
PartFits(p, pgn) == pgn \in 1..Len(p.map) \/ (p.map = <<>> /\ pgn = 1)

(* Commands that make sense wherever a chain has commands, those of a menu *)
(* or title that plays, and those that end a cell only.                    *)
Anywhere ==
  {"LinkTopPGC", "LinkNextPGC", "LinkPrevPGC", "LinkGoUpPGC", "LinkTailPGC", "LinkPGCN",
   "LinkPGN", "LinkCN", "LinkPTTN", "JumpTT", "JumpVTS_TT", "JumpVTS_PTT", "JumpSS_FP",
   "JumpSS_VMGM_MENU", "JumpSS_VMGM_PGC", "JumpSS_VTSM", "CallSS_FP", "CallSS_VMGM_MENU",
   "CallSS_VMGM_PGC", "CallSS_VTSM", "Exit"}
WhilePlaying == {"LinkTopC", "LinkNextC", "LinkTopPG", "LinkNextPG", "LinkRSM", "LinkNoLink"}
Back == {"LinkPrevC", "LinkPrevPG"}

(* What a command of chain p of table t names exists, and it may come from *)
(* that table's domain.  A chain of a title links to chains of that title. *)
(* A link to the next, previous or upper chain is in chains that name one. *)
HasId(t, id) == \E n \in DOMAIN Pgcit[t] : Pgcit[t][n].id = id
Fits(t, p, l) ==
  /\ l.cmd = "LinkPGCN" => /\ t # FP /\ l.d1 \in DOMAIN Pgcit[t]
                           /\ t[1] = "title" => Pgcit[t][l.d1].id = p.id
  /\ l.cmd = "LinkNextPGC" => p.next # 0
  /\ l.cmd = "LinkPrevPGC" => p.prev # 0
  /\ l.cmd = "LinkGoUpPGC" => p.goup # 0
  /\ l.cmd = "LinkPGN" => l.d1 \in 1..(Len(p.map) + 1)
  /\ l.cmd = "LinkCN" => l.d1 \in 1..(Len(p.cells) + 1)
  /\ l.cmd = "LinkPTTN" => t[1] = "title"
  /\ l.cmd = "JumpTT" => /\ t[1] \in {"fp", "vmgm"} /\ l.d1 \in DOMAIN Titles
                         /\ HasPart(Titles[l.d1].vts, Titles[l.d1].ttn, 1)
  /\ l.cmd = "JumpVTS_TT" => t[1] \in {"vtsm", "title"} /\ HasPart(t[2], l.d1, 1)
  /\ l.cmd = "JumpVTS_PTT" => t[1] \in {"vtsm", "title"} /\ HasPart(t[2], l.d1, l.d2)
  /\ l.cmd = "JumpSS_FP" => t[1] \in {"vmgm", "vtsm"}
  /\ l.cmd \in {"JumpSS_VMGM_MENU", "JumpSS_VMGM_PGC", "JumpSS_VTSM"} => t[1] # "title"
  /\ l.cmd \in {"CallSS_FP", "CallSS_VMGM_MENU", "CallSS_VMGM_PGC", "CallSS_VTSM"} => t[1] = "title"
  /\ l.cmd = "JumpSS_VTSM" => \/ l.d1 = 0 /\ t[1] = "vtsm"
                              \/ l.d1 \in Vts /\ (t[1] = "vtsm" => l.d1 = t[2])
  /\ l.cmd = "JumpSS_VTSM" =>
       LET m == <<"vtsm", IF l.d1 # 0 THEN l.d1 ELSE t[2]>> IN m \in DOMAIN Pgcit => HasId(m, l.d3)
  /\ l.cmd \in {"JumpSS_VMGM_MENU", "CallSS_VMGM_MENU"} /\ VmgmTable \in DOMAIN Pgcit =>
       HasId(VmgmTable, l.d1)
  /\ l.cmd \in {"JumpSS_VMGM_PGC", "CallSS_VMGM_PGC"} /\ VmgmTable \in DOMAIN Pgcit =>
       l.d1 \in DOMAIN Pgcit[VmgmTable]
  /\ l.cmd = "CallSS_VTSM" /\ <<"vtsm", t[2]>> \in DOMAIN Pgcit => HasId(<<"vtsm", t[2]>>, l.d1)

(* The cell that a call asks to be resumed at, 0 for the one that plays. *)
CallLinks == {"CallSS_FP"} \cup MenuCalls
SavedCell(l) == IF l.cmd = "CallSS_FP" THEN l.d1 ELSE l.d2
CommandsFit(t, p) ==
  /\ \A l \in Commands(p) :
       Fits(t, p, l) /\ (l.cmd \in CallLinks => SavedCell(l) <= Len(p.cells))
  /\ \A l \in p.pre \cup p.post : l = NoJump \/ l.cmd \in Anywhere
  /\ \A l \in p.post : l.cmd \in CallLinks => SavedCell(l) # 0
  /\ \A l \in p.buttons : l = NoJump \/ l.cmd \in Anywhere \cup WhilePlaying
  /\ \A i \in DOMAIN p.cells : \A l \in p.cells[i].cmd :
       \/ l = NoJump \/ l.cmd \in Anywhere \cup WhilePlaying
       \/ l.cmd = "LinkPrevC" /\ i > 1
       \/ l.cmd = "LinkPrevPG" /\ Len(p.map) > 1 /\ i >= p.map[2]

(* vm_jump_prev_pg plays the last program of whatever chain the previous   *)
(* one leads to; where that has none its assertion fails.                  *)
PrevFits(t, p) ==
  p.prev \in DOMAIN Pgcit[t] => Pgcit[t][p.prev].map # <<>> /\ Pgcit[t][p.prev].pre \subseteq {NoJump}

ASSUME ChainAssumption ==
  /\ FirstPlayFits
  /\ \A t \in DOMAIN Pgcit : \A n \in DOMAIN Pgcit[t] :
       ProgramsFit(Pgcit[t][n]) /\ CommandsFit(t, Pgcit[t][n]) /\ PrevFits(t, Pgcit[t][n])
ASSUME PartAssumption ==
  \A v \in Vts : \A t \in DOMAIN Ptts[v] : \A p \in DOMAIN Ptts[v][t] :
    /\ <<"title", v>> \in DOMAIN Pgcit
    /\ Ptts[v][t][p].pgcn \in DOMAIN Pgcit[<<"title", v>>]
    /\ PartFits(Pgcit[<<"title", v>>][Ptts[v][t][p].pgcn], Ptts[v][t][p].pgn)
ASSUME ProgramsAssumption ==
  \A p \in Programs :
    /\ p[1] \in DOMAIN Titles
    /\ LET t == <<"title", Titles[p[1]].vts>>
       IN  t \in DOMAIN Pgcit /\ p[2] \in DOMAIN Pgcit[t] /\ p[3] \in 1..(Len(Pgcit[t][p[2]].map) + 1)

(* The chains of a title carry its number, and lead to chains of the same  *)
(* title.  Its parts are in the order of the programs of a chain, the      *)
(* first of which begins with the first program.                           *)
Leads(p) == {p.prev, p.next, p.goup}
PartInOrder(parts, p) ==
  /\ parts[p].pgn = 1 \/ (p > 1 /\ parts[p - 1].pgcn = parts[p].pgcn)
  /\ \A i \in 1..(p - 1) : parts[i].pgcn = parts[p].pgcn => parts[i].pgn < parts[p].pgn
ASSUME TitleAssumption ==
  /\ \A v \in Vts : \A t \in DOMAIN Ptts[v] : \A p \in DOMAIN Ptts[v][t] :
       Pgcit[<<"title", v>>][Ptts[v][t][p].pgcn].id = t /\ PartInOrder(Ptts[v][t], p)
  /\ \A p \in Programs : Pgcit[<<"title", Titles[p[1]].vts>>][p[2]].id = Titles[p[1]].ttn
  /\ \A t \in DOMAIN Pgcit : \A n \in DOMAIN Pgcit[t] : \A m \in Leads(Pgcit[t][n]) :
       t[1] = "title" /\ m \in DOMAIN Pgcit[t] => Pgcit[t][m].id = Pgcit[t][n].id
  /\ \A i, j \in DOMAIN Titles : Titles[i] = Titles[j] => i = j

(* The programs of a chain are in the order of their cells, and the cells  *)
(* of the angles that play in one place are of one program.                *)
ASSUME ProgramAssumption ==
  \A t \in DOMAIN Pgcit : \A n \in DOMAIN Pgcit[t] : LET p == Pgcit[t][n] IN
    /\ \A i, j \in DOMAIN p.map : i < j => p.map[i] < p.map[j]
    /\ \A i \in DOMAIN p.map : \A agl \in Angles : LET c == p.map[i] + agl - 1 IN
         /\ p.cells[p.map[i]].block = "first"
         /\ c \in DOMAIN p.cells /\ p.cells[c].block # "normal"
         => \A j \in DOMAIN p.map : p.map[j] <= c => j <= i

-----------------------------------------------------------------------------
(* The inductive invariant *)

(* The chain is the one remembered for the table of the domain, whose file *)
(* is open.                                                                *)
InChain(v) ==
  /\ v.domain = "fp" => v.pgc = <<FP, 1>>
  /\ v.domain # "fp" => v.pgc = <<Table(v), v.pgcN>> /\ HasPgcn(v, v.pgcN)
  /\ v.domain \in {"title", "vtsm"} => v.vtsi = v.vtsN

(* The place to resume at is in a chain of the disc. *)
RsmOK(v) ==
  v.rsm.vtsN # 0 =>
    LET t == <<"title", v.rsm.vtsN>>
    IN  /\ t \in DOMAIN Pgcit /\ v.rsm.pgcN \in DOMAIN Pgcit[t]
        /\ v.rsm.cellN <= Len(Pgcit[t][v.rsm.pgcN].cells)

(* What holds when l is due: the chain, a program or a cell of it where    *)
(* one is played, and a command that fits where the machine is.            *)
LinkFits(v, l) ==
  /\ l.cmd \in WhilePlaying \cup Back => ~v.stopped /\ Plays(v)
  /\ l.cmd = "LinkPrevC" => v.cellN > 1
  /\ l.cmd = "LinkPrevPG" => v.pgN > 1
  /\ l.cmd \in Anywhere => Fits(v.pgc[1], Pgc(v), l)
  /\ l.cmd \in CallLinks => SavedCell(l) <= Cells(v) /\ (SavedCell(l) = 0 => v.cellN <= Cells(v))
Sound(v, l, op) ==
  /\ l.cmd # "Exit" \/ v.domain = "title" \/ op = "anyway" => InChain(v)
  /\ l.cmd \in {"play_PG", "play_PGC_PG"} \/ (op = "anyway" /\ l.cmd # "PlayThis") =>
       v.pgN \in 1..(NrOfPrograms(v) + 1)
  /\ l.cmd = "play_Cell" => v.cellN \in 1..(Cells(v) + 1)
  /\ l.cmd \in {"play_Cell_post", "PlayThis"} => Plays(v)
  /\ l.cmd = "play_Cell_post" => ~v.stopped
  /\ op # "anyway" => LinkFits(v, l)
  /\ op = "last_pg" =>
       /\ l.cmd \in {"play_PGC", "play_PG", "play_Cell", "PlayThis"}
       /\ Pgc(v).map # <<>> /\ Pgc(v).pre \subseteq {NoJump}
       /\ l.cmd = "play_PG" => v.pgN <= NrOfPrograms(v)
       /\ l.cmd = "play_Cell" => v.cellN <= Cells(v)

(* A machine that plays, and a call under way on a machine. *)
Runs(v) == v \in Machine /\ ~v.stopped /\ RsmOK(v) /\ InChain(v) /\ Plays(v)
Tries == {"try", "next_pg", "resume"}
Goes(v, l, op) ==
  /\ v \in Machine /\ (IF v.stopped THEN op = "try" ELSE RsmOK(v))
  /\ l \in LinkType /\ l.cmd # "idle" /\ (l.cmd = "PlayThis" => l.d1 \in Blocks)
  /\ Sound(v, l, op)
  /\ op \in Tries => v.vtsi \in {0, v.vtsN}

(* A call is under way on a copy of a machine that plays, or on the        *)
(* machine itself; between calls a machine that was started plays.         *)
IInv ==
  /\ TypeOK /\ (~vm.stopped => RsmOK(vm))
  /\ link # Idle => Goes(vm, link, todo.op)
  /\ link = Idle => todo = Plain
  /\ Ready => Runs(vm)
  /\ IF todo.op \in Tries THEN Runs(orig) ELSE orig = NoVM

(* Where a menu resumes: see ResumePoint. *)
ResumesAt(rsm) ==
  \/ /\ [vts |-> rsm.vtsN, pgc |-> rsm.pgcN, cell |-> rsm.cellN, block |-> 0] = [left EXCEPT !.block = 0]
     /\ rsm.blockN \in {0, left.block}
  \/ LET p == Pgcit[<<"title", rsm.vtsN>>][rsm.pgcN]
     IN  rsm.cellN \in Named(p) /\ (rsm.cellN = 0 => ByPre(p))
Resumes(v) == v.domain # "title" /\ v.rsm.vtsN > 0 => ResumesAt(v.rsm)

(* Between calls, and until a command leaves it, a title is where playback *)
(* was last.  A call comes from such a place, or from commands that name   *)
(* the cell to resume at or precede the chain's cells.  A machine that was *)
(* not started is not in a title.                                          *)
Left(v) == v.domain = "title" => left = Place(v)
ResumeInv ==
  /\ ~vm.stopped => Resumes(vm)
  /\ Ready => Left(vm)
  /\ todo.op \in Tries => Resumes(orig) /\ Left(orig)
  /\ link.cmd = "play_Cell_post" => Left(vm)
  /\ link.cmd \in CallLinks /\ todo.op # "anyway" =>
       /\ link \in Commands(Pgc(vm))
       /\ SavedCell(link) = 0 => Left(vm) \/ (vm.cellN = 0 /\ ByPre(Pgc(vm)))
  /\ todo.op = "resume" => link.cmd \notin {"play_Cell_post", "LinkNoLink"}
  /\ ~started => link = Idle /\ vm.domain = "fp"

(* The registers of a title are those of its chain, and so are those saved *)
(* for a resume.  TTN and VTS_TTN are linked unless there are no menus of  *)
(* the VTS just opened, where playback ends; the part is the current one   *)
(* from the time that a cell plays until another one is due.               *)
TitleRegs(regs, vts, pgcn) ==
  Linked(regs, vts) /\ regs.tt_pgcn = pgcn /\ Pgcit[<<"title", vts>>][pgcn].id = regs.vts_ttn
RegsFit(v) ==
  /\ v.domain = "title" => TitleRegs(v.regs, v.vtsN, v.pgcN)
  /\ v.rsm.vtsN > 0 => TitleRegs(v.rsm.regs, v.rsm.vtsN, v.rsm.pgcN)
VtsLinked(v) == v.vtsN > 0 => Linked(v.regs, v.vtsN)
PartCurrent(v) == v.domain = "title" => v.regs.pttn = CurrentPart(v).part
PartLinks == {"PlayThis", "play_Cell_post", "LinkNoLink"}
RegInv ==
  /\ RegsFit(vm)
  /\ ~vm.stopped /\ (link.cmd # "Exit" \/ todo.op = "anyway") => VtsLinked(vm)
  /\ link.cmd \in PartLinks \/ Ready => PartCurrent(vm)
  /\ todo.op \in Tries => RegsFit(orig) /\ VtsLinked(orig) /\ PartCurrent(orig)

(* A part asked for is on its way: its program, its cell, then the cell    *)
(* that plays.                                                             *)
PartDue(v, l, next) ==
  LET t == Titles[next.title]
      q == Ptts[t.vts][t.ttn][next.part]
  IN  /\ next.title \in DOMAIN Titles /\ HasPart(t.vts, t.ttn, next.part)
      /\ v.domain = "title" /\ ~v.stopped /\ v.vtsN = t.vts /\ v.pgcN = q.pgcn /\ v.pgN = q.pgn
      /\ v.regs.ttn = next.title
      /\ l.cmd = "play_Cell" => v.cellN = Pgc(v).map[q.pgn]
      /\ l.cmd = "PlayThis" => v.regs.pttn = next.part
      /\ IF next.op = "plain" THEN l.cmd \in {"play_PG", "play_Cell", "PlayThis"}
         ELSE next.op = "anyway" /\ l.cmd \notin {"play_PGC", "play_PGC_post", "play_Cell_post"}
PartInv == todo.title # 0 => PartDue(vm, link, todo) \/ ~Programmed(todo.title, todo.part)
=============================================================================
