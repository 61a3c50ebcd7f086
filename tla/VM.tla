--------------------------------- MODULE VM ---------------------------------
(***************************************************************************)
(* The DVD virtual machine of libdvdnav (src/src/vm/vm.c): which cell of   *)
(* which program chain plays, in which domain, and how commands of the     *)
(* disc and calls of the application move it.                              *)
(*                                                                         *)
(* process_command loops over links; each turn of the loop, and each of    *)
(* the play_* functions it tail-calls, is a step of its own: link holds    *)
(* the link or the function that is due.  A call of the application is the *)
(* step that begins it; todo remembers what the called vm_* function does  *)
(* with the result, orig the machine a copy was made of.  Calls hold       *)
(* vm_lock, so a call begins when nothing is due.                          *)
(*                                                                         *)
(* What commands compute from registers is not modelled: a command block   *)
(* is the set of links it may yield, with NoJump when it may fall through. *)
(* Program chains have angle blocks only, as the code asserts.             *)
(***************************************************************************)
EXTENDS Integers, Sequences

CONSTANTS
  Pgcit,       \* from <<kind, VTS>> to the sequence of its program chains
  Titles,      \* tt_srpt: the sequence of [vts, ttn]
  Ptts,        \* vts_ptt_srpt of each VTS: sequence of titles, each a sequence of [pgcn, pgn]
  Angles,      \* values of AGL_REG
  MaxBlock,    \* bound: the largest block number within a cell
  Programs,    \* <<title, pgcn, pgn>> the application asks dvdnav_program_play for
  NoVM         \* no copy is being tried

ASSUME TitlesAssumption == \A i \in DOMAIN Titles : Titles[i].vts \in DOMAIN Ptts
ASSUME BlockAssumption  == MaxBlock \in Nat /\ Angles \subseteq Nat \ {0}

(* DVDMenuID_t *)
Escape == 0
Title  == 2
Root   == 3

Domains == {"fp", "vmgm", "vtsm", "title"}
FP      == <<"fp", 0>>
Blocks  == 0..MaxBlock
ASSUME DiscAssumption ==
  /\ FP \in DOMAIN Pgcit
  /\ \A v \in DOMAIN Ptts : \A t \in DOMAIN Ptts[v] :
       [vts |-> v, ttn |-> t] \in {Titles[i] : i \in DOMAIN Titles}
  /\ \A v \in DOMAIN Ptts : \A t \in DOMAIN Ptts[v] : \A p \in DOMAIN Ptts[v][t] :
       Ptts[v][t][p].pgcn \in DOMAIN Pgcit[<<"title", v>>]

(* link_t, and the play_* function due. *)
Link(cmd, d1, d2, d3) == [cmd |-> cmd, d1 |-> d1, d2 |-> d2, d3 |-> d3]
Due(cmd) == Link(cmd, 0, 0, 0)
NoJump   == Due("fall through")
Idle     == Due("idle")
Exit     == Due("Exit")
PlayThis == Due("PlayThis")
PlayPgc  == Due("play_PGC")

Plain == [op |-> "plain", cell |-> 0, block |-> 0, title |-> 0, part |-> 0]
After(op) == [Plain EXCEPT !.op = op]

VARIABLES
  vm,       \* vm_t and dvd_state_t
  link,     \* what process_command has to do next
  todo,     \* what the caller of process_command does then
  orig,     \* the VM that vm is a copy of, in calls that try first
  started,  \* dvdnav_t.started
  left      \* history: the place in a title where playback last was

vars == <<vm, link, todo, orig, started, left>>

Pgc(v) == Pgcit[v.pgc[1]][v.pgc[2]]
Cells(v)    == Len(Pgc(v).cells)
NrOfPrograms(v) == Len(Pgc(v).map)
Place(v) == [vts |-> v.vtsN, pgc |-> v.pgcN, cell |-> v.cellN, block |-> v.blockN]

-----------------------------------------------------------------------------
(* Tables and registers *)

(* get_PGCIT: the table of the domain, missing when no such IFO is open. *)
Table(v) == IF v.domain \in {"title", "vtsm"} THEN <<v.domain, v.vtsi>> ELSE <<"vmgm", 0>>
HasTable(v) == Table(v) \in DOMAIN Pgcit

(* set_PGCN *)
HasPgcn(v, n) == HasTable(v) /\ n \in DOMAIN Pgcit[Table(v)]
SetPgcn(v, n) ==
  [v EXCEPT !.pgc = <<Table(v), n>>, !.pgcN = n, !.pgN = 1,
            !.regs.tt_pgcn = IF v.domain = "title" THEN n ELSE @]

(* get_PGCN: 0 when the chain is not in the table of the domain. *)
GetPgcn(v) == IF HasTable(v) /\ v.pgc[1] = Table(v) THEN v.pgc[2] ELSE 0

(* The first element of S, a set of numbers, or none = 0. *)
First(S) == IF S = {} THEN 0 ELSE CHOOSE i \in S : \A j \in S : i <= j

(* get_TT and get_ID *)
TT(vts, ttn)  == First({i \in DOMAIN Titles : Titles[i] = [vts |-> vts, ttn |-> ttn]})
MenuId(v, id) == First({n \in DOMAIN Pgcit[Table(v)] : Pgcit[Table(v)][n].id = id})

(* vm_get_current_title_part: the first entry, over the titles of the VTS  *)
(* and their parts, that begins at the program, or the one before the      *)
(* first that begins behind it.                                            *)
Ptt(v, t, p) == Ptts[v.vtsi][t][p]
Begins(v, t, p) == Ptt(v, t, p).pgn = v.pgN
Between(v, t, p) == p > 1 /\ Ptt(v, t, p).pgn > v.pgN /\ Ptt(v, t, p - 1).pgn < v.pgN
Finds(v, t, p) == Ptt(v, t, p).pgcn = GetPgcn(v) /\ (Begins(v, t, p) \/ Between(v, t, p))
CurrentPart(v) ==
  LET parts(t) == {p \in DOMAIN Ptts[v.vtsi][t] : Finds(v, t, p)}
      t == First({s \in DOMAIN Ptts[v.vtsi] : parts(s) # {}})
      p == First(parts(t))
  IN  IF t = 0 THEN [title |-> 0, part |-> 0]
      ELSE [title |-> TT(v.vtsN, t), part |-> IF Begins(v, t, p) THEN p ELSE p - 1]

(* set_PGN: the program of the cell, none behind the last cell. *)
ProgramOf(v) ==
  CHOOSE n \in 0..NrOfPrograms(v) :
    /\ \A i \in 1..n : v.cellN >= Pgc(v).map[i]
    /\ n < NrOfPrograms(v) => v.cellN < Pgc(v).map[n + 1]
HasPgn(v) ==
  /\ ~(ProgramOf(v) = NrOfPrograms(v) /\ v.cellN > Cells(v))
  /\ v.domain = "title" => v.regs.ttn <= Len(Titles)
SetPgn(v) ==
  LET w == [v EXCEPT !.pgN = ProgramOf(v)]
  IN  IF v.domain = "title" THEN [w EXCEPT !.regs.pttn = CurrentPart(w).part] ELSE w

(* ifoOpenNewVTSI, which finds every IFO it is asked for. *)
OpenVtsi(v, n) == [v EXCEPT !.vtsN = n, !.vtsi = n]

(* set_VTS_PTT *)
HasPart(vts, ttn, part) ==
  vts \in DOMAIN Ptts /\ ttn \in DOMAIN Ptts[vts] /\ part \in DOMAIN Ptts[vts][ttn]
SetVtsPtt(v, vts, ttn, part) ==
  LET w == [OpenVtsi(v, vts) EXCEPT !.domain = "title", !.regs.pttn = part,
                                    !.regs.ttn = TT(vts, ttn), !.regs.vts_ttn = ttn]
  IN  [SetPgcn(w, Ptts[vts][ttn][part].pgcn) EXCEPT !.pgN = Ptts[vts][ttn][part].pgn]

(* set_VTS_PROG, for a chain that exists. *)
SetVtsProg(v, vts, ttn, pgcn, pgn) ==
  LET w == [OpenVtsi(v, vts) EXCEPT !.domain = "title", !.regs.ttn = TT(vts, ttn),
                                    !.regs.vts_ttn = ttn]
      x == [SetPgcn(w, pgcn) EXCEPT !.pgN = pgn]
  IN  [x EXCEPT !.regs.pttn = CurrentPart(x).part]

(* set_FP_PGC.  (pgcN is a byte offset then, which nothing uses.) *)
SetFp(v) == [v EXCEPT !.domain = "fp", !.pgc = <<FP, 1>>, !.pgcN = 0]

(* set_RSMinfo *)
SetRsm(v, cell, block) ==
  [v EXCEPT !.rsm = [vtsN |-> v.vtsN, pgcN |-> GetPgcn(v), blockN |-> block,
                     cellN |-> IF cell # 0 THEN cell ELSE v.cellN, regs |-> v.regs]]

(* vm_new_copy: an IFO handle of its own, the chain looked up in it again. *)
CanCopy(v) == GetPgcn(v) # 0
Copy(v) ==
  IF v.vtsN > 0 THEN [SetPgcn([v EXCEPT !.vtsi = v.vtsN], GetPgcn(v)) EXCEPT !.pgN = v.pgN]
  ELSE [v EXCEPT !.vtsi = 0]

(* HL_BTNN_REG, when the link names a button *)
Select(v, button) == IF button # 0 THEN [v EXCEPT !.regs.btn = button] ELSE v

FirstRegs == [ttn |-> 1, vts_ttn |-> 1, tt_pgcn |-> 0, pttn |-> 1, btn |-> 1]
(* Mutant: no VTS to resume is -1, as no VTS is. *)
ResetVmAll(v) ==
  [v EXCEPT !.domain = "fp", !.vtsN = -1, !.pgN = 0, !.cellN = 0, !.regs = FirstRegs,
            !.rsm.vtsN = -1, !.rsm.cellN = 0, !.rsm.blockN = 0]
(* vm_reset.  The chain, the block and the VTS information file stay. *)
ResetVm(v) ==
  [v EXCEPT !.domain = "fp", !.vtsN = -1, !.pgN = 0, !.cellN = 0, !.regs = FirstRegs,
            !.rsm.vtsN = 0, !.rsm.cellN = 0, !.rsm.blockN = 0]

Init ==
  /\ vm = [domain |-> "fp", vtsN |-> -1, vtsi |-> 0, pgc |-> <<FP, 0>>, pgcN |-> 0, pgN |-> 0,
           cellN |-> 0, blockN |-> 0, regs |-> FirstRegs, stopped |-> FALSE,
           rsm |-> [vtsN |-> 0, pgcN |-> 0, cellN |-> 0, blockN |-> 0,
                    regs |-> [ttn |-> 0, vts_ttn |-> 0, tt_pgcn |-> 0, pttn |-> 0, btn |-> 0]]]
  /\ link = Idle /\ todo = Plain /\ orig = NoVM /\ started = FALSE
  /\ left = Place(vm)
-----------------------------------------------------------------------------
(* The play_* functions.  A step ends with the link or function that is due next. *)

Then(v, l) == vm' = v /\ link' = l /\ UNCHANGED <<todo, orig, started, left>>

(* vmEval_CMD over a command block: a link, or falling through to l. *)
Eval(commands, l) == {IF c = NoJump THEN l ELSE c : c \in commands}

(* set_PGCN and play_PGC, or the end of playback. *)
ToChain(v, n) == IF HasPgcn(v, n) THEN Then(SetPgcn(v, n), PlayPgc) ELSE Then(v, Exit)
(* The same where the code asserts that it finds the chain: without it     *)
(* there is no step, because the program aborts.                           *)
MustChain(v, n) == HasPgcn(v, n) /\ Then(SetPgcn(v, n), PlayPgc)

(* play_PGC and play_PGC_PG, whose argument is always pgN: the pre         *)
(* commands, then the program.                                             *)
PlayPGC ==
  /\ link.cmd \in {"play_PGC", "play_PGC_PG"}
  /\ \E l \in Eval(Pgc(vm).pre, Due("play_PG")) :
       Then([vm EXCEPT !.pgN = IF link.cmd = "play_PGC" THEN 1 ELSE @,
                       !.cellN = 0, !.blockN = 0], l)

(* play_PGC_post: the post commands, then the next chain. *)
PlayPGCPost ==
  /\ link.cmd = "play_PGC_post"
  /\ \/ NoJump \in Pgc(vm).post /\ ToChain(vm, Pgc(vm).next)
     \/ \E l \in Pgc(vm).post \ {NoJump} : Then(vm, l)

(* play_PG *)
PlayPG ==
  /\ link.cmd = "play_PG"
  /\ IF vm.pgN > NrOfPrograms(vm) THEN Then(vm, Due("play_PGC_post"))
     ELSE Then([vm EXCEPT !.cellN = Pgc(vm).map[vm.pgN]], Due("play_Cell"))

(* play_Cell: behind the last cell the chain ends; the first cell of an    *)
(* angle block stands for the cell of the angle, if the block has one.     *)
Angled(v, agl) ==
  LET c == v.cellN + agl - 1
  IN  IF Pgc(v).cells[v.cellN].block = "first" /\ c <= Cells(v)
           /\ Pgc(v).cells[c].block # "normal"
      THEN [v EXCEPT !.cellN = c] ELSE v
(* Mutant: the program and the part are not worked out. *)
PlayCellOnly ==
  /\ link.cmd = "play_Cell"
  /\ IF vm.cellN > Cells(vm) THEN Then(vm, Due("play_PGC_post"))
     ELSE \E agl \in Angles : Then([Angled(vm, agl) EXCEPT !.blockN = 0], PlayThis)
PlayCell ==
  /\ link.cmd = "play_Cell"
  /\ IF vm.cellN > Cells(vm) THEN Then(vm, Due("play_PGC_post"))
     ELSE \E agl \in Angles :
            Then([SetPgn(Angled(vm, agl)) EXCEPT !.blockN = 0], PlayThis)

(* Mutant: the end of the chain does not end a block. *)
BehindBlock(v) ==
  IF Pgc(v).cells[v.cellN].block = "normal" THEN v.cellN + 1
  ELSE First({c \in (v.cellN + 1)..Cells(v) : Pgc(v).cells[c].block # "in"})

(* play_Cell_post: the cell command, then the cell behind this one, or     *)
(* behind the block this one is in.                                        *)
Behind(v) ==
  IF Pgc(v).cells[v.cellN].block = "normal" THEN v.cellN + 1
  ELSE First({c \in (v.cellN + 1)..(Cells(v) + 1) :
                c = Cells(v) + 1 \/ Pgc(v).cells[c].block # "in"})
PlayCellPost ==
  /\ link.cmd = "play_Cell_post"
  /\ LET commands == Pgc(vm).cells[vm.cellN].cmd
         v == [vm EXCEPT !.cellN = Behind(vm)]
     IN  \/ /\ NoJump \in commands
            /\ IF HasPgn(v) THEN Then(SetPgn(v), Due("play_Cell"))
                            ELSE Then(v, Due("play_PGC_post"))
         \/ \E l \in commands \ {NoJump} : Then(vm, l)

-----------------------------------------------------------------------------
(* process_command, link by link *)

(* A call that plays a title whatever its pre commands say drops a link.   *)
At(commands) == link.cmd \in commands /\ todo.op # "anyway"

LinkC ==
  /\ At({"LinkTopC", "LinkNextC", "LinkPrevC"})
  /\ LET step == [LinkTopC |-> 0, LinkNextC |-> 1, LinkPrevC |-> -1]
     IN  Then([Select(vm, link.d1) EXCEPT !.cellN = @ + step[link.cmd]], Due("play_Cell"))
LinkPG ==
  /\ At({"LinkTopPG", "LinkNextPG", "LinkPrevPG"})
  /\ LET step == [LinkTopPG |-> 0, LinkNextPG |-> 1, LinkPrevPG |-> -1]
     IN  Then([Select(vm, link.d1) EXCEPT !.pgN = @ + step[link.cmd]], Due("play_PG"))
LinkTopPGC == At({"LinkTopPGC"}) /\ Then(Select(vm, link.d1), PlayPgc)
(* A chain that names no other asserts; one that names a missing one ends. *)
LinkPGC ==
  /\ At({"LinkNextPGC", "LinkPrevPGC", "LinkGoUpPGC"})
  /\ LET to == [LinkNextPGC |-> Pgc(vm).next, LinkPrevPGC |-> Pgc(vm).prev,
                LinkGoUpPGC |-> Pgc(vm).goup]
     IN  to[link.cmd] # 0 /\ ToChain(Select(vm, link.d1), to[link.cmd])
LinkTailPGC == At({"LinkTailPGC"}) /\ Then(Select(vm, link.d1), Due("play_PGC_post"))

(* The title is left at its cell and resumed there, or at the first        *)
(* program of a chain whose pre commands made the call.                    *)
LinkRSM ==
  /\ At({"LinkRSM"})
  /\ LET v == [OpenVtsi(vm, vm.rsm.vtsN) EXCEPT !.domain = "title"]
         w == Select([SetPgcn(v, vm.rsm.pgcN) EXCEPT !.regs = vm.rsm.regs], link.d1)
     IN  \/ vm.rsm.vtsN = 0 /\ Then(vm, Exit)
         \/ /\ vm.rsm.vtsN # 0 /\ vm.rsm.cellN = 0
            /\ Then([w EXCEPT !.pgN = 1], Due("play_PG"))
         \/ /\ vm.rsm.vtsN # 0 /\ vm.rsm.cellN # 0
            /\ Then(SetPgn([w EXCEPT !.cellN = vm.rsm.cellN]),
                    Link("PlayThis", vm.rsm.blockN, 0, 0))

LinkPGCN == At({"LinkPGCN"}) /\ MustChain(vm, link.d1)
LinkPGN  == At({"LinkPGN"})
            /\ Then([Select(vm, link.d2) EXCEPT !.pgN = link.d1], Due("play_PG"))
LinkCN   == At({"LinkCN"})
            /\ Then([Select(vm, link.d2) EXCEPT !.cellN = link.d1], Due("play_Cell"))

(* set_VTS_PTT and playing what it found, or the end of playback. *)
ToPart(v, vts, ttn, part, play) ==
  IF HasPart(vts, ttn, part) THEN Then(SetVtsPtt(v, vts, ttn, part), Due(play))
  ELSE Then([OpenVtsi(v, vts) EXCEPT !.domain = "title"], Exit)

LinkPTTN == /\ At({"LinkPTTN"})
            /\ ToPart(Select(vm, link.d2), vm.vtsN, vm.regs.vts_ttn, link.d1, "play_PG")
JumpTT == /\ At({"JumpTT"})
          /\ ToPart(vm, Titles[link.d1].vts, Titles[link.d1].ttn, 1, "play_PGC")
JumpVTS_TT  == At({"JumpVTS_TT"})  /\ ToPart(vm, vm.vtsN, link.d1, 1, "play_PGC")
JumpVTS_PTT == At({"JumpVTS_PTT"}) /\ ToPart(vm, vm.vtsN, link.d1, link.d2, "play_PGC_PG")

(* To the menu or the chain of v's domain, which must be there; the end of *)
(* playback when the disc has no menus there.                              *)
NoMenus(v) == Then([vm EXCEPT !.vtsN = v.vtsN, !.vtsi = v.vtsi], Exit)
ToMenuPgc(v, n) == IF HasTable(v) THEN MustChain(v, n) ELSE NoMenus(v)
ToMenu(v, id) == IF HasTable(v) THEN MustChain(v, MenuId(v, id)) ELSE NoMenus(v)
In(v, domain) == [v EXCEPT !.domain = domain]

JumpSS_FP == At({"JumpSS_FP"}) /\ Then(SetFp(vm), PlayPgc)
JumpSS_VMGM_MENU == At({"JumpSS_VMGM_MENU"}) /\ ToMenu(In(vm, "vmgm"), link.d1)
JumpSS_VMGM_PGC  == At({"JumpSS_VMGM_PGC"}) /\ ToMenuPgc(In(vm, "vmgm"), link.d1)
(* The menus of a VTS, of the one that is open for number 0. *)
MenusOf(v, vts) == In(IF vts # 0 THEN OpenVtsi(v, vts) ELSE v, "vtsm")
(* Mutant: only VTS_TTN changes. *)
JumpSS_VTSM_Alone ==
  /\ At({"JumpSS_VTSM"})
  /\ LET v == MenusOf(vm, link.d1)
     IN  (link.d1 = 0 => HasTable(v)) /\ ToMenu([v EXCEPT !.regs.vts_ttn = link.d2], link.d3)
(* TTN and VTS_TTN are linked, so both change.  That there are menus is    *)
(* tested of a VTS that is named, and else asserted.                       *)
JumpSS_VTSM ==
  /\ At({"JumpSS_VTSM"})
  /\ LET v == MenusOf(vm, link.d1)
     IN  /\ link.d1 = 0 => HasTable(v)
         /\ ToMenu([v EXCEPT !.regs.vts_ttn = link.d2, !.regs.ttn = TT(v.vtsN, link.d2)], link.d3)

(* The same from a title, which can be resumed: no block is saved.         *)
CallSS_FP == At({"CallSS_FP"}) /\ Then(SetFp(SetRsm(vm, link.d1, 0)), PlayPgc)
CallSS_VMGM_MENU ==
  At({"CallSS_VMGM_MENU"}) /\ ToMenu(In(SetRsm(vm, link.d2, 0), "vmgm"), link.d1)
CallSS_VMGM_PGC ==
  At({"CallSS_VMGM_PGC"}) /\ ToMenuPgc(In(SetRsm(vm, link.d2, 0), "vmgm"), link.d1)
CallSS_VTSM ==
  At({"CallSS_VTSM"}) /\ ToMenu(In(SetRsm(vm, link.d2, 0), "vtsm"), link.d1)

-----------------------------------------------------------------------------
(* The end of process_command, and what its caller does then *)

(* The call is over; a copy that was tried takes the place of the machine. *)
Return(v) ==
  /\ vm' = v /\ link' = Idle /\ todo' = Plain /\ orig' = NoVM
  /\ left' = IF v.domain = "title" /\ ~v.stopped THEN Place(v) ELSE left
  /\ UNCHANGED started

(* ... or is thrown away. *)
Discard == vm' = orig /\ link' = Idle /\ todo' = Plain /\ orig' = NoVM /\ UNCHANGED <<started, left>>

(* A vm_* function begins, or goes on with another function or link. *)
GoOn(v, l, next) == vm' = v /\ link' = l /\ todo' = next /\ UNCHANGED <<orig, started, left>>

(* vm_jump_menu on v: nothing from First Play, from a title its place is   *)
(* saved.                                                                  *)
MenuDomain(menu) == IF menu = Title THEN "vmgm" ELSE "vtsm"
(* Mutant: saved from wherever the menu is called. *)
WithRsmAlways(v) == SetRsm(v, 0, v.blockN)
WithRsm(v) == IF v.domain = "title" THEN SetRsm(v, 0, v.blockN) ELSE v
HasMenu(v, menu) ==
  /\ v.domain # "fp"
  /\ LET w == In(v, MenuDomain(menu)) IN HasTable(w) /\ MenuId(w, menu) # 0
AtMenu(v, menu) ==
  LET w == In(WithRsm(v), MenuDomain(menu)) IN SetPgcn(w, MenuId(w, menu))

Result ==
  IF link.cmd = "PlayThis" THEN [vm EXCEPT !.blockN = link.d1]
  ELSE IF link.cmd = "Exit" THEN [vm EXCEPT !.stopped = TRUE]
  ELSE Select(vm, link.d1)
Ended(ops) == link.cmd \in {"PlayThis", "LinkNoLink", "Exit"} /\ todo.op \in ops

(* vm_start, vm_get_next_cell, vm_jump_pg and the like, vm_exec_cmd. *)
Finish == Ended({"plain"}) /\ Return(Result)

(* vm_jump_cell_block: the block counts if the cell is the one wanted. *)
FinishBlock ==
  /\ Ended({"block"})
  /\ Return(IF Result.cellN = todo.cell THEN [Result EXCEPT !.blockN = todo.block] ELSE Result)

(* vm_jump_prev_pg, in the chain the previous one led to. *)
FinishPrevPgc ==
  /\ Ended({"last_pg"})
  /\ GoOn([Result EXCEPT !.pgN = NrOfPrograms(vm)], Due("play_PG"), Plain)

(* vm_jump_title_part and vm_jump_title_program: links of the pre commands *)
(* are not followed.                                                       *)
PlayAnyway ==
  /\ todo.op = "anyway"
  /\ link.cmd \notin {"play_PGC", "play_PGC_PG", "play_PG", "play_Cell", "play_PGC_post"}
  /\ IF link.cmd = "PlayThis" THEN Return(Result) ELSE GoOn(vm, Due("play_PG"), [todo EXCEPT !.op = "plain"])

(* Mutant: a copy is merged though it stopped. *)
FinishTryAnyhow == Ended({"try"}) /\ Return(Result)
(* dvdnav_menu_call, dvdnav_next_pg_search: a copy that stopped is dropped. *)
FinishTry == Ended({"try"}) /\ IF Result.stopped THEN Discard ELSE Return(Result)
FinishNextPg ==
  /\ Ended({"next_pg"})
  /\ IF Result.stopped THEN GoOn(Copy(orig), Due("play_Cell_post"), After("try"))
     ELSE Return(Result)
(* A resume that failed: the root menu is tried on the same copy. *)
FinishResume ==
  /\ Ended({"resume"})
  /\ \/ link.cmd = "PlayThis" /\ Return(Result)
     \/ /\ link.cmd # "PlayThis"
        /\ IF HasMenu(Result, Root) THEN GoOn(AtMenu(Result, Root), PlayPgc, After("try"))
           ELSE Discard

-----------------------------------------------------------------------------
(* Calls *)

(* vm_start, from a poll or the first call of dvdnav_part_play.  A machine *)
(* that stopped is started again by the polls after it, whatever started   *)
(* says: the poll that reports the stop resets it.                         *)
Start ==
  /\ link = Idle /\ (~started \/ vm.stopped)
  /\ started' = TRUE
  /\ vm' = SetFp(IF vm.stopped THEN [ResetVm(vm) EXCEPT !.stopped = FALSE] ELSE vm)
  /\ link' = PlayPgc
  /\ UNCHANGED <<todo, orig, left>>
(* dvdnav_reset and dvdnav_stop *)
Reset ==
  /\ link = Idle /\ started
  /\ vm' = ResetVm(vm) /\ started' = FALSE
  /\ UNCHANGED <<link, todo, orig, left>>
Stop ==
  /\ link = Idle /\ started /\ ~vm.stopped
  /\ vm' = [vm EXCEPT !.stopped = TRUE]
  /\ UNCHANGED <<link, todo, orig, started, left>>

(* The other calls are made of a machine that runs. *)
Ready == link = Idle /\ started /\ ~vm.stopped
BeginCopy(v, l, next) ==
  vm' = v /\ link' = l /\ todo' = next /\ orig' = vm /\ UNCHANGED <<started, left>>

(* The player reads on within the cell (vm->state.blockN, dvdnav.c). *)
ReadOn(b) ==
  /\ Ready /\ b \in Blocks
  /\ vm' = [vm EXCEPT !.blockN = b]
  /\ left' = IF vm.domain = "title" THEN [left EXCEPT !.block = b] ELSE left
  /\ UNCHANGED <<link, todo, orig, started>>

NextCell == Ready /\ GoOn(vm, Due("play_Cell_post"), Plain)                  \* vm_get_next_cell
ExecCmd == Ready /\ \E l \in Pgc(vm).buttons \ {NoJump} : GoOn(vm, l, Plain)  \* vm_exec_cmd
JumpTopPg == Ready /\ GoOn(vm, Due("play_PG"), Plain)
JumpPrevPg ==
  /\ Ready
  /\ \/ vm.pgN > 1 /\ GoOn([vm EXCEPT !.pgN = @ - 1], Due("play_PG"), Plain)
     \/ /\ vm.pgN <= 1 /\ HasPgcn(vm, Pgc(vm).prev)
        /\ GoOn(SetPgcn(vm, Pgc(vm).prev), PlayPgc, After("last_pg"))
JumpUp == Ready /\ HasPgcn(vm, Pgc(vm).goup) /\ GoOn(SetPgcn(vm, Pgc(vm).goup), PlayPgc, Plain)
JumpCellBlock ==
  /\ Ready
  /\ \E c \in 1..Cells(vm) : \E b \in Blocks :
       GoOn([vm EXCEPT !.cellN = c], Due("play_Cell"), [After("block") EXCEPT !.cell = c, !.block = b])
(* Mutant: links of the pre commands are followed. *)
JumpTitlePartWithPre(title, part) ==
  /\ Ready /\ title \in DOMAIN Titles /\ HasPart(Titles[title].vts, Titles[title].ttn, part)
  /\ GoOn(SetVtsPtt(vm, Titles[title].vts, Titles[title].ttn, part),
           Due("play_PGC_PG"), [Plain EXCEPT !.title = title, !.part = part])
JumpTitlePart(title, part) ==
  /\ Ready /\ title \in DOMAIN Titles /\ HasPart(Titles[title].vts, Titles[title].ttn, part)
  /\ GoOn(SetVtsPtt(vm, Titles[title].vts, Titles[title].ttn, part),
           Due("play_PGC_PG"), [After("anyway") EXCEPT !.title = title, !.part = part])
JumpTitleProgram(title, pgcn, pgn) ==
  /\ Ready /\ <<title, pgcn, pgn>> \in Programs
  /\ GoOn(SetVtsProg(vm, Titles[title].vts, Titles[title].ttn, pgcn, pgn),
           Due("play_PGC_PG"), After("anyway"))

(* vm_jump_next_pg on a copy *)
JumpNextPg ==
  /\ Ready /\ CanCopy(vm)
  /\ LET v == Copy(vm)
     IN  IF v.pgN >= NrOfPrograms(v) THEN BeginCopy(v, Due("play_PGC_post"), After("next_pg"))
         ELSE BeginCopy([v EXCEPT !.pgN = @ + 1], Due("play_PG"), After("next_pg"))
(* dvdnav_menu_call: Escape resumes from a menu, if there is a place to    *)
(* resume, and calls the root menu otherwise.                              *)
MenuCall(menu) ==
  /\ Ready /\ CanCopy(vm)
  /\ LET v == Copy(vm)
         id == IF menu = Escape THEN Root ELSE menu
         resumes == menu = Escape /\ vm.domain # "title" /\ vm.rsm.vtsN # 0
     IN  \/ resumes /\ BeginCopy(v, Due("LinkRSM"), After("resume"))
         \/ ~resumes /\ HasMenu(v, id) /\ BeginCopy(AtMenu(v, id), PlayPgc, After("try"))

Steps ==
  \/ PlayPGC \/ PlayPGCPost \/ PlayPG \/ PlayCell \/ PlayCellPost
  \/ LinkC \/ LinkPG \/ LinkTopPGC \/ LinkPGC \/ LinkTailPGC \/ LinkRSM
  \/ LinkPGCN \/ LinkPGN \/ LinkCN \/ LinkPTTN
  \/ JumpTT \/ JumpVTS_TT \/ JumpVTS_PTT
  \/ JumpSS_FP \/ JumpSS_VMGM_MENU \/ JumpSS_VMGM_PGC \/ JumpSS_VTSM
  \/ CallSS_FP \/ CallSS_VMGM_MENU \/ CallSS_VMGM_PGC \/ CallSS_VTSM
  \/ Finish \/ FinishBlock \/ FinishPrevPgc \/ PlayAnyway
  \/ FinishTry \/ FinishNextPg \/ FinishResume
Calls ==
  \/ Start \/ Reset \/ Stop
  \/ \E b \in Blocks : ReadOn(b)
  \/ NextCell \/ ExecCmd \/ JumpTopPg \/ JumpPrevPg \/ JumpUp \/ JumpNextPg
  \/ JumpCellBlock
  \/ \E title \in DOMAIN Titles :
       \E part \in DOMAIN Ptts[Titles[title].vts][Titles[title].ttn] : JumpTitlePart(title, part)
  \/ \E p \in Programs : JumpTitleProgram(p[1], p[2], p[3])
  \/ \E menu \in {Escape, Root, Title} : MenuCall(menu)
Next == Steps \/ Calls

Spec == Init /\ [][Next]_vars

-----------------------------------------------------------------------------
(* Properties *)

Vts   == DOMAIN Ptts
Parts == {0} \cup UNION {UNION {DOMAIN Ptts[v][t] : t \in DOMAIN Ptts[v]} : v \in Vts}
Regs  == [ttn : 0..Len(Titles), vts_ttn : Nat, tt_pgcn : Nat, pttn : Parts, btn : Nat]
Rsm   == [vtsN : {0} \cup Vts, pgcN : Nat, cellN : Nat, blockN : Blocks, regs : Regs]
Machine ==
  [domain : Domains, vtsN : {-1} \cup Vts, vtsi : {0} \cup Vts, pgc : (DOMAIN Pgcit) \X Nat,
   pgcN : Nat, pgN : Nat, cellN : Nat, blockN : Blocks, regs : Regs, rsm : Rsm, stopped : BOOLEAN]
LinkCmds ==
  {"LinkNoLink", "LinkTopC", "LinkNextC", "LinkPrevC", "LinkTopPG", "LinkNextPG", "LinkPrevPG",
   "LinkTopPGC", "LinkNextPGC", "LinkPrevPGC", "LinkGoUpPGC", "LinkTailPGC", "LinkRSM", "LinkPGCN",
   "LinkPTTN", "LinkPGN", "LinkCN", "Exit", "JumpTT", "JumpVTS_TT", "JumpVTS_PTT", "JumpSS_FP",
   "JumpSS_VMGM_MENU", "JumpSS_VTSM", "JumpSS_VMGM_PGC", "CallSS_FP", "CallSS_VMGM_MENU",
   "CallSS_VTSM", "CallSS_VMGM_PGC", "PlayThis"}
PlayCmds == {"play_PGC", "play_PGC_PG", "play_PGC_post", "play_PG", "play_Cell", "play_Cell_post"}
LinkType ==
  [cmd : LinkCmds \cup PlayCmds \cup {"idle", "fall through"}, d1 : Nat, d2 : Nat, d3 : Nat]
TypeOK ==
  /\ vm \in Machine
  /\ orig \in Machine \cup {NoVM}
  /\ started \in BOOLEAN
  /\ link \in LinkType
  /\ todo \in [op : {"plain", "anyway", "block", "last_pg", "try", "next_pg", "resume"},
               cell : Nat, block : Blocks, title : 0..Len(Titles), part : Parts]

(* What plays: a cell of the chain, the program it belongs to, the chain   *)
(* with the number remembered for it in the table of the domain, of the    *)
(* VTS whose file is open.                                                 *)
Plays(v) ==
  /\ v.pgcN \in DOMAIN Pgcit[Table(v)] /\ v.pgc = <<Table(v), v.pgcN>>
  /\ v.cellN \in 1..Cells(v)
  /\ v.pgN = ProgramOf(v)
  /\ v.domain \in {"title", "vtsm"} => v.vtsi = v.vtsN

(* Whenever a call has returned and the machine is not stopped, it is in a *)
(* cell that the player can play: through links, chains without programs,  *)
(* jumps between domains, resumes, and calls that went through a copy.     *)
InCell == Ready => Plays(vm)

(* The domains that process_command asserts a link comes from. *)
From ==
  [LinkPTTN |-> {"title"}, JumpTT |-> {"vmgm", "fp"},
   JumpVTS_TT |-> {"vtsm", "title"}, JumpVTS_PTT |-> {"vtsm", "title"},
   JumpSS_FP |-> {"vmgm", "vtsm"}, JumpSS_VMGM_MENU |-> Domains \ {"title"},
   JumpSS_VMGM_PGC |-> Domains \ {"title"}, CallSS_FP |-> {"title"},
   CallSS_VMGM_MENU |-> {"title"}, CallSS_VMGM_PGC |-> {"title"}, CallSS_VTSM |-> {"title"}]
FromForVtsm ==
  IF link.d1 = 0 THEN {"vtsm"}
  ELSE IF link.d1 = vm.vtsN THEN {"vtsm", "vmgm", "fp"} ELSE {"vmgm", "fp"}

(* These assertions of vm.c hold on a disc that uses commands where        *)
(* DVD-Video allows them: programs and cells never run further than one    *)
(* behind the last, a link comes from the domain it may come from, a chain *)
(* linked to has a number and a chain, menu or title called exists in the  *)
(* table of the domain the machine is then in, a resume finds its cell in  *)
(* the chain that was left, and the chain has the number remembered for it *)
(* in its table (get_PGCN).  Not said are the assertions on the data that  *)
(* the model takes as given: aspect ratios, modes and types of blocks, a   *)
(* First Play chain and title numbers that exist, and files that open.     *)
AssertsHold ==
  /\ link.cmd = "play_PG" => vm.pgN \in 1..(NrOfPrograms(vm) + 1)
  /\ link.cmd = "play_Cell" =>
       /\ vm.cellN \in 1..(Cells(vm) + 1)
       /\ vm.cellN <= Cells(vm) => \A agl \in Angles : HasPgn(Angled(vm, agl))
  /\ link.cmd = "play_Cell_post" => vm.cellN \in 1..Cells(vm)
  /\ Ready \/ (link # Idle /\ link.cmd # "Exit") =>
       (vm.pgc[1] = Table(vm) => vm.pgcN = vm.pgc[2])
  /\ todo.op # "anyway" =>
       /\ link.cmd \in DOMAIN From => vm.domain \in From[link.cmd]
       /\ link.cmd = "LinkPrevC" => vm.cellN > 1
       /\ link.cmd = "LinkPrevPG" => vm.pgN > 1
       /\ link.cmd = "LinkNextPGC" => Pgc(vm).next # 0
       /\ link.cmd = "LinkPrevPGC" => Pgc(vm).prev # 0
       /\ link.cmd = "LinkGoUpPGC" => Pgc(vm).goup # 0
       /\ link.cmd = "LinkPGCN" => HasPgcn(vm, link.d1)
       /\ link.cmd = "JumpTT" => link.d1 \in DOMAIN Titles
       /\ link.cmd \in {"JumpSS_VMGM_MENU", "CallSS_VMGM_MENU"} /\ HasTable(In(vm, "vmgm")) =>
            MenuId(In(vm, "vmgm"), link.d1) # 0
       /\ link.cmd \in {"JumpSS_VMGM_PGC", "CallSS_VMGM_PGC"} /\ HasTable(In(vm, "vmgm")) =>
            HasPgcn(In(vm, "vmgm"), link.d1)
       /\ link.cmd = "JumpSS_VTSM" =>
            /\ vm.domain \in FromForVtsm
            /\ LET v == MenusOf(vm, link.d1)
               IN  /\ link.d1 = 0 => HasTable(v)
                   /\ HasTable(v) => MenuId(v, link.d3) # 0
       /\ link.cmd = "CallSS_VTSM" /\ HasTable(In(vm, "vtsm")) =>
            MenuId(In(vm, "vtsm"), link.d1) # 0
       /\ link.cmd = "LinkRSM" /\ vm.rsm.vtsN # 0 =>
            IF vm.rsm.cellN = 0 THEN vm.cellN # 0
            ELSE vm.rsm.cellN <= Len(Pgcit[<<"title", vm.rsm.vtsN>>][vm.rsm.pgcN].cells)

(* SPRM 4 to 8 agree with what plays: TTN is the title with the number     *)
(* VTS_TTN in the VTS, in a title TT_PGCN is the chain and PTTN the part   *)
(* that vm_get_current_title_part reports.  "TTN_REG (SPRM4), VTS_TTN_REG  *)
(* (SPRM5), TT_PGCN_REG (SPRM6) are linked, so if one changes, the others  *)
(* must change to match it."  The same holds of the copy kept for resuming. *)
(* No part is reported, though a title plays, for a program behind the one *)
(* its chain's last part begins with, and only then.                       *)
BehindLastPart(v) ==
  \A t \in DOMAIN Ptts[v.vtsN] : \A p \in DOMAIN Ptts[v.vtsN][t] :
    Ptt(v, t, p).pgcn = v.pgcN => Ptt(v, t, p).pgn < v.pgN
Linked(regs, vts) == regs.ttn = TT(vts, regs.vts_ttn)
RegistersAgree ==
  /\ Ready /\ vm.vtsN > 0 => Linked(vm.regs, vm.vtsN)
  /\ Ready /\ vm.domain = "title" =>
       /\ vm.regs.tt_pgcn = vm.pgcN
       /\ vm.regs.pttn = CurrentPart(vm).part
       /\ CurrentPart(vm).title \in {0, vm.regs.ttn}
       /\ CurrentPart(vm).part = 0 <=> BehindLastPart(vm)
  /\ vm.rsm.vtsN > 0 => Linked(vm.rsm.regs, vm.rsm.vtsN) /\ vm.rsm.regs.tt_pgcn = vm.rsm.pgcN

(* A menu resumes where the title was left: at the cell and block playback *)
(* last was at in a title, unless the command that called the menu named a *)
(* cell of its chain, or was a pre command of a chain not yet entered.     *)
Commands(p) == p.pre \cup p.post \cup p.buttons \cup UNION {p.cells[i].cmd : i \in DOMAIN p.cells}
MenuCalls == {"CallSS_VMGM_MENU", "CallSS_VMGM_PGC", "CallSS_VTSM"}
Named(p) == {l.d2 : l \in {c \in Commands(p) : c.cmd \in MenuCalls}}
            \cup {l.d1 : l \in {c \in Commands(p) : c.cmd = "CallSS_FP"}}
ByPre(p) == p.pre # {NoJump}
ResumePoint ==
  Ready /\ vm.domain # "title" /\ vm.rsm.vtsN > 0 =>
    \/ /\ [vts |-> vm.rsm.vtsN, pgc |-> vm.rsm.pgcN, cell |-> vm.rsm.cellN, block |-> 0]
            = [left EXCEPT !.block = 0]
       /\ vm.rsm.blockN \in {0, left.block}
    \/ LET p == Pgcit[<<"title", vm.rsm.vtsN>>][vm.rsm.pgcN]
       IN  vm.rsm.cellN \in Named(p) /\ (vm.rsm.cellN = 0 => ByPre(p))

(* Calls that try on a copy never stop playback: when a menu or the next   *)
(* program is not reached, the machine is where it was.                    *)
TriesSafely == [][orig # NoVM /\ orig' = NoVM => ~vm'.stopped /\ Plays(vm')]_vars

(* A part of a title that has programs is played when asked for, whatever  *)
(* the pre commands of its chain say: "we do not execute PGC pre commands  *)
(* that would do a jump".                                                  *)
Programmed(title, part) ==
  LET t == Titles[title]
  IN  Pgcit[<<"title", t.vts>>][Ptts[t.vts][t.ttn][part].pgcn].map # <<>>
PartPlayed ==
  [][todo.title # 0 /\ link' = Idle /\ Programmed(todo.title, todo.part) =>
       /\ vm'.domain = "title" /\ ~vm'.stopped
       /\ vm'.regs.ttn = todo.title /\ vm'.regs.pttn = todo.part]_vars
=============================================================================
