------------------------------- MODULE Player -------------------------------
(***************************************************************************)
(* The event engine of libdvdnav: dvdnav_get_next_cache_block of           *)
(* src/src/dvdnav.c and the calls that steer it (navigation.c,             *)
(* highlight.c, searching.c), over a virtual machine of which only the     *)
(* position matters (src/src/vm/vm.c; VMs jump wherever the disc says).    *)
(*                                                                         *)
(* Two threads: the player thread polls for the next event; the user       *)
(* interface calls everything else.  A section under vm_lock is one        *)
(* action; flags the code reads or writes without the lock are accessed in *)
(* actions of their own, so the end of a cell, where the engine reads      *)
(* three of them, is three actions with the lock held (step).              *)
(***************************************************************************)
EXTENDS Integers

CONSTANTS
  Cells,       \* cells of the disc
  Disc,        \* what each of them is
  FirstCell,   \* where the First Play PGC leads
  VobuSize,    \* blocks of a VOBU, its NAV packet included
  Buttons,     \* button numbers
  Streams,     \* SPU and audio stream numbers
  HopSeek,     \* HOP_SEEK (0x1000)
  MaxHop,      \* bound: the highest hop_channel
  RestartMod,  \* bound: cell_restart counts modulo this (2^32)
  Calls,       \* the calls the application makes, and "exit" if the disc may stop
  ReadFaults,  \* TRUE: reading a block or opening a file may fail
  EndOfCell,   \* SRI_END_OF_CELL
  None         \* no file, no cell, no resume information, nothing told

(* A cell: its VTS and domain, number, first sector, number of VOBUs, and  *)
(* whether it ends in a still, has button highlights ("plain": a menu      *)
(* without buttons) and lies in a multi-angle title.                       *)
CellInfo == [vts : Nat, domain : {"vmgm", "vtsm", "title"}, cellN : Nat \ {0}, start : Nat,
             vobus : Nat \ {0}, still : BOOLEAN, menu : {"no", "plain", "buttons"},
             angles : BOOLEAN]
ASSUME DiscAssumption    == Disc \in [Cells -> CellInfo] /\ FirstCell \in Cells
ASSUME VobuAssumption    == VobuSize \in Nat \ {0, 1}
ASSUME ButtonAssumption  == 1 \in Buttons /\ Buttons \subseteq Nat \ {0}
ASSUME StreamAssumption  == 1 \in Streams /\ Streams \subseteq Nat \ {0}
ASSUME HopAssumption     == HopSeek \in Nat \ {0} /\ MaxHop \in Nat
ASSUME RestartAssumption == RestartMod \in Nat \ {0, 1}
ASSUME NoneAssumption    == None \notin Cells \cup Int /\ EndOfCell \notin Int

VARIABLES
  vm,              \* vm_t: what vm_position_get reads, and hop_channel
  rsm,             \* its resume information: a title cell and a block in it
  stopped,         \* vm->stopped
  started,         \* dvdnav_t from here on
  file,            \* the open VOB file
  pos,             \* position_current
  vobu,
  pci,             \* of the last NAV packet decoded: sector, highlights
  last_cmd_nav_lbn,
  skip_still, sync_wait, sync_wait_skip, spu_clut_changed,
  step,            \* where the player thread is in the end of a cell
  ui,              \* where the user interface is in its call
  event,           \* the last event returned
  told,            \* history: what the application was told so far
  heard            \* history: the last sector of this cell read for it

vmVars   == <<vm, rsm, stopped, started>>
flagVars == <<skip_still, sync_wait, sync_wait_skip>>
navVars  == <<vobu, pci, last_cmd_nav_lbn>>
appVars  == <<event, told, heard>>
vars == <<vmVars, file, pos, navVars, flagVars, spu_clut_changed, step, ui, appVars>>

Start(c) == Disc[c].start
Last(c)  == Start(c) + Disc[c].vobus * VobuSize - 1
Navs(c)  == {Start(c) + k * VobuSize : k \in 0..(Disc[c].vobus - 1)}
IsMenu(c) == Disc[c].domain # "title"

(* DVD_READ_MENU_VOBS or DVD_READ_TITLE_VOBS of a VTS, 0 for the VMG. *)
VobFile(vts, domain) == CASE domain = "vmgm"  -> <<0, "menu">>
                          [] domain = "vtsm"  -> <<vts, "menu">>
                          [] domain = "title" -> <<vts, "title">>

(* The NAV packet at a sector of a file: the cells it may belong to. *)
NavAt(f, sector) == {c \in Cells : /\ VobFile(Disc[c].vts, Disc[c].domain) = f
                                   /\ sector \in Navs(c)}
-----------------------------------------------------------------------------
(* The virtual machine, as far as positions go *)

NoVM == [cell |-> None, vts |-> -1, restart |-> 0, blockN |-> 0, hop |-> 0,
         button |-> 1, spu |-> 1, audio |-> 1]

(* Mutants: the restart count is not kept in its width; blockN survives.   *)
PlayUnwrapped(v, c) == [v EXCEPT !.cell = c, !.restart = @ + 1, !.blockN = 0,
                                 !.vts = IF Disc[c].domain = "vmgm" THEN @ ELSE Disc[c].vts]
PlayMidCell(v, c) == [v EXCEPT !.cell = c, !.restart = (@ + 1) % RestartMod,
                               !.vts = IF Disc[c].domain = "vmgm" THEN @ ELSE Disc[c].vts]

(* play_Cell: entering the VMG menus leaves vtsN alone. *)
Play(v, c) == [v EXCEPT !.cell = c, !.restart = (@ + 1) % RestartMod, !.blockN = 0,
                        !.vts = IF Disc[c].domain = "vmgm" THEN @ ELSE Disc[c].vts]

(* vm_start on a VM that vm_reset has put back, or that never ran. *)
Booted == Play(NoVM, FirstCell)

(* What the commands on the way may do to the registers a position shows. *)
Registers(v) == {[v EXCEPT !.button = r[1], !.spu = r[2], !.audio = r[3]] :
                   r \in ({v.button} \cup Buttons) \X Streams \X Streams}

Outcome(v, r, stop) == [vm |-> v, rsm |-> r, stopped |-> stop]

(* process_command: play any cell, saving resume information (CallSS) when *)
(* a title calls a menu; resume what was saved, which does not count as a  *)
(* restart of the cell; or Exit.  VMs play a menu and a title in different *)
(* domains and a disc resumes from menus only.                             *)
Saved(v, c) == IF ~IsMenu(v.cell) /\ IsMenu(c) THEN [cell |-> v.cell, blockN |-> 0] ELSE rsm
Jumps(v) == UNION {{Outcome(w, Saved(v, c), stopped) : w \in Registers(Play(v, c))} : c \in Cells}
Resumes(v) ==
  IF rsm # None /\ IsMenu(v.cell)
  THEN {Outcome([v EXCEPT !.cell = rsm.cell, !.vts = Disc[rsm.cell].vts,
                          !.blockN = rsm.blockN, !.button = b], rsm, stopped) : b \in Buttons}
  ELSE {}
Exits(v) == IF "exit" \in Calls THEN {Outcome(v, rsm, TRUE)} ELSE {}
Commands(v) == Jumps(v) \cup Resumes(v) \cup Exits(v)

Became(o) == vm' = o.vm /\ rsm' = o.rsm /\ stopped' = o.stopped
Hop(o, n) == [o EXCEPT !.vm.hop = @ + n]

VmStates ==
  [cell : Cells \cup {None}, vts : Nat \cup {-1}, restart : 0..(RestartMod - 1),
   blockN : Int, hop : Nat, button : Buttons, spu : Streams, audio : Streams]
Positions ==
  [vts : Nat \cup {-1}, domain : {"none", "vmgm", "vtsm", "title"},
   cell : Nat \cup {-1}, restart : 0..(RestartMod - 1), start : Nat,
   button : Buttons \cup {0, -1}, spu : Streams \cup {0, -1},
   audio : Streams \cup {0, -1}, hop : Nat, still : BOOLEAN]
TypeOK ==
  /\ vm \in VmStates
  /\ rsm \in [cell : Cells, blockN : Int] \cup {None}
  /\ {stopped, started, skip_still, sync_wait, sync_wait_skip, spu_clut_changed} \subseteq BOOLEAN
  /\ file \in (Nat \X {"menu", "title"}) \cup {None}
  /\ pos \in Positions
  /\ vobu \in [start : Int, length : Nat, blockN : Nat, next : Int \cup {EndOfCell}]
  /\ pci \in [lbn : Int, menu : {"no", "plain", "buttons"}]
  /\ last_cmd_nav_lbn \in Int \cup {EndOfCell}
  /\ step \in {"idle", "leave", "clear"}
  /\ ui \in {"idle", "skip_still", "sync_wait", "sync_wait_skip", "press", "select",
              "seek", "clear"}

(* dvdnav_open: vm_reset and dvdnav_clear; dvdnav_t was zeroed. *)
NoPos == [vts |-> 0, domain |-> "none", cell |-> 0, restart |-> 0, start |-> 0, button |-> 0,
          spu |-> 0, audio |-> 0, hop |-> 0, still |-> FALSE]
NoPci == [lbn |-> 0, menu |-> "no"]

Init ==
  /\ vm = NoVM /\ rsm = None /\ stopped = FALSE /\ started = FALSE
  /\ file = None /\ pos = NoPos
  /\ vobu = [start |-> 0, length |-> 0, blockN |-> 0, next |-> 0]
  /\ pci = NoPci /\ last_cmd_nav_lbn = EndOfCell
  /\ skip_still = FALSE /\ sync_wait = FALSE /\ sync_wait_skip = FALSE
  /\ spu_clut_changed = FALSE
  /\ step = "idle" /\ ui = "idle"
  /\ event = [kind |-> "nop", sector |-> None]
  /\ told = [file |-> None, play |-> None, clut |-> None,
             spu |-> None, audio |-> None, button |-> None]
  /\ heard = None
-----------------------------------------------------------------------------
(* dvdnav_get_next_cache_block.  Its tests come in a fixed order, and each *)
(* event returns before the next test.                                     *)

(* vm_start is called when the VM does not run; in the code the rest of    *)
(* the call goes on with what it left.                                     *)
Now == IF started THEN vm ELSE Booted

(* The call holds vm_lock and finds the VM running.  The application does  *)
(* not poll inside dvdnav_reset, where the VM has no cell to report.       *)
Polling == step = "idle" /\ ui # "clear"
Alive == /\ Polling /\ (started => ~stopped)
         /\ started' = TRUE /\ stopped' = FALSE
         /\ rsm' = IF started THEN rsm ELSE None

Returns(kind, sector) == event' = [kind |-> kind, sector |-> sector]
Announce(kind) == Returns(kind, None)

(* Mutant: a cell played anew is taken for the one that played. *)
NewCellByPlace == pos.cell # Disc[Now.cell].cellN \/ pos.start # Start(Now.cell)

(* The tests on the way to the data, each after those before it. *)
Hopped  == pos.hop # Now.hop
Moved   == file = None \/ pos.vts # Now.vts \/ pos.domain # Disc[Now.cell].domain
NewCell == \/ pos.cell # Disc[Now.cell].cellN
           \/ pos.restart # Now.restart
           \/ pos.start # Start(Now.cell)
Calm    == Alive /\ ~Hopped /\ pos.button = Now.button /\ ~sync_wait
Placed  == Calm /\ ~Moved /\ ~NewCell
Tuned   == Placed /\ ~spu_clut_changed /\ pos.spu = Now.spu /\ pos.audio = Now.audio
Playing == Tuned /\ ~pos.still

(* Error returns that change nothing but what the call did before. *)
Error == Announce("err") /\ UNCHANGED <<told, heard>>

StartFails ==          \* First Play leads nowhere, or vm_reset failed
  /\ Polling /\ ~started /\ "exit" \in Calls
  /\ stopped' = TRUE
  /\ Error
  /\ UNCHANGED <<vm, rsm, started, file, pos, navVars, flagVars, spu_clut_changed, step, ui>>

Stop ==
  /\ Polling /\ started /\ stopped
  /\ started' = FALSE
  /\ Announce("stop")
  /\ UNCHANGED <<vm, rsm, stopped, file, pos, navVars, flagVars, spu_clut_changed, step, ui,
                 told, heard>>

(* Where a cell or a hop is played from: the block the VM says. *)
Entry == Start(Now.cell) + Now.blockN
EntryVobu == [start |-> Entry, length |-> 0, blockN |-> 0, next |-> 0]

(* After a seek in a multi-angle title the NAV packet sought to is read    *)
(* from the file still open, to step over its VOBU.                        *)
SeekSkips == Now.hop - pos.hop >= HopSeek /\ Disc[Now.cell].angles
NextNav(c, sector) == IF sector + VobuSize > Last(c) THEN EndOfCell ELSE VobuSize

HopChannel ==
  /\ Alive /\ Hopped
  /\ IF SeekSkips
     THEN \E c \in NavAt(file, Entry) :
            /\ pci' = [lbn |-> Entry, menu |-> Disc[c].menu]
            /\ vm' = [Now EXCEPT !.blockN =
                        IF NextNav(c, Entry) = EndOfCell THEN @ ELSE @ + VobuSize]
     ELSE vm' = Now /\ UNCHANGED pci
  /\ pos' = [pos EXCEPT !.hop = Now.hop]
  /\ vobu' = EntryVobu
  /\ sync_wait' = FALSE
  /\ Announce("hop")
  /\ heard' = None
  /\ UNCHANGED <<file, last_cmd_nav_lbn, skip_still, sync_wait_skip, spu_clut_changed,
                 step, ui, told>>

HopFails ==
  /\ Alive /\ Hopped /\ SeekSkips
  /\ ReadFaults \/ NavAt(file, Entry) = {}
  /\ vm' = Now
  /\ Error
  /\ UNCHANGED <<file, pos, navVars, flagVars, spu_clut_changed, step, ui>>

Highlight ==
  /\ Alive /\ ~Hopped /\ pos.button # Now.button
  /\ vm' = Now
  /\ pos' = [pos EXCEPT !.button = Now.button]
  /\ Announce("highlight")
  /\ told' = [told EXCEPT !.button = Now.button]
  /\ UNCHANGED <<file, navVars, flagVars, spu_clut_changed, step, ui, heard>>

Wait ==
  /\ Alive /\ ~Hopped /\ pos.button = Now.button /\ sync_wait
  /\ vm' = Now
  /\ Announce("wait")
  /\ UNCHANGED <<file, pos, navVars, flagVars, spu_clut_changed, step, ui, told, heard>>

(* Mutant: a VTS change does not force a cell change. *)
VtsChangeOnly ==
  /\ Calm /\ Moved
  /\ vm' = Now
  /\ pos' = [pos EXCEPT !.vts = Now.vts, !.domain = Disc[Now.cell].domain,
                        !.spu = -1, !.audio = -1]
  /\ file' = VobFile(Now.vts, Disc[Now.cell].domain)
  /\ spu_clut_changed' = TRUE
  /\ Announce("vts")
  /\ told' = [told EXCEPT !.file = file', !.play = None, !.clut = None,
                          !.spu = None, !.audio = None]
  /\ UNCHANGED <<navVars, flagVars, step, ui, heard>>

VtsChange ==
  /\ Calm /\ Moved
  /\ vm' = Now
  /\ pos' = [pos EXCEPT !.vts = Now.vts, !.domain = Disc[Now.cell].domain,
                        !.cell = -1, !.spu = -1, !.audio = -1]
  /\ file' = VobFile(Now.vts, Disc[Now.cell].domain)
  /\ spu_clut_changed' = TRUE
  /\ Announce("vts")
  /\ told' = [told EXCEPT !.file = file', !.play = None, !.clut = None,
                          !.spu = None, !.audio = None]
  /\ UNCHANGED <<navVars, flagVars, step, ui, heard>>

VtsFails ==            \* the old file is closed, the new one does not open
  /\ Calm /\ Moved /\ ReadFaults
  /\ vm' = Now
  /\ pos' = [pos EXCEPT !.vts = Now.vts, !.domain = Disc[Now.cell].domain]
  /\ file' = None
  /\ Error
  /\ UNCHANGED <<navVars, flagVars, spu_clut_changed, step, ui>>

(* Mutant: the VOBU of the cell before goes on. *)
CellChangeInVobu ==
  /\ Calm /\ ~Moved /\ NewCell
  /\ vm' = Now
  /\ pos' = [pos EXCEPT !.cell = Disc[Now.cell].cellN, !.restart = Now.restart,
                        !.start = Start(Now.cell), !.spu = -1, !.audio = -1]
  /\ spu_clut_changed' = TRUE
  /\ Announce("cell")
  /\ told' = [told EXCEPT !.play = <<Now.cell, Now.restart>>, !.clut = None,
                          !.spu = None, !.audio = None]
  /\ heard' = None
  /\ UNCHANGED <<file, navVars, flagVars, step, ui>>

CellChange ==
  /\ Calm /\ ~Moved /\ NewCell
  /\ vm' = Now
  /\ pos' = [pos EXCEPT !.cell = Disc[Now.cell].cellN, !.restart = Now.restart,
                        !.start = Start(Now.cell), !.spu = -1, !.audio = -1]
  /\ vobu' = EntryVobu
  /\ spu_clut_changed' = TRUE
  /\ Announce("cell")
  /\ told' = [told EXCEPT !.play = <<Now.cell, Now.restart>>, !.clut = None,
                          !.spu = None, !.audio = None]
  /\ heard' = None
  /\ UNCHANGED <<file, pci, last_cmd_nav_lbn, flagVars, step, ui>>

ClutChange ==
  /\ Placed /\ spu_clut_changed
  /\ vm' = Now
  /\ spu_clut_changed' = FALSE
  /\ Announce("clut")
  /\ told' = [told EXCEPT !.clut = <<Now.cell, Now.restart>>]
  /\ UNCHANGED <<file, pos, navVars, flagVars, step, ui, heard>>

SpuChange ==
  /\ Placed /\ ~spu_clut_changed /\ pos.spu # Now.spu
  /\ vm' = Now
  /\ pos' = [pos EXCEPT !.spu = Now.spu]
  /\ Announce("spu")
  /\ told' = [told EXCEPT !.spu = Now.spu]
  /\ UNCHANGED <<file, navVars, flagVars, spu_clut_changed, step, ui, heard>>

AudioChange ==
  /\ Placed /\ ~spu_clut_changed /\ pos.spu = Now.spu /\ pos.audio # Now.audio
  /\ vm' = Now
  /\ pos' = [pos EXCEPT !.audio = Now.audio]
  /\ Announce("audio")
  /\ told' = [told EXCEPT !.audio = Now.audio]
  /\ UNCHANGED <<file, navVars, flagVars, spu_clut_changed, step, ui, heard>>

StillFrame ==
  /\ Tuned /\ pos.still
  /\ vm' = Now
  /\ Announce("still")
  /\ UNCHANGED <<file, pos, navVars, flagVars, spu_clut_changed, step, ui, told, heard>>

(* Mutant: one block too many is read of each VOBU. *)
VobuPassed == vobu.blockN > vobu.length

(* Mutant: the end of any VOBU is taken for the end of the cell. *)
EndOfVobu == Playing /\ vobu.blockN >= vobu.length

(* The end of a cell.  The still is activated; if there is one, or the     *)
(* last NAV packet has highlights, the application is asked to wait first. *)
VobuDone  == vobu.blockN >= vobu.length
EndOfPlay == Playing /\ VobuDone /\ vobu.next = EndOfCell

LeaveCell ==
  /\ EndOfPlay
  /\ vm' = Now
  /\ pos' = [pos EXCEPT !.still = Disc[Now.cell].still]
  /\ sync_wait' = (sync_wait \/ /\ Disc[Now.cell].still \/ pci.menu # "no"
                                /\ ~sync_wait_skip)
  /\ step' = "leave"
  /\ UNCHANGED <<file, navVars, skip_still, sync_wait_skip, spu_clut_changed, ui, appVars>>

(* vm_get_next_cell, unless a still is on and was not skipped. *)
NextCell ==
  /\ step = "leave" /\ (~pos.still \/ skip_still)
  /\ \E o \in Commands(vm) : Became(o)
  /\ pos' = [pos EXCEPT !.still = FALSE]
  /\ skip_still' = FALSE
  /\ step' = "clear"
  /\ UNCHANGED <<started, file, navVars, sync_wait, sync_wait_skip, spu_clut_changed, ui, appVars>>

HoldStill ==
  /\ step = "leave" /\ pos.still /\ ~skip_still
  /\ step' = "idle"
  /\ Announce("nop")
  /\ UNCHANGED <<vmVars, file, pos, navVars, flagVars, spu_clut_changed, ui, told, heard>>

CellLeft ==            \* the last flag is cleared and the call returns
  /\ step = "clear"
  /\ sync_wait_skip' = FALSE
  /\ step' = "idle"
  /\ Announce("nop")
  /\ UNCHANGED <<vmVars, file, pos, navVars, skip_still, sync_wait, spu_clut_changed, ui,
                 told, heard>>

(* The NAV packet that opens the next VOBU of the cell. *)
NextSector == vobu.start + vobu.next
ReadNav ==
  /\ Playing /\ VobuDone /\ vobu.next # EndOfCell
  /\ \E c \in NavAt(file, NextSector) :
       /\ pci'  = [lbn |-> NextSector, menu |-> Disc[c].menu]
       /\ vobu' = [start |-> NextSector, length |-> VobuSize - 1, blockN |-> 0,
                   next |-> NextNav(c, NextSector)]
  /\ vm' = [Now EXCEPT !.blockN = vobu.start - pos.start]
  /\ last_cmd_nav_lbn' = IF last_cmd_nav_lbn = NextSector THEN EndOfCell ELSE last_cmd_nav_lbn
  /\ Returns("nav", NextSector)
  /\ heard' = NextSector
  /\ UNCHANGED <<file, pos, flagVars, spu_clut_changed, step, ui, told>>

NavFails ==
  /\ Playing /\ VobuDone /\ vobu.next # EndOfCell
  /\ ReadFaults \/ NavAt(file, NextSector) = {}
  /\ vm' = Now
  /\ Error
  /\ UNCHANGED <<file, pos, navVars, flagVars, spu_clut_changed, step, ui>>

(* The other blocks of the VOBU; one that cannot be read is passed over. *)
ReadBlock(ok) ==
  /\ Playing /\ ~VobuDone
  /\ vm' = Now
  /\ vobu' = [vobu EXCEPT !.blockN = @ + 1]
  /\ heard' = vobu.start + vobu'.blockN
  /\ IF ok THEN Returns("block", heard') ELSE ReadFaults /\ Announce("err")
  /\ UNCHANGED <<file, pos, pci, last_cmd_nav_lbn, flagVars, spu_clut_changed, step, ui, told>>

GetNextBlock ==
  \/ StartFails \/ Stop
  \/ HopChannel \/ HopFails \/ Highlight \/ Wait
  \/ VtsChange \/ VtsFails \/ CellChange
  \/ ClutChange \/ SpuChange \/ AudioChange \/ StillFrame
  \/ LeaveCell \/ NextCell \/ HoldStill \/ CellLeft
  \/ ReadNav \/ NavFails \/ ReadBlock(TRUE) \/ ReadBlock(FALSE)
-----------------------------------------------------------------------------
(* Calls of the user interface *)

Begins(call) == ui = "idle" /\ call \in Calls
LockFree == step = "idle"
(* The calls are made of a VM that is in a cell.  (The code tests for a     *)
(* current PGC, which a VM that was reset still has: no call is made        *)
(* between dvdnav_reset and the poll or dvdnav_part_play that restarts it.) *)
HasCell == vm.cell # None

(* Bounds: hop_channel, and the jumps between two CELL_CHANGE events. *)
MayHop(n) == vm.hop + n <= MaxHop
MayJump   == (vm.restart - pos.restart) % RestartMod < RestartMod - 2

Unlocked(from, to) == ui = from /\ ui' = to

(* dvdnav_still_skip: one locked write, then three without the lock. *)
StillSkip ==
  /\ Begins("still_skip") /\ (event.kind = "still" \/ "any_time" \in Calls)
  /\ LockFree
  /\ pos' = [pos EXCEPT !.still = FALSE]
  /\ ui' = "skip_still"
  /\ UNCHANGED <<vmVars, file, navVars, flagVars, spu_clut_changed, step, appVars>>

(* dvdnav_wait_skip: the last two of these writes. *)
WaitSkip ==
  /\ Begins("wait_skip") /\ (event.kind = "wait" \/ "any_time" \in Calls)
  /\ sync_wait' = FALSE
  /\ ui' = "sync_wait_skip"
  /\ UNCHANGED <<vmVars, file, pos, navVars, skip_still, sync_wait_skip, spu_clut_changed,
                 step, appVars>>

(* Mutant: skipping a still leaves the flag the end of the cell tests. *)
SkipWritesButStill ==
  /\ \/ Unlocked("skip_still", "sync_wait") /\ UNCHANGED flagVars
     \/ /\ Unlocked("sync_wait", "sync_wait_skip")
        /\ sync_wait' = FALSE /\ UNCHANGED <<skip_still, sync_wait_skip>>
     \/ /\ Unlocked("sync_wait_skip", "idle")
        /\ sync_wait_skip' = TRUE /\ UNCHANGED <<skip_still, sync_wait>>
  /\ UNCHANGED <<vmVars, file, pos, navVars, spu_clut_changed, step, appVars>>

SkipWrites ==
  /\ \/ /\ Unlocked("skip_still", "sync_wait")
        /\ skip_still' = TRUE /\ UNCHANGED <<sync_wait, sync_wait_skip>>
     \/ /\ Unlocked("sync_wait", "sync_wait_skip")
        /\ sync_wait' = FALSE /\ UNCHANGED <<skip_still, sync_wait_skip>>
     \/ /\ Unlocked("sync_wait_skip", "idle")
        /\ sync_wait_skip' = TRUE /\ UNCHANGED <<skip_still, sync_wait>>
  /\ UNCHANGED <<vmVars, file, pos, navVars, spu_clut_changed, step, appVars>>

(* dvdnav_stop *)
StopCall ==
  /\ Begins("stop") /\ LockFree
  /\ stopped' = TRUE
  /\ UNCHANGED <<vm, rsm, started, file, pos, navVars, flagVars, spu_clut_changed, step, ui,
                 appVars>>

(* dvdnav_reset: vm_reset in one section, dvdnav_clear in another. *)
Reset ==
  /\ Begins("reset") /\ LockFree
  /\ vm' = NoVM /\ rsm' = None
  /\ ui' = "clear"
  /\ UNCHANGED <<stopped, started, file, pos, navVars, flagVars, spu_clut_changed, step, appVars>>
Clear ==
  /\ ui = "clear" /\ LockFree
  /\ started' = FALSE /\ file' = None /\ pos' = NoPos
  /\ pci' = NoPci /\ last_cmd_nav_lbn' = EndOfCell
  /\ skip_still' = FALSE /\ sync_wait' = FALSE /\ sync_wait_skip' = FALSE
  /\ spu_clut_changed' = FALSE
  /\ ui' = "idle"
  /\ UNCHANGED <<vm, rsm, stopped, vobu, step, appVars>>

(* dvdnav_part_play, dvdnav_program_play, dvdnav_part_search: the VM is    *)
(* started if need be, and the title is played whatever its PGC's          *)
(* pre-commands want.                                                      *)
PartPlay ==
  /\ Begins("part_play") /\ LockFree /\ MayJump /\ MayHop(1)
  /\ \E c \in Cells : /\ ~IsMenu(c)
                      /\ \E w \in Registers(Play(Now, c)) : vm' = [w EXCEPT !.hop = @ + 1]
  /\ rsm' = (IF started THEN rsm ELSE None)
  /\ stopped' = (started /\ stopped)
  /\ started' = TRUE
  /\ UNCHANGED <<file, pos, navVars, flagVars, spu_clut_changed, step, ui, appVars>>

(* dvdnav_go_up: no hop; it needs a PGC to go up from. *)
GoUp ==
  /\ Begins("go_up") /\ LockFree /\ HasCell /\ MayJump
  /\ \E o \in Commands(vm) : Became(o)
  /\ UNCHANGED <<started, file, pos, navVars, flagVars, spu_clut_changed, step, ui, appVars>>

(* dvdnav_prev_pg_search, dvdnav_top_pg_search, dvdnav_next_pg_search. *)
PgSearch ==
  /\ Begins("search") /\ LockFree /\ HasCell /\ MayJump /\ MayHop(1)
  /\ \E o \in Commands(vm) : Became(Hop(o, 1))
  /\ pos' = [pos EXCEPT !.still = FALSE]
  /\ UNCHANGED <<started, file, navVars, flagVars, spu_clut_changed, step, ui, appVars>>

(* dvdnav_menu_call: a title is left with the block it is at. *)
MenuCall ==
  /\ Begins("menu") /\ LockFree /\ HasCell /\ MayJump /\ MayHop(1) /\ ~stopped
  /\ LET left == IF IsMenu(vm.cell) THEN rsm ELSE [cell |-> vm.cell, blockN |-> vm.blockN]
     IN  \E o \in {Outcome(w, left, FALSE) : w \in UNION {Registers(Play(vm, c)) : c \in Cells}}
                  \cup Resumes(vm) : Became(Hop(o, 1))
  /\ pos' = [pos EXCEPT !.still = FALSE]
  /\ UNCHANGED <<started, file, navVars, flagVars, spu_clut_changed, step, ui, appVars>>

(* dvdnav_sector_search and dvdnav_time_search: no seeking in a still, as  *)
(* seen before the lock is taken; then to a VOBU of the same PGC.          *)
SeekBegins ==
  /\ Begins("seek") /\ ~pos.still
  /\ ui' = "seek"
  /\ UNCHANGED <<vmVars, file, pos, navVars, flagVars, spu_clut_changed, step, appVars>>
Seek ==
  /\ ui = "seek" /\ LockFree
  /\ ui' = "idle"
  /\ \/ /\ HasCell /\ MayJump /\ MayHop(HopSeek)
        /\ \E c \in Cells : \E n \in Navs(c) :
             /\ Disc[c].vts = Disc[vm.cell].vts /\ Disc[c].domain = Disc[vm.cell].domain
             /\ vm' = [Play(vm, c) EXCEPT !.blockN = n - Start(c), !.hop = @ + HopSeek]
     \/ UNCHANGED vm         \* the target is out of range
  /\ UNCHANGED <<rsm, stopped, started, file, pos, navVars, flagVars, spu_clut_changed, step,
                 appVars>>

(* dvdnav_button_activate on the current PCI: tested without the lock,     *)
(* used with it.                                                           *)
Menu == pci.menu # "no" /\ last_cmd_nav_lbn # pci.lbn
PressBegins ==
  /\ Begins("press") /\ Menu
  /\ ui' = "press"
  /\ UNCHANGED <<vmVars, file, pos, navVars, flagVars, spu_clut_changed, step, appVars>>

(* A button whose command jumps, whose command stops or only sets          *)
(* registers; no button in a still, or none at all.                        *)
PressJumps ==
  /\ pci.menu = "buttons" /\ HasCell /\ MayJump /\ MayHop(1)
  /\ \E o \in Jumps(vm) \cup Resumes(vm) : Became(Hop(o, 1))
  /\ pos' = [pos EXCEPT !.still = FALSE]
  /\ last_cmd_nav_lbn' = pci.lbn
  /\ UNCHANGED sync_wait
PressStays ==
  /\ pci.menu = "buttons" /\ HasCell
  /\ \E o \in Exits(vm) \cup {Outcome(w, rsm, stopped) : w \in Registers(vm)} : Became(o)
  /\ UNCHANGED <<pos, last_cmd_nav_lbn, sync_wait>>
PressLeaves ==
  /\ pci.menu # "buttons" /\ HasCell /\ pos.still /\ MayJump
  /\ \E o \in Commands(vm) : Became(o)
  /\ pos' = [pos EXCEPT !.still = FALSE]
  /\ sync_wait' = FALSE
  /\ last_cmd_nav_lbn' = pci.lbn
PressFails ==
  /\ (pci.menu = "buttons" \/ pos.still) => ~(HasCell /\ MayJump /\ MayHop(1))
  /\ UNCHANGED <<vm, rsm, stopped, pos, last_cmd_nav_lbn, sync_wait>>
Press ==
  /\ ui = "press" /\ LockFree
  /\ PressJumps \/ PressStays \/ PressLeaves \/ PressFails
  /\ ui' = "idle"
  /\ UNCHANGED <<started, file, vobu, pci, skip_still, sync_wait_skip, spu_clut_changed, step,
                 appVars>>

(* dvdnav_button_activate_cmd: a command the application brings, or no     *)
(* button at all.  HasCell: with no PGC its jumps are not defined.         *)
ActivateCmd ==
  /\ Begins("activate") /\ LockFree /\ HasCell /\ MayJump /\ MayHop(1)
  /\ \/ \E b \in Buttons :
          LET v == [vm EXCEPT !.button = b] IN
          \E o \in {Hop(j, 1) : j \in Jumps(v) \cup Resumes(v)} \cup Exits(v)
                   \cup {Outcome(w, rsm, stopped) : w \in Registers(v)} : Became(o)
     \/ UNCHANGED <<vm, rsm, stopped>>
  /\ pos' = [pos EXCEPT !.still = FALSE]
  /\ sync_wait' = FALSE
  /\ UNCHANGED <<started, file, navVars, skip_still, sync_wait_skip, spu_clut_changed, step, ui,
                 appVars>>

(* dvdnav_button_select: two writes without the lock. *)
Select ==
  /\ Begins("select") /\ Menu
  /\ \E b \in Buttons : vm' = [vm EXCEPT !.button = b]
  /\ ui' = "select"
  /\ UNCHANGED <<rsm, stopped, started, file, pos, navVars, flagVars, spu_clut_changed, step,
                 appVars>>
ForceHighlight ==
  /\ Unlocked("select", "idle")
  /\ pos' = [pos EXCEPT !.button = -1]
  /\ UNCHANGED <<vmVars, file, navVars, flagVars, spu_clut_changed, step, appVars>>

Finish == SkipWrites \/ Clear \/ Seek \/ Press \/ ForceHighlight
UserCall ==
  \/ StillSkip \/ WaitSkip \/ StopCall \/ Reset \/ PartPlay \/ GoUp \/ PgSearch \/ MenuCall
  \/ SeekBegins \/ PressBegins \/ ActivateCmd \/ Select

Next == GetNextBlock \/ UserCall \/ Finish
Spec == Init /\ [][Next]_vars

(* The application polls, ends the calls it makes, and in the end answers  *)
(* a still or a wait it is told of again and again, as dvdnav_events.h     *)
(* asks it to; the user may do other things in between.                    *)
Fairness == /\ WF_vars(GetNextBlock) /\ WF_vars(Finish)
            /\ SF_vars(event.kind = "still" /\ StillSkip)
            /\ SF_vars(event.kind = "wait" /\ WaitSkip)
FairSpec == Spec /\ Fairness
-----------------------------------------------------------------------------
(* Properties *)

StreamData == {"nav", "block"}
Delivers   == ReadNav \/ ReadBlock(TRUE)

(* What plays, for the protocol: a cell is played anew when its restart    *)
(* count changes.                                                          *)
Playback == IF HasCell
            THEN [file |-> VobFile(vm.vts, Disc[vm.cell].domain),
                  play |-> <<vm.cell, vm.restart>>,
                  spu |-> vm.spu, audio |-> vm.audio, button |-> vm.button]
            ELSE [file |-> None, play |-> None, spu |-> None, audio |-> None, button |-> None]

Protocol == INSTANCE EventProtocol WITH
  Unknown <- None, Data <- StreamData, now <- Playback, known <- told

(* The engine keeps the order of announcements EventProtocol states: its   *)
(* comparison of two positions, some forced with -1, leaves no change      *)
(* unannounced when it hands out stream data.                              *)
AnnouncesFirst == Protocol!Spec

(* The stream data handed out belong to the cell the VM is in and come     *)
(* from its VOB file, whatever calls moved the VM since the last event.    *)
DataOfCell == [][Delivers => /\ event'.sector \in Start(vm'.cell)..Last(vm'.cell)
                             /\ file = VobFile(vm'.vts, Disc[vm'.cell].domain)]_vars

(* A cell is played without a gap: from a NAV packet on, sector by sector, *)
(* and only its end or a call of the application takes the VM out of it.   *)
PlayedInFull ==
  [][/\ Delivers => IF heard = None THEN event'.sector \in Navs(vm'.cell)
                                    ELSE event'.sector = heard + 1
     /\ NextCell => heard = Last(vm.cell)]_vars

(* The block the VM would resume at, now or from a menu, is the start of a *)
(* VOBU of the cell it is for.                                             *)
ResumeInCell ==
  /\ HasCell => Start(vm.cell) + vm.blockN \in Navs(vm.cell)
  /\ rsm # None => ~IsMenu(rsm.cell) /\ Start(rsm.cell) + rsm.blockN \in Navs(rsm.cell)

(* A still frame is reported when the cell that carries it was played to   *)
(* its end: "We have reached a still frame", dvdnav_events.h.  Never in the *)
(* middle of a cell: a still that was not cleared, because dvdnav_part_play *)
(* or dvdnav_go_up left a still menu, is reported before the first block of *)
(* the next cell instead.                                                   *)
StillAtEnd ==
  [][StillFrame => heard = None \/ (Disc[vm'.cell].still /\ heard = Last(vm'.cell))]_vars

(* An application that answers waits and stills is told to wait at the end *)
(* of every cell with a still or a menu, before the next one is announced. *)
WaitAtMenuEnd ==
  [][LeaveCell /\ event.kind \in StreamData /\ (pci.menu # "no" \/ Disc[vm'.cell].still)
       => sync_wait']_vars

(* Playback starts, or goes on after a hop, at the block the VM is at: in  *)
(* a title with angles the VOBU a seek landed on is stepped over though    *)
(* HopChannel goes back to it, because a seek always restarts a cell.  The *)
(* call that restarts the machine after a stop hands out no data from      *)
(* further on than the first cell's start, unless the position before the  *)
(* stop equals that of the restarted machine, in the same cell played as   *)
(* often: then playback goes on in the middle of the cell, unannounced.    *)
StartsWhereVmIs ==
  [][/\ ReadNav /\ heard = None => event'.sector = Start(Now.cell) + Now.blockN
     /\ ~started /\ started' /\ Delivers =>
          \/ event'.sector = Start(FirstCell)
          \/ pos.start = Start(FirstCell) /\ pos.restart = vm'.restart]_vars

(* Polled, and answered, the engine goes on delivering cells until the     *)
(* disc stops: no still, wait, hop or announcement holds it up for ever,   *)
(* unless the user presses and selects buttons for ever.                   *)
KeepsPlaying == []<>(event.kind \in {"nav", "stop"} \/ ui \in {"press", "select"})
=============================================================================
