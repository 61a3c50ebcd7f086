--------------------------- MODULE PlayerAnnounces ---------------------------
(* The event engine announces what it delivers: for every disc, either if   *)
(* the machine is never stopped, or if no two cells lie at the same place.  *)
EXTENDS PlayerProofs

(* The application does not stop the handle and the disc does not exit.     *)
NeverStops == Calls \cap {"stop", "exit"} = {}

(* Domain, VTS, number and first sector tell two cells apart.               *)
OwnPlaces ==
  \A c, d \in Cells :
    /\ Disc[c].domain = Disc[d].domain /\ Disc[c].cellN = Disc[d].cellN /\ Start(c) = Start(d)
    /\ Disc[c].domain # "vmgm" => Disc[c].vts = Disc[d].vts
    => c = d

-----------------------------------------------------------------------------
(* The invariants *)

(* What the engine noted of its position is what it told.                   *)
Told ==
  /\ file # None => file = VobFile(pos.vts, pos.domain) /\ told.file = file
  /\ file # None /\ ~spu_clut_changed => told.clut = told.play
  /\ file # None /\ pos.spu # -1 => told.spu = pos.spu
  /\ file # None /\ pos.audio # -1 => told.audio = pos.audio
  /\ pos.button \notin {0, -1} => told.button = pos.button

(* The cell told last is the one at the place noted.                        *)
KnownByPlace ==
  file # None /\ pos.cell # -1 =>
    \E c \in Cells : /\ told.play = <<c, pos.restart>>
                     /\ Disc[c].domain = pos.domain /\ Disc[c].cellN = pos.cell
                     /\ Start(c) = pos.start
                     /\ pos.domain # "vmgm" => Disc[c].vts = pos.vts

(* The machine is in the cell told last as long as its restart count is the *)
(* one noted, but for a resume, which leads from a menu to a title.         *)
KnownByCount ==
  /\ ~stopped
  /\ ~started => file = None
  /\ step = "leave" => vm.restart = pos.restart
  /\ ui # "clear" /\ file # None /\ pos.cell # -1 =>
       \E c \in Cells : /\ told.play = <<c, pos.restart>> /\ Disc[c].domain = pos.domain
                        /\ vm.restart = pos.restart =>
                             vm.cell = c \/ (IsMenu(c) /\ ~IsMenu(vm.cell))

(* Either way: when the engine finds nothing moved, what plays was told.    *)
Knows ==
  Polling /\ (started => ~stopped) /\ ~Moved /\ ~NewCell => told.play = <<Now.cell, Now.restart>>

LEMMA ByPlace ==
  ASSUME Typed, OwnPlaces, KnownByPlace
  PROVE  Knows
<1> SUFFICES ASSUME Polling, ~Moved, ~NewCell PROVE told.play = <<Now.cell, Now.restart>>
  BY DEF Knows
<1>1. Playable(Now) BY NowPlayable
<1>2. file # None /\ pos.cell = Disc[Now.cell].cellN /\ pos.start = Start(Now.cell)
      /\ pos.restart = Now.restart /\ pos.vts = Now.vts /\ pos.domain = Disc[Now.cell].domain
  BY DEF Moved, NewCell
<1>3. pos.cell # -1 BY <1>1, <1>2, DiscFields DEF Playable
<1>4. PICK c \in Cells : /\ told.play = <<c, pos.restart>>
                         /\ Disc[c].domain = pos.domain /\ Disc[c].cellN = pos.cell
                         /\ Start(c) = pos.start
                         /\ pos.domain # "vmgm" => Disc[c].vts = pos.vts
  BY <1>2, <1>3 DEF KnownByPlace
<1>5. c = Now.cell BY <1>1, <1>2, <1>4 DEF OwnPlaces, Playable
<1> QED BY <1>2, <1>4, <1>5

LEMMA ByCount ==
  ASSUME Typed, KnownByCount
  PROVE  Knows
<1> SUFFICES ASSUME Polling, ~Moved, ~NewCell PROVE told.play = <<Now.cell, Now.restart>>
  BY DEF Knows
<1>1. Playable(Now) BY NowPlayable
<1>2. file # None /\ pos.cell = Disc[Now.cell].cellN
      /\ pos.restart = Now.restart /\ pos.domain = Disc[Now.cell].domain
  BY DEF Moved, NewCell
<1>3. pos.cell # -1 BY <1>1, <1>2, DiscFields DEF Playable
<1>4. Now = vm /\ ui # "clear" BY <1>2 DEF KnownByCount, Now, Polling
<1>5. PICK c \in Cells : /\ told.play = <<c, pos.restart>> /\ Disc[c].domain = pos.domain
                         /\ vm.restart = pos.restart =>
                              vm.cell = c \/ (IsMenu(c) /\ ~IsMenu(vm.cell))
  BY <1>2, <1>3, <1>4 DEF KnownByCount
<1>6. c = vm.cell BY <1>2, <1>4, <1>5 DEF IsMenu
<1> QED BY <1>2, <1>4, <1>5, <1>6

-----------------------------------------------------------------------------
(* What steps leave alone *)

(* Steps that announce nothing keep what was told and the place noted.      *)
Silent ==
  /\ UNCHANGED <<told, file, spu_clut_changed>>
  /\ pos'.vts = pos.vts /\ pos'.domain = pos.domain /\ pos'.cell = pos.cell
  /\ pos'.restart = pos.restart /\ pos'.start = pos.start
  /\ pos'.spu = pos.spu /\ pos'.audio = pos.audio /\ pos'.button \in {pos.button, -1}
Announces == \/ Highlight \/ VtsChange \/ VtsFails \/ CellChange
             \/ ClutChange \/ SpuChange \/ AudioChange

LEMMA Noted ==
  ASSUME NEW p \in Positions, NEW q,
         \/ q = p
         \/ \E b \in BOOLEAN : q = [p EXCEPT !.still = b]
         \/ \E n \in Nat : q = [p EXCEPT !.hop = n]
         \/ q = [p EXCEPT !.button = -1]
  PROVE  /\ q.vts = p.vts /\ q.domain = p.domain /\ q.cell = p.cell
         /\ q.restart = p.restart /\ q.start = p.start
         /\ q.spu = p.spu /\ q.audio = p.audio /\ q.button \in {p.button, -1}
BY DEF Positions

LEMMA EngineSilent ==
  ASSUME Typed, GetNextBlock, ~Announces
  PROVE  Silent
<1> USE DEF Silent, Error
<1>a. pos \in Positions BY DEF Typed, TypeOK
<1>b. UNCHANGED pos => Silent \/ ~UNCHANGED <<told, file, spu_clut_changed>>
  BY <1>a, Noted
<1>1. CASE StartFails \/ Stop BY <1>1, <1>b DEF StartFails, Stop
<1>2. CASE HopChannel
  <2>1. Now.hop \in Nat
    BY <1>2, NowPlayable, FieldsOfVm DEF HopChannel, Alive, Playable
  <2>2. \E n \in Nat : pos' = [pos EXCEPT !.hop = n] BY <1>2, <2>1 DEF HopChannel
  <2> QED BY <1>2, <1>a, <2>2, Noted DEF HopChannel
<1>3. CASE HopFails \/ Wait BY <1>3, <1>b DEF HopFails, Wait
<1>4. CASE StillFrame \/ HoldStill \/ CellLeft
  BY <1>4, <1>b DEF StillFrame, HoldStill, CellLeft
<1>5. CASE LeaveCell
  <2>1. Disc[Now.cell].still \in BOOLEAN
    BY <1>5, NowPlayable, DiscFields DEF LeaveCell, EndOfPlay, Playing, Tuned, Placed, Calm, Alive, Playable
  <2>2. \E b \in BOOLEAN : pos' = [pos EXCEPT !.still = b] BY <1>5, <2>1 DEF LeaveCell
  <2> QED BY <1>5, <1>a, <2>2, Noted DEF LeaveCell, appVars
<1>6. CASE NextCell
  <2>1. \E b \in BOOLEAN : pos' = [pos EXCEPT !.still = b] BY <1>6 DEF NextCell
  <2> QED BY <1>6, <1>a, <2>1, Noted DEF NextCell, appVars
<1>7. CASE ReadNav \/ NavFails BY <1>7, <1>b DEF ReadNav, NavFails
<1>8. CASE ReadBlock(TRUE) \/ ReadBlock(FALSE) BY <1>8, <1>b DEF ReadBlock
<1> QED BY <1>1, <1>2, <1>3, <1>4, <1>5, <1>6, <1>7, <1>8 DEF GetNextBlock, Announces

LEMMA UserSilent ==
  ASSUME Typed, UserCall \/ Finish, ~Clear
  PROVE  Silent
<1>a. pos \in Positions BY DEF Typed, TypeOK
<1>1. /\ UNCHANGED <<told, file, spu_clut_changed>>
      /\ \/ UNCHANGED pos
         \/ pos' = [pos EXCEPT !.still = FALSE]
         \/ pos' = [pos EXCEPT !.button = -1]
  BY DEF UserCall, Finish, StillSkip, WaitSkip, StopCall, Reset, PartPlay, GoUp, PgSearch, MenuCall,
     SeekBegins, PressBegins, ActivateCmd, Select, SkipWrites, Seek, Press, PressJumps, PressStays,
     PressLeaves, PressFails, ForceHighlight, appVars
<1> QED BY <1>a, <1>1, Noted DEF Silent

-----------------------------------------------------------------------------
(* The invariants are kept *)

LEMMA SilentTold ==
  ASSUME Typed, Told, Silent
  PROVE  Told'
BY DEF Told, Silent

LEMMA ToldKept ==
  ASSUME Typed, Told, Knows, [Next]_vars
  PROVE  Told'
<1>a. pos \in Positions /\ told \in ToldType /\ spu_clut_changed \in BOOLEAN
  BY DEF Typed, TypeOK
<1>1. CASE Highlight
  BY <1>1, <1>a DEF Highlight, Told, Positions, ToldType
<1>2. CASE VtsChange
  BY <1>2, <1>a DEF VtsChange, Told, Positions, ToldType
<1>3. CASE VtsFails
  BY <1>3, <1>a DEF VtsFails, Error, Told, Positions
<1>4. CASE CellChange
  BY <1>4, <1>a DEF CellChange, Told, Positions, ToldType
<1>5. CASE ClutChange
  <2>1. told.play = <<Now.cell, Now.restart>>
    BY <1>5 DEF ClutChange, Placed, Calm, Alive, Knows
  <2> QED BY <1>5, <1>a, <2>1 DEF ClutChange, Told, ToldType
<1>6. CASE SpuChange
  BY <1>6, <1>a DEF SpuChange, Told, Positions, ToldType
<1>7. CASE AudioChange
  BY <1>7, <1>a DEF AudioChange, Told, Positions, ToldType
<1>8. CASE Clear
  BY <1>8 DEF Clear, Told, NoPos
<1>9. CASE UNCHANGED vars
  BY <1>9 DEF vars, appVars, Told
<1>10. CASE Silent BY <1>10, SilentTold
<1> QED
  BY <1>1, <1>2, <1>3, <1>4, <1>5, <1>6, <1>7, <1>8, <1>9, <1>10, EngineSilent, UserSilent
  DEF Next, Announces

LEMMA PlaceKept ==
  ASSUME Typed, KnownByPlace, [Next]_vars
  PROVE  KnownByPlace'
<1>a. pos \in Positions /\ told \in ToldType
  BY DEF Typed, TypeOK
<1>1. CASE Highlight
  BY <1>1, <1>a DEF Highlight, KnownByPlace, Positions, ToldType
<1>2. CASE VtsChange
  BY <1>2, <1>a DEF VtsChange, KnownByPlace, Positions
<1>3. CASE VtsFails
  BY <1>3 DEF VtsFails, KnownByPlace
<1>4. CASE CellChange
  <2>1. Playable(Now)
    BY <1>4, NowPlayable DEF CellChange, Calm, Alive
  <2>2. /\ told'.play = <<Now.cell, Now.restart>> /\ pos'.restart = Now.restart
        /\ pos'.cell = Disc[Now.cell].cellN /\ pos'.start = Start(Now.cell)
        /\ pos'.domain = pos.domain /\ pos'.vts = pos.vts
    BY <1>4, <1>a DEF CellChange, Positions, ToldType
  <2>3. pos.domain = Disc[Now.cell].domain /\ pos.vts = Now.vts
    BY <1>4 DEF CellChange, Moved
  <2> QED BY <2>1, <2>2, <2>3 DEF KnownByPlace, Playable
<1>5. CASE ClutChange
  BY <1>5, <1>a DEF ClutChange, KnownByPlace, ToldType
<1>6. CASE SpuChange
  BY <1>6, <1>a DEF SpuChange, KnownByPlace, Positions, ToldType
<1>7. CASE AudioChange
  BY <1>7, <1>a DEF AudioChange, KnownByPlace, Positions, ToldType
<1>8. CASE Clear
  BY <1>8 DEF Clear, KnownByPlace
<1>9. CASE UNCHANGED vars
  BY <1>9 DEF vars, appVars, KnownByPlace
<1>10. CASE Silent
  BY <1>10 DEF Silent, KnownByPlace
<1> QED
  BY <1>1, <1>2, <1>3, <1>4, <1>5, <1>6, <1>7, <1>8, <1>9, <1>10, EngineSilent, UserSilent
  DEF Next, Announces

(* A cell played anew has another restart count than the one told last.     *)
Anew(v, w) == Same(v, w) \/ w.restart = (v.restart + 1) % RestartMod

(* What a step that tells nothing of a cell must do to keep the count.      *)
LEMMA CountFrame ==
  ASSUME Typed, KnownByCount, vm.restart \in 0..RestartMod - 1,
         \/ vm'.cell = vm.cell /\ vm'.restart = vm.restart
         \/ Anew(vm, vm') /\ (vm.restart = pos.restart \/ MayJump),
         ui # "clear",
         ~stopped', ~started' => file' = None,
         step' = "leave" => vm'.restart = pos'.restart,
         file' = file, told'.play = told.play,
         pos'.domain = pos.domain, pos'.cell = pos.cell, pos'.restart = pos.restart
  PROVE  KnownByCount'
<1> SUFFICES ASSUME ui' # "clear", file # None, pos.cell # -1
             PROVE  \E c \in Cells : /\ told.play = <<c, pos.restart>> /\ Disc[c].domain = pos.domain
                                     /\ vm'.restart = pos.restart =>
                                          vm'.cell = c \/ (IsMenu(c) /\ ~IsMenu(vm'.cell))
  BY DEF KnownByCount
<1>1. PICK c \in Cells : /\ told.play = <<c, pos.restart>> /\ Disc[c].domain = pos.domain
                         /\ vm.restart = pos.restart =>
                              vm.cell = c \/ (IsMenu(c) /\ ~IsMenu(vm.cell))
  BY DEF KnownByCount
<1>2. pos.restart \in 0..RestartMod - 1 BY DEF Typed, TypeOK, Positions
<1>3. CASE vm'.cell = vm.cell /\ vm'.restart = vm.restart
  BY <1>1, <1>3
<1>4. CASE Same(vm, vm')
  BY <1>1, <1>4 DEF Same
<1>5. CASE vm'.restart = (vm.restart + 1) % RestartMod /\ (vm.restart = pos.restart \/ MayJump)
  <2>1. vm'.restart # pos.restart BY <1>2, <1>5, CountDiffers DEF MayJump
  <2> QED BY <1>1, <2>1
<1> QED BY <1>3, <1>4, <1>5 DEF Anew

(* A command that does not stop the machine plays a cell anew or resumes.   *)
LEMMA CommandAnew ==
  ASSUME Typed, NeverStops, vm.cell # None, NEW o \in Commands(vm), ~stopped,
         Became(o) \/ \E n \in Nat : Became(Hop(o, n))
  PROVE  Anew(vm, vm') /\ ~stopped'
<1>1. Playable(vm) /\ Kept(rsm) BY DEF Typed, Running
<1>2. Same(vm, o.vm) \/ o.vm.restart = (vm.restart + 1) % RestartMod
  BY <1>1, CommandsType DEF Typed, TypeOK
<1>3. ~o.stopped BY <1>1, CommandsType DEF Typed, TypeOK, NeverStops
<1>4. SameCell(o.vm, vm') BY <1>1, AfterCommand
<1>5. stopped' = o.stopped
  <2>1. CASE Became(o) BY <2>1 DEF Became
  <2>2. CASE \E n \in Nat : Became(Hop(o, n))
    <3>1. PICK n \in Nat : Became(Hop(o, n)) BY <2>2
    <3>2. Hop(o, n).stopped = o.stopped
      <4>1. o = Outcome(o.vm, o.rsm, o.stopped) BY OutcomeForm
      <4>2. o.vm \in VmStates BY <1>1, CommandsType DEF Typed, TypeOK, Playable
      <4>3. Hop(o, n) = Outcome([o.vm EXCEPT !.hop = @ + n], o.rsm, o.stopped)
        <5>1. Hop(Outcome(o.vm, o.rsm, o.stopped), n)
                = Outcome([o.vm EXCEPT !.hop = @ + n], o.rsm, o.stopped)
          BY <4>2, HopType
        <5> QED BY <4>1, <5>1
      <4> QED BY <4>3 DEF Outcome
    <3> QED BY <3>1, <3>2 DEF Became
  <2> QED BY <2>1, <2>2
<1> QED BY <1>2, <1>3, <1>4, <1>5 DEF SameCell, Same, Anew

LEMMA EngineCount ==
  ASSUME Typed, KnownByCount, NeverStops, GetNextBlock
  PROVE  KnownByCount'
<1>a. pos \in Positions /\ told \in ToldType /\ vm \in VmStates /\ (vm.cell # None => Playable(vm))
  BY DEF Typed, TypeOK, Running
<1>b. vm.restart \in 0..RestartMod - 1 BY <1>a, FieldsOfVm
<1>c. ~StartFails /\ ~Stop BY DEF StartFails, Stop, NeverStops, KnownByCount
(* The steps of a call that begins at the machine's position. *)
<1>d. ASSUME Alive, vm'.cell = Now.cell, vm'.restart = Now.restart, ui' = ui,
             step' = "leave" => pos'.restart = Now.restart, file' = file,
             told'.play = told.play, pos'.domain = pos.domain, pos'.cell = pos.cell,
             pos'.restart = pos.restart
      PROVE  KnownByCount'
  <2>1. ui # "clear" /\ started' /\ ~stopped' BY <1>d DEF Alive, Polling
  <2>2. CASE started
    <3>1. vm'.cell = vm.cell /\ vm'.restart = vm.restart BY <1>d, <2>2 DEF Now
    <3>2. step' = "leave" => vm'.restart = pos'.restart BY <1>d
    <3> QED BY <1>b, <1>d, <2>1, <3>1, <3>2, CountFrame
  <2>3. CASE ~started
    BY <1>d, <2>1, <2>3 DEF KnownByCount
  <2> QED BY <2>2, <2>3
<1>e. ASSUME Silent, Alive, vm'.cell = Now.cell, vm'.restart = Now.restart, ui' = ui,
             step' = "leave" => pos.restart = Now.restart
      PROVE  KnownByCount'
  BY <1>d, <1>e DEF Silent
<1>f. Alive /\ step' = step => step' # "leave" BY DEF Alive, Polling
<1>1. CASE HopChannel
  <2>1. Silent BY <1>1, EngineSilent DEF Announces, HopChannel, Highlight, VtsChange, VtsFails,
          CellChange, ClutChange, SpuChange, AudioChange, Placed, Calm
  <2>2. Now \in VmStates BY <1>1, NowPlayable DEF HopChannel, Alive, Playable
  <2>3. vm'.cell = Now.cell /\ vm'.restart = Now.restart
    BY <1>1, <2>2 DEF HopChannel, VmStates
  <2> QED BY <1>1, <1>e, <1>f, <2>1, <2>3 DEF HopChannel
<1>2. CASE HopFails
  BY <1>2, <1>d, <1>f DEF HopFails, Error
<1>3. CASE Wait
  BY <1>3, <1>d, <1>f DEF Wait
<1>4. CASE Highlight
  BY <1>4, <1>a, <1>d, <1>f DEF Highlight, Positions, ToldType
<1>5. CASE VtsChange
  <2>1. pos'.cell = -1 /\ started' /\ ~stopped' /\ step' # "leave"
    BY <1>5, <1>a, <1>f DEF VtsChange, Calm, Alive, Positions
  <2> QED BY <2>1 DEF KnownByCount
<1>6. CASE VtsFails
  <2>1. file' = None /\ started' /\ ~stopped' /\ step' # "leave"
    BY <1>6, <1>f DEF VtsFails, Calm, Alive
  <2> QED BY <2>1 DEF KnownByCount
<1>7. CASE CellChange
  <2>1. started' /\ ~stopped' /\ step' # "leave"
    BY <1>7, <1>f DEF CellChange, Calm, Alive
  <2>2. Playable(Now) BY <1>7, NowPlayable DEF CellChange, Calm, Alive
  <2>3. /\ told'.play = <<Now.cell, Now.restart>> /\ pos'.restart = Now.restart
        /\ pos'.domain = Disc[Now.cell].domain /\ vm' = Now
    BY <1>7, <1>a DEF CellChange, Moved, Positions, ToldType
  <2> QED BY <2>1, <2>2, <2>3 DEF KnownByCount, Playable
<1>8. CASE ClutChange
  BY <1>8, <1>a, <1>d, <1>f DEF ClutChange, Placed, Calm, ToldType
<1>9. CASE SpuChange
  BY <1>9, <1>a, <1>d, <1>f DEF SpuChange, Placed, Calm, Positions, ToldType
<1>10. CASE AudioChange
  BY <1>10, <1>a, <1>d, <1>f DEF AudioChange, Placed, Calm, Positions, ToldType
<1>11. CASE StillFrame
  BY <1>11, <1>d, <1>f DEF StillFrame, Tuned, Placed, Calm
<1>12. CASE LeaveCell
  <2>1. Alive /\ vm' = Now /\ ui' = ui /\ Now.restart = pos.restart
    BY <1>12 DEF LeaveCell, EndOfPlay, Playing, Tuned, Placed, Calm, NewCell
  <2>2. /\ file' = file /\ told'.play = told.play /\ pos'.domain = pos.domain
        /\ pos'.cell = pos.cell /\ pos'.restart = pos.restart
    BY <1>12, <1>a DEF LeaveCell, Positions, appVars
  <2> QED BY <1>d, <2>1, <2>2
<1>13. CASE NextCell
  <2>1. started /\ ui # "clear" /\ vm.cell # None /\ ~stopped /\ vm.restart = pos.restart
    BY <1>13 DEF NextCell, Typed, Running, KnownByCount
  <2>2. PICK o \in Commands(vm) : Became(o) BY <1>13 DEF NextCell
  <2>3. Anew(vm, vm') /\ ~stopped' BY <2>1, <2>2, CommandAnew
  <2>4. /\ file' = file /\ told'.play = told.play /\ pos'.domain = pos.domain /\ started' = started
        /\ pos'.cell = pos.cell /\ pos'.restart = pos.restart /\ step' # "leave"
    BY <1>13, <1>a DEF NextCell, Positions, appVars
  <2> QED BY <1>b, <2>1, <2>3, <2>4, CountFrame
<1>14. CASE HoldStill
  <2>1. UNCHANGED <<vm, stopped, started, file, pos, told, ui>> /\ step' # "leave"
    BY <1>14 DEF HoldStill, vmVars
  <2> QED BY <2>1 DEF KnownByCount
<1>15. CASE CellLeft
  <2>1. UNCHANGED <<vm, stopped, started, file, pos, told, ui>> /\ step' # "leave"
    BY <1>15 DEF CellLeft, vmVars
  <2> QED BY <2>1 DEF KnownByCount
<1>16. CASE ReadNav
  <2>1. Alive BY <1>16 DEF ReadNav, Playing, Tuned, Placed, Calm
  <2>2. Now \in VmStates BY <2>1, NowPlayable DEF Alive, Playable
  <2>3. vm'.cell = Now.cell /\ vm'.restart = Now.restart BY <1>16, <2>2 DEF ReadNav, VmStates
  <2> QED BY <1>16, <1>d, <1>f, <2>1, <2>3 DEF ReadNav
<1>17. CASE NavFails
  BY <1>17, <1>d, <1>f DEF NavFails, Error, Playing, Tuned, Placed, Calm
<1>18. CASE ReadBlock(TRUE) \/ ReadBlock(FALSE)
  BY <1>18, <1>d, <1>f DEF ReadBlock, Playing, Tuned, Placed, Calm
<1> QED
  BY <1>c, <1>1, <1>2, <1>3, <1>4, <1>5, <1>6, <1>7, <1>8, <1>9, <1>10, <1>11, <1>12, <1>13, <1>14,
     <1>15, <1>16, <1>17, <1>18 DEF GetNextBlock

(* Playing a cell with its channel hopped or its registers changed. *)
LEMMA PlayAnew ==
  ASSUME NEW v \in VmStates, NEW c \in Cells, NEW w \in Registers(Play(v, c)), NEW n \in Nat
  PROVE  /\ w.restart = (v.restart + 1) % RestartMod
         /\ [w EXCEPT !.hop = @ + n].restart = (v.restart + 1) % RestartMod
<1>1. Play(v, c) \in VmStates /\ Play(v, c).restart = (v.restart + 1) % RestartMod
  BY PlayType DEF Playable
<1>2. w \in VmStates /\ w.restart = Play(v, c).restart
  BY <1>1, RegistersType DEF SameCell
<1> QED BY <1>1, <1>2, HopType DEF SameCell

(* A call leaves the machine where it is, or plays a cell anew, or resumes. *)
UserMove ==
  /\ ~stopped' /\ (started => started') /\ Silent /\ UNCHANGED step /\ ui # "clear"
  /\ \/ ~started
     \/ vm'.cell = vm.cell /\ vm'.restart = vm.restart
     \/ Anew(vm, vm') /\ MayJump /\ step = "idle"

LEMMA UserMoves ==
  ASSUME Typed, ~stopped, NeverStops, UserCall \/ Finish, ~Reset, ~Clear
  PROVE  UserMove
<1>a. pos \in Positions /\ vm \in VmStates /\ (vm.cell # None => Playable(vm)) /\ ~stopped
  BY DEF Typed, TypeOK, Running
(* Calls that leave the machine where it is, and those that move it. *)
<1>c. ASSUME vm'.cell = vm.cell, vm'.restart = vm.restart, ~stopped', started' = started,
             UNCHANGED <<file, told, step>>, Silent, ui # "clear"
      PROVE  UserMove
  BY <1>c DEF UserMove
<1>d. ASSUME Anew(vm, vm'), MayJump, ~stopped', started' = started,
             UNCHANGED <<file, told, step>>, Silent, ui # "clear", step = "idle"
      PROVE  UserMove
  BY <1>d DEF UserMove
<1>1. CASE StillSkip \/ WaitSkip \/ SeekBegins \/ PressBegins
  <2>1. ui # "clear" /\ UNCHANGED <<vm, stopped, started, file, told, step>>
    BY <1>1 DEF StillSkip, WaitSkip, SeekBegins, PressBegins, Begins, vmVars, appVars
  <2>2. Silent BY <1>1, <2>1, UserSilent DEF UserCall, Clear
  <2> QED BY <1>a, <1>c, <2>1, <2>2
<1>2. CASE SkipWrites \/ ForceHighlight
  <2>1. ui # "clear" /\ UNCHANGED <<vm, stopped, started, file, told, step>>
    BY <1>2 DEF SkipWrites, ForceHighlight, Unlocked, vmVars, appVars
  <2>2. Silent BY <1>2, <2>1, UserSilent DEF Finish, Clear
  <2> QED BY <1>a, <1>c, <2>1, <2>2
<1>3. ~StopCall BY DEF StopCall, Begins, NeverStops
<1>4. CASE PartPlay
  <2>1. /\ started' /\ ~stopped' /\ step = "idle" /\ UNCHANGED step /\ ui # "clear" /\ MayJump
        /\ Silent
    BY <1>4, <1>a, UserSilent DEF UserCall, PartPlay, LockFree, Begins, appVars
  <2>2. CASE ~started
    BY <2>1, <2>2 DEF UserMove
  <2>3. CASE started
    <3>1. PICK c \in Cells : \E w \in Registers(Play(vm, c)) : vm' = [w EXCEPT !.hop = @ + 1]
      BY <1>4, <2>3 DEF PartPlay, Now
    <3>2. PICK w \in Registers(Play(vm, c)) : vm' = [w EXCEPT !.hop = @ + 1]
      BY <3>1
    <3>3. vm'.restart = (vm.restart + 1) % RestartMod
      BY <1>a, <3>2, PlayAnew, 1 \in Nat
    <3>4. Anew(vm, vm') BY <3>3 DEF Anew
    <3> QED BY <2>1, <3>4 DEF UserMove
  <2> QED BY <2>2, <2>3
<1>5. CASE GoUp
  <2>1. PICK o \in Commands(vm) : Became(o) BY <1>5 DEF GoUp
  <2>2. Anew(vm, vm') /\ ~stopped' BY <1>5, <1>a, <2>1, CommandAnew DEF GoUp, HasCell
  <2> QED BY <1>5, <1>d, <2>2, UserSilent DEF UserCall, GoUp, LockFree, Begins, Clear, appVars
<1>6. CASE PgSearch
  <2>1. PICK o \in Commands(vm) : Became(Hop(o, 1)) BY <1>6 DEF PgSearch
  <2>2. Anew(vm, vm') /\ ~stopped' BY <1>6, <1>a, <2>1, 1 \in Nat, CommandAnew DEF PgSearch, HasCell
  <2> QED BY <1>6, <1>d, <2>2, UserSilent DEF UserCall, PgSearch, LockFree, Begins, Clear, appVars
<1>7. CASE MenuCall
  <2> DEFINE left == IF IsMenu(vm.cell) THEN rsm ELSE [cell |-> vm.cell, blockN |-> vm.blockN]
  <2>1. PICK o \in {Outcome(w, left, FALSE) : w \in UNION {Registers(Play(vm, c)) : c \in Cells}}
                   \cup Resumes(vm) : Became(Hop(o, 1))
    BY <1>7 DEF MenuCall
  <2> HIDE DEF left
  <2>2. Anew(vm, vm') /\ ~stopped'
    <3>1. CASE o \in Resumes(vm)
      BY <1>7, <1>a, <2>1, <3>1, 1 \in Nat, CommandAnew DEF Commands, MenuCall, HasCell
    <3>2. CASE o \notin Resumes(vm)
      <4>1. PICK w \in UNION {Registers(Play(vm, c)) : c \in Cells} : o = Outcome(w, left, FALSE)
        BY <2>1, <3>2
      <4>2. PICK c \in Cells : w \in Registers(Play(vm, c)) BY <4>1
      <4>3. w \in VmStates BY <1>a, <4>2, PlayType, RegistersType DEF Playable
      <4>4. Hop(o, 1) = Outcome([w EXCEPT !.hop = @ + 1], left, FALSE)
        <5>1. \A r, s : Hop(Outcome(w, r, s), 1) = Outcome([w EXCEPT !.hop = @ + 1], r, s)
          BY <4>3, HoppedOnce
        <5> QED BY <4>1, <5>1, Zenon
      <4>5. vm' = [w EXCEPT !.hop = @ + 1] /\ stopped' = FALSE
        BY <2>1, <4>4 DEF Became, Outcome
      <4>6. vm'.restart = (vm.restart + 1) % RestartMod
        BY <1>a, <4>2, <4>5, PlayAnew, 1 \in Nat
      <4> QED BY <4>5, <4>6 DEF Anew
    <3> QED BY <3>1, <3>2
  <2> QED BY <1>7, <1>d, <2>2, UserSilent DEF UserCall, MenuCall, LockFree, Begins, Clear, appVars
<1>8. CASE ActivateCmd
  <2>1. CASE UNCHANGED <<vm, rsm, stopped>>
    BY <1>8, <1>a, <1>c, <2>1, UserSilent DEF UserCall, ActivateCmd, Begins, Clear, appVars
  <2>2. CASE ~UNCHANGED <<vm, rsm, stopped>>
    <3>1. PICK b \in Buttons :
            LET v == [vm EXCEPT !.button = b] IN
            \E o \in {Hop(j, 1) : j \in Jumps(v) \cup Resumes(v)} \cup Exits(v)
                     \cup {Outcome(w, rsm, stopped) : w \in Registers(v)} : Became(o)
      BY <1>8, <2>2 DEF ActivateCmd
    <3> DEFINE v == [vm EXCEPT !.button = b]
    <3>2. Playable(v) /\ v \in VmStates /\ SameCell(vm, v)
      BY <1>8, <1>a, FieldsType DEF ActivateCmd, HasCell
    <3>3. PICK o \in {Hop(j, 1) : j \in Jumps(v) \cup Resumes(v)} \cup Exits(v)
                     \cup {Outcome(w, rsm, stopped) : w \in Registers(v)} : Became(o)
      BY <3>1
    <3> HIDE DEF v
    <3>4. Anew(vm, vm') /\ ~stopped'
      <4>1. CASE o \in {Hop(j, 1) : j \in Jumps(v) \cup Resumes(v)}
        <5>1. PICK j \in Jumps(v) \cup Resumes(v) : o = Hop(j, 1) BY <4>1
        <5>2. j \in Commands(v) /\ Kept(rsm) /\ stopped \in BOOLEAN
          BY <5>1 DEF Commands, Typed, TypeOK, Running
        <5>3. Same(v, j.vm) \/ j.vm.restart = (v.restart + 1) % RestartMod
          BY <3>2, <5>2, CommandsType
        <5>4. SameCell(j.vm, vm') BY <3>2, <3>3, <5>1, <5>2, 1 \in Nat, AfterCommand
        <5>5. j = Outcome(j.vm, j.rsm, j.stopped) /\ j.stopped = stopped /\ j.vm \in VmStates
          BY <3>2, <5>2, OutcomeForm, CommandsType DEF NeverStops, Playable
        <5>6. stopped' = stopped
          <6>1. Hop(j, 1) = Outcome([j.vm EXCEPT !.hop = @ + 1], j.rsm, j.stopped)
            <7>1. \A r, s : Hop(Outcome(j.vm, r, s), 1) = Outcome([j.vm EXCEPT !.hop = @ + 1], r, s)
              BY <5>5, HoppedOnce
            <7> QED BY <5>5, <7>1, Zenon
          <6> QED BY <3>3, <5>1, <5>5, <6>1 DEF Became, Outcome
        <5> QED BY <1>a, <3>2, <5>3, <5>4, <5>6 DEF SameCell, Same, Anew
      <4>2. ~(o \in Exits(v)) BY DEF Exits, NeverStops
      <4>3. CASE o \in {Outcome(w, rsm, stopped) : w \in Registers(v)}
        <5>1. PICK w \in Registers(v) : o = Outcome(w, rsm, stopped) BY <4>3
        <5>2. SameCell(v, w) BY <3>2, <5>1, RegistersType
        <5>3. vm' = w /\ stopped' = stopped BY <3>3, <5>1 DEF Became, Outcome
        <5> QED BY <1>a, <3>2, <5>2, <5>3 DEF SameCell, Same, Anew
      <4> QED BY <3>3, <4>1, <4>2, <4>3
    <3> QED BY <1>8, <1>d, <3>4, UserSilent DEF UserCall, ActivateCmd, LockFree, Begins, Clear, appVars
  <2> QED BY <2>1, <2>2
<1>9. CASE Select
  <2>1. vm'.cell = vm.cell /\ vm'.restart = vm.restart
    BY <1>9, <1>a, FieldsType DEF Select, SameCell
  <2> QED BY <1>9, <1>a, <1>c, <2>1, UserSilent DEF UserCall, Select, Begins, Clear, appVars
<1>10. CASE Seek
  <2>1. CASE UNCHANGED vm
    BY <1>10, <1>a, <1>c, <2>1, UserSilent DEF Finish, Seek, Clear, appVars
  <2>2. CASE ~UNCHANGED vm
    <3>1. PICK c \in Cells : \E n \in Navs(c) :
            vm' = [Play(vm, c) EXCEPT !.blockN = n - Start(c), !.hop = @ + HopSeek]
      BY <1>10, <2>2 DEF Seek
    <3>2. Play(vm, c) \in VmStates /\ Play(vm, c).restart = (vm.restart + 1) % RestartMod
      BY <1>a, PlayType DEF Playable
    <3>3. vm'.restart = (vm.restart + 1) % RestartMod
      BY <3>1, <3>2 DEF VmStates
    <3>4. Anew(vm, vm') /\ MayJump BY <1>10, <2>2, <3>3 DEF Anew, Seek
    <3> QED BY <1>10, <1>a, <1>d, <3>4, UserSilent DEF Finish, Seek, LockFree, Clear, appVars
  <2> QED BY <2>1, <2>2
<1>11. CASE Press
  <2>a. Silent /\ step = "idle" /\ ui # "clear" /\ started' = started /\ UNCHANGED <<file, told, step>>
    BY <1>11, UserSilent DEF Finish, Press, LockFree, Clear, appVars
  <2>1. CASE PressJumps
    <3>1. PICK o \in Jumps(vm) \cup Resumes(vm) : Became(Hop(o, 1)) BY <2>1 DEF PressJumps
    <3>2. Anew(vm, vm') /\ ~stopped'
      BY <1>a, <2>1, <3>1, 1 \in Nat, CommandAnew DEF Commands, PressJumps, HasCell
    <3> QED BY <1>d, <2>a, <2>1, <3>2 DEF PressJumps
  <2>2. CASE PressStays
    <3>1. PICK o \in Exits(vm) \cup {Outcome(w, rsm, stopped) : w \in Registers(vm)} : Became(o)
      BY <2>2 DEF PressStays
    <3>2. o \notin Exits(vm) BY DEF Exits, NeverStops
    <3>3. PICK w \in Registers(vm) : o = Outcome(w, rsm, stopped) BY <3>1, <3>2
    <3>4. vm' = w /\ stopped' = stopped BY <3>1, <3>3 DEF Became, Outcome
    <3>5. SameCell(vm, w) BY <1>a, <3>3, RegistersType
    <3> QED BY <1>a, <1>c, <2>a, <3>4, <3>5 DEF SameCell
  <2>3. CASE PressLeaves
    <3>1. PICK o \in Commands(vm) : Became(o) BY <2>3 DEF PressLeaves
    <3>2. Anew(vm, vm') /\ ~stopped'
      BY <1>a, <2>3, <3>1, CommandAnew DEF PressLeaves, HasCell
    <3> QED BY <1>d, <2>a, <2>3, <3>2 DEF PressLeaves
  <2>4. CASE PressFails
    BY <1>a, <1>c, <2>a, <2>4 DEF PressFails
  <2> QED BY <1>11, <2>1, <2>2, <2>3, <2>4 DEF Press
<1> QED
  BY <1>1, <1>2, <1>3, <1>4, <1>5, <1>6, <1>7, <1>8, <1>9, <1>10, <1>11
  DEF UserCall, Finish

LEMMA UserCount ==
  ASSUME Typed, KnownByCount, NeverStops, UserCall \/ Finish
  PROVE  KnownByCount'
<1>a. vm.restart \in 0..RestartMod - 1 /\ ~stopped
  BY FieldsOfVm DEF Typed, TypeOK, KnownByCount
<1>1. CASE Reset
  <2>1. ui' = "clear" /\ UNCHANGED <<stopped, started, file, step>> /\ step = "idle"
    BY <1>1 DEF Reset, LockFree
  <2> QED BY <2>1 DEF KnownByCount
<1>2. CASE Clear
  <2>1. file' = None /\ ~stopped' /\ step' # "leave"
    BY <1>2, <1>a DEF Clear, LockFree
  <2> QED BY <2>1 DEF KnownByCount
<1>3. CASE ~Reset /\ ~Clear
  <2>1. UserMove BY <1>3, <1>a, UserMoves
  <2>2. CASE ~started
    <3>1. file' = None /\ ~stopped' /\ step' # "leave"
      BY <2>1, <2>2 DEF UserMove, Silent, KnownByCount, Typed, Running
    <3> QED BY <3>1 DEF KnownByCount
  <2>3. CASE started
    <3>1. step' = "leave" => vm'.restart = pos'.restart
      BY <2>1, <2>3 DEF UserMove, Silent, KnownByCount
    <3> QED BY <1>a, <2>1, <2>3, <3>1, CountFrame DEF UserMove, Silent
  <2> QED BY <2>2, <2>3
<1> QED BY <1>1, <1>2, <1>3

LEMMA CountKept ==
  ASSUME Typed, KnownByCount, NeverStops, [Next]_vars
  PROVE  KnownByCount'
<1>1. CASE GetNextBlock BY <1>1, EngineCount
<1>2. CASE UserCall \/ Finish BY <1>2, UserCount
<1>3. CASE UNCHANGED vars BY <1>3 DEF vars, vmVars, appVars, KnownByCount
<1> QED BY <1>1, <1>2, <1>3 DEF Next

-----------------------------------------------------------------------------
(* The protocol *)

(* Stream data are handed out when all that plays was told. *)
LEMMA UpToDateWhenTuned ==
  ASSUME Typed, Told, Knows, Tuned, vm'.cell = Now.cell, vm'.vts = Now.vts,
         vm'.restart = Now.restart, vm'.spu = Now.spu, vm'.audio = Now.audio,
         vm'.button = Now.button
  PROVE  Protocol!UpToDate
<1>1. Playable(Now) /\ Alive BY NowPlayable DEF Tuned, Placed, Calm, Alive
<1>2. /\ Now.button \in Nat \ {0} /\ Now.spu \in Nat \ {0} /\ Now.audio \in Nat \ {0}
  BY <1>1, FieldsOfVm, ButtonAssumption, StreamAssumption DEF Playable
<1>3. /\ file # None /\ told.file = file /\ file = VobFile(Now.vts, Disc[Now.cell].domain)
      /\ told.play = <<Now.cell, Now.restart>> /\ told.clut = told.play
      /\ told.spu = Now.spu /\ told.audio = Now.audio /\ told.button = Now.button
  BY <1>1, <1>2 DEF Tuned, Placed, Calm, Alive, Moved, Told, Knows
<1>4. vm'.cell # None BY <1>1, NoneAssumption DEF Playable
<1>5. Playback' = [file |-> VobFile(Now.vts, Disc[Now.cell].domain),
                   play |-> <<Now.cell, Now.restart>>,
                   spu |-> Now.spu, audio |-> Now.audio, button |-> Now.button]
  BY <1>4 DEF Playback, HasCell
<1> QED BY <1>3, <1>5 DEF Protocol!UpToDate

(* Every step of the engine is one the protocol allows. *)
LEMMA StepAllowed ==
  ASSUME Typed, Told, Knows, [Next]_vars
  PROVE  [Protocol!Next]_(Protocol!eventVars)
<1>a. told \in ToldType BY DEF Typed
<1>1. ASSUME UNCHANGED told, event'.kind \notin StreamData \/ UNCHANGED event
      PROVE  Protocol!Next
  BY <1>1 DEF Protocol!Next, Protocol!Quiet
<1>b. ASSUME Alive, vm' = Now
      PROVE  Playback' = [file |-> VobFile(Now.vts, Disc[Now.cell].domain),
                          play |-> <<Now.cell, Now.restart>>,
                          spu |-> Now.spu, audio |-> Now.audio, button |-> Now.button]
  <2>1. Playable(Now) BY <1>b, NowPlayable DEF Alive
  <2> QED BY <1>b, <2>1, NoneAssumption DEF Playable, Playback, HasCell
<1>2. CASE UserCall \/ Finish \/ LeaveCell \/ NextCell
  BY <1>1, <1>2 DEF UserCall, Finish, StillSkip, WaitSkip, StopCall, Reset, PartPlay, GoUp, PgSearch,
     MenuCall, SeekBegins, PressBegins, ActivateCmd, Select, SkipWrites, Clear, Seek, Press,
     ForceHighlight, LeaveCell, NextCell, appVars
<1>3. CASE StartFails \/ Stop \/ HopChannel \/ HopFails \/ Wait \/ VtsFails \/ StillFrame
             \/ HoldStill \/ CellLeft \/ NavFails
  BY <1>1, <1>3 DEF StartFails, Stop, HopChannel, HopFails, Wait, VtsFails, StillFrame, HoldStill,
     CellLeft, NavFails, Error, Announce, Returns, StreamData
<1>4. CASE Highlight
  <2>1. Playback'.button = Now.button BY <1>b, <1>4 DEF Highlight
  <2>2. event'.kind \notin StreamData BY <1>4 DEF Highlight, Announce, Returns, StreamData
  <2> QED BY <1>4, <2>1, <2>2 DEF Highlight, Protocol!Next, Protocol!Tell, Protocol!TellButton
<1>5. CASE VtsChange
  <2>1. Playback'.file = file' BY <1>b, <1>5 DEF VtsChange, Calm
  <2>2. event'.kind \notin StreamData BY <1>5 DEF VtsChange, Announce, Returns, StreamData
  <2> QED BY <1>5, <2>1, <2>2 DEF VtsChange, Protocol!Next, Protocol!Tell, Protocol!TellFile
<1>6. CASE CellChange
  <2>1. Playback'.file = VobFile(Now.vts, Disc[Now.cell].domain)
        /\ Playback'.play = <<Now.cell, Now.restart>>
    BY <1>b, <1>6 DEF CellChange, Calm
  <2>2. event'.kind \notin StreamData BY <1>6 DEF CellChange, Announce, Returns, StreamData
  <2>3. told.file = VobFile(Now.vts, Disc[Now.cell].domain) BY <1>6 DEF CellChange, Moved, Told
  <2> QED BY <1>6, <2>1, <2>2, <2>3 DEF CellChange, Protocol!Next, Protocol!Tell, Protocol!TellPlay
<1>7. ASSUME Placed, vm' = Now
      PROVE  /\ told.file = Playback'.file /\ told.play = Playback'.play
             /\ Playback'.play = <<Now.cell, Now.restart>>
             /\ Playback'.spu = Now.spu /\ Playback'.audio = Now.audio
  <2>1. told.file = VobFile(Now.vts, Disc[Now.cell].domain) BY <1>7 DEF Placed, Moved, Told
  <2>2. told.play = <<Now.cell, Now.restart>> BY <1>7 DEF Placed, Calm, Alive, Knows
  <2> QED BY <1>b, <1>7, <2>1, <2>2 DEF Placed, Calm
<1>8. CASE ClutChange
  <2>1. event'.kind \notin StreamData BY <1>8 DEF ClutChange, Announce, Returns, StreamData
  <2>2. Protocol!TellDetail("clut", Playback'.play)
    BY <1>7, <1>8 DEF ClutChange, Protocol!TellDetail
  <2> QED BY <2>1, <2>2 DEF Protocol!Next, Protocol!Tell
<1>9. CASE SpuChange
  <2>1. event'.kind \notin StreamData BY <1>9 DEF SpuChange, Announce, Returns, StreamData
  <2>2. Protocol!TellDetail("spu", Playback'.spu)
    BY <1>7, <1>9 DEF SpuChange, Protocol!TellDetail
  <2> QED BY <2>1, <2>2 DEF Protocol!Next, Protocol!Tell
<1>10. CASE AudioChange
  <2>1. event'.kind \notin StreamData BY <1>10 DEF AudioChange, Announce, Returns, StreamData
  <2>2. Protocol!TellDetail("audio", Playback'.audio)
    BY <1>7, <1>10 DEF AudioChange, Protocol!TellDetail
  <2> QED BY <2>1, <2>2 DEF Protocol!Next, Protocol!Tell
<1>11. CASE ReadNav
  <2>1. Tuned BY <1>11 DEF ReadNav, Playing
  <2>2. Now \in VmStates BY <2>1, NowPlayable DEF Tuned, Placed, Calm, Alive, Playable
  <2>3. /\ vm'.cell = Now.cell /\ vm'.vts = Now.vts /\ vm'.restart = Now.restart
        /\ vm'.spu = Now.spu /\ vm'.audio = Now.audio /\ vm'.button = Now.button
    BY <1>11, <2>2 DEF ReadNav, VmStates
  <2>4. Protocol!UpToDate BY <2>1, <2>3, UpToDateWhenTuned
  <2>5. event'.kind \in StreamData /\ UNCHANGED told
    BY <1>11 DEF ReadNav, Returns, StreamData
  <2> QED BY <2>4, <2>5 DEF Protocol!Next, Protocol!Deliver
<1>12. CASE ReadBlock(FALSE)
  BY <1>1, <1>12 DEF ReadBlock, Announce, Returns, StreamData
<1>13. CASE ReadBlock(TRUE)
  <2>1. Tuned /\ vm' = Now BY <1>13 DEF ReadBlock, Playing
  <2>2. Protocol!UpToDate BY <2>1, UpToDateWhenTuned
  <2>3. event'.kind \in StreamData /\ UNCHANGED told
    BY <1>13 DEF ReadBlock, Returns, StreamData
  <2> QED BY <2>2, <2>3 DEF Protocol!Next, Protocol!Deliver
<1>14. CASE UNCHANGED vars
  BY <1>1, <1>14 DEF vars, appVars
<1> QED
  BY <1>2, <1>3, <1>4, <1>5, <1>6, <1>8, <1>9, <1>10, <1>11, <1>12, <1>13, <1>14 DEF Next, GetNextBlock

LEMMA InitAllowed ==
  ASSUME Init
  PROVE  Protocol!Init /\ Told /\ KnownByPlace /\ KnownByCount
<1>1. Protocol!Init BY DEF Init, Protocol!Init, StreamData
<1>2. Told /\ KnownByPlace /\ KnownByCount
  BY DEF Init, NoPos, Told, KnownByPlace, KnownByCount
<1> QED BY <1>1, <1>2

(* The events are in the order EventProtocol states, for every disc whose   *)
(* cells each have a place of their own, stops and restarts included.       *)
THEOREM AnnouncesByPlace ==
  ASSUME OwnPlaces
  PROVE  Spec => AnnouncesFirst
<1> DEFINE Inv == Typed /\ Told /\ KnownByPlace
<1>1. Init => Inv /\ Protocol!Init
  BY InitTyped, InitAllowed
<1>2. Inv /\ [Next]_vars => Inv'
  BY NextTyped, ByPlace, ToldKept, PlaceKept
<1>3. Inv /\ [Next]_vars => [Protocol!Next]_(Protocol!eventVars)
  BY ByPlace, StepAllowed
<1> QED BY <1>1, <1>2, <1>3, PTL DEF Spec, AnnouncesFirst, Protocol!Spec

(* The events are in that order for every disc, shared places included, if  *)
(* the machine is never stopped: the restart count tells two cells apart.   *)
THEOREM AnnouncesByCount ==
  ASSUME NeverStops
  PROVE  Spec => AnnouncesFirst
<1> DEFINE Inv == Typed /\ Told /\ KnownByCount
<1>1. Init => Inv /\ Protocol!Init
  BY InitTyped, InitAllowed
<1>2. Inv /\ [Next]_vars => Inv'
  BY NextTyped, ByCount, ToldKept, CountKept
<1>3. Inv /\ [Next]_vars => [Protocol!Next]_(Protocol!eventVars)
  BY ByCount, StepAllowed
<1> QED BY <1>1, <1>2, <1>3, PTL DEF Spec, AnnouncesFirst, Protocol!Spec

=============================================================================
