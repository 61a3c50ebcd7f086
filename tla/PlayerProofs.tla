----------------------------- MODULE PlayerProofs -----------------------------
(* What holds of the event engine for every disc, every set of calls and    *)
(* every bound on its counters.                                             *)
EXTENDS Player, TLAPS

-----------------------------------------------------------------------------
(* Counting restarts *)

LEMMA CountUp ==
  ASSUME NEW r \in 0..RestartMod - 1
  PROVE  (r + 1) % RestartMod = IF r + 1 = RestartMod THEN 0 ELSE r + 1
BY RestartAssumption

LEMMA Difference ==
  ASSUME NEW r \in 0..RestartMod - 1, NEW p \in 0..RestartMod - 1
  PROVE  (r - p) % RestartMod = IF r < p THEN r - p + RestartMod ELSE r - p
BY RestartAssumption

(* A cell played anew differs in its count from the one announced last, as  *)
(* long as the count does not come round.                                   *)
LEMMA CountDiffers ==
  ASSUME NEW r \in 0..RestartMod - 1, NEW p \in 0..RestartMod - 1,
         r = p \/ (r - p) % RestartMod < RestartMod - 2
  PROVE  (r + 1) % RestartMod \in (0..RestartMod - 1) \ {p}
BY CountUp, Difference, RestartAssumption

-----------------------------------------------------------------------------
(* The machine *)

(* A machine that is in a cell, and the resume information it may keep.     *)
Playable(v) ==
  /\ v \in VmStates /\ v.cell \in Cells
  /\ Disc[v.cell].domain # "vmgm" => v.vts = Disc[v.cell].vts
Resumable == [cell : Cells, blockN : Int]
Kept(r) == r \in Resumable \cup {None} /\ (r # None => ~IsMenu(r.cell))
SameCell(v, w) == w.cell = v.cell /\ w.restart = v.restart /\ w.vts = v.vts

LEMMA DiscFields ==
  ASSUME NEW c \in Cells
  PROVE  /\ Disc[c].vts \in Nat /\ Disc[c].domain \in {"vmgm", "vtsm", "title"}
         /\ Disc[c].cellN \in Nat \ {0} /\ Disc[c].start \in Nat
         /\ Disc[c].vobus \in Nat \ {0} /\ Disc[c].still \in BOOLEAN
         /\ Disc[c].menu \in {"no", "plain", "buttons"} /\ Disc[c].angles \in BOOLEAN
         /\ Start(c) \in Nat
BY DiscAssumption DEF CellInfo, Start

LEMMA VmFields ==
  ASSUME NEW v \in VmStates
  PROVE  /\ \A n \in Int : [v EXCEPT !.blockN = n] \in VmStates
         /\ \A n \in Nat \cup {-1} : [v EXCEPT !.vts = n] \in VmStates
         /\ \A n \in Nat : [v EXCEPT !.hop = n] \in VmStates
         /\ \A b \in Buttons : [v EXCEPT !.button = b] \in VmStates
<1>1. \A n \in Int : [v EXCEPT !.blockN = n] \in VmStates
  BY DEF VmStates
<1>2. \A n \in Nat \cup {-1} : [v EXCEPT !.vts = n] \in VmStates
  BY DEF VmStates
<1>3. \A n \in Nat : [v EXCEPT !.hop = n] \in VmStates
  BY DEF VmStates
<1>4. \A b \in Buttons : [v EXCEPT !.button = b] \in VmStates
  BY DEF VmStates
<1> QED BY <1>1, <1>2, <1>3, <1>4

LEMMA PlayType ==
  ASSUME NEW v \in VmStates, NEW c \in Cells
  PROVE  Playable(Play(v, c)) /\ Play(v, c).cell = c /\ Play(v, c).restart = (v.restart + 1) % RestartMod
<1>1. (v.restart + 1) % RestartMod \in 0..RestartMod - 1
  BY CountUp, RestartAssumption DEF VmStates
<1>2. Disc[c].vts \in Nat
  BY DiscFields
<1>3. PICK n \in Nat \cup {-1} :
        /\ Play(v, c) = [v EXCEPT !.cell = c, !.restart = (v.restart + 1) % RestartMod,
                                  !.blockN = 0, !.vts = n]
        /\ Disc[c].domain # "vmgm" => n = Disc[c].vts
  <2>1. CASE Disc[c].domain = "vmgm"
    <3>1. v.vts \in Nat \cup {-1} BY DEF VmStates
    <3> QED BY <2>1, <3>1 DEF Play, VmStates
  <2>2. CASE Disc[c].domain # "vmgm"
    BY <2>2, <1>2 DEF Play, VmStates
  <2> QED BY <2>1, <2>2
<1>4. PICK q \in 0..RestartMod - 1 : q = (v.restart + 1) % RestartMod
  BY <1>1
<1>5. PICK w \in VmStates : w = [v EXCEPT !.cell = c, !.restart = q]
  BY <1>4 DEF VmStates
<1>6. [w EXCEPT !.blockN = 0] \in VmStates
  <2>1. 0 \in Int OBVIOUS
  <2> QED BY <2>1, VmFields, Zenon
<1>7. [[w EXCEPT !.blockN = 0] EXCEPT !.vts = n] \in VmStates
  BY <1>6, VmFields, Zenon
<1>8. Play(v, c) = [[w EXCEPT !.blockN = 0] EXCEPT !.vts = n]
  BY <1>3, <1>4, <1>5 DEF VmStates
<1>9. Play(v, c).cell = c /\ Play(v, c).restart = q /\ Play(v, c).vts = n
  BY <1>5, <1>8 DEF VmStates
<1> QED BY <1>3, <1>4, <1>7, <1>8, <1>9 DEF Playable

LEMMA BootedType == Playable(Booted)
<1>1. NoVM \in VmStates
  BY RestartAssumption, ButtonAssumption, StreamAssumption DEF NoVM, VmStates
<1> QED BY <1>1, PlayType, DiscAssumption DEF Booted

LEMMA RegistersType ==
  ASSUME NEW v \in VmStates, NEW w \in Registers(v)
  PROVE  w \in VmStates /\ SameCell(v, w) /\ (Playable(v) => Playable(w))
<1>1. PICK r \in ({v.button} \cup Buttons) \X Streams \X Streams :
        w = [v EXCEPT !.button = r[1], !.spu = r[2], !.audio = r[3]]
  BY DEF Registers
<1>2. r[1] \in Buttons /\ r[2] \in Streams /\ r[3] \in Streams
  BY DEF VmStates
<1>3. w \in VmStates
  BY <1>1, <1>2 DEF VmStates
<1>4. SameCell(v, w)
  BY <1>1, <1>2 DEF VmStates, SameCell
<1> QED BY <1>3, <1>4 DEF Playable, SameCell

LEMMA FieldsType ==
  ASSUME NEW v \in VmStates
  PROVE  /\ \A n \in Int : LET w == [v EXCEPT !.blockN = n]
                           IN  w \in VmStates /\ SameCell(v, w) /\ (Playable(v) => Playable(w))
         /\ \A n \in Nat : LET w == [v EXCEPT !.hop = n]
                           IN  w \in VmStates /\ SameCell(v, w) /\ (Playable(v) => Playable(w))
         /\ \A b \in Buttons : LET w == [v EXCEPT !.button = b]
                               IN  w \in VmStates /\ SameCell(v, w) /\ (Playable(v) => Playable(w))
<1>1. ASSUME NEW n \in Int
      PROVE  SameCell(v, [v EXCEPT !.blockN = n])
  BY DEF VmStates, SameCell
<1>2. ASSUME NEW n \in Nat
      PROVE  SameCell(v, [v EXCEPT !.hop = n])
  BY DEF VmStates, SameCell
<1>3. ASSUME NEW b \in Buttons
      PROVE  SameCell(v, [v EXCEPT !.button = b])
  BY DEF VmStates, SameCell
<1>4. \A w \in VmStates : SameCell(v, w) => (Playable(v) => Playable(w))
  BY DEF SameCell, Playable
<1> QED BY <1>1, <1>2, <1>3, <1>4, VmFields, Zenon

-----------------------------------------------------------------------------
(* Where a jump leads: to a cell played anew. *)
LEMMA JumpsType ==
  ASSUME NEW v, Playable(v), Kept(rsm), NEW o \in Jumps(v)
  PROVE  /\ Playable(o.vm) /\ Kept(o.rsm) /\ o.stopped = stopped
         /\ o.vm.restart = (v.restart + 1) % RestartMod
<1>1. PICK c \in Cells : o \in {Outcome(w, Saved(v, c), stopped) : w \in Registers(Play(v, c))}
  BY DEF Jumps
<1>2. PICK w \in Registers(Play(v, c)) : o = Outcome(w, Saved(v, c), stopped)
  BY <1>1
<1>3. Playable(w) /\ w.restart = (v.restart + 1) % RestartMod
  BY PlayType, RegistersType DEF Playable, SameCell
<1>4. Kept(Saved(v, c))
  BY DEF Saved, Kept, Resumable, Playable
<1> QED BY <1>2, <1>3, <1>4 DEF Outcome

(* A resume leads from a menu to a title, and counts no restart. *)
LEMMA ResumesType ==
  ASSUME NEW v, Playable(v), Kept(rsm), NEW o \in Resumes(v)
  PROVE  /\ Playable(o.vm) /\ o.rsm = rsm /\ o.stopped = stopped
         /\ o.vm.restart = v.restart /\ IsMenu(v.cell) /\ ~IsMenu(o.vm.cell)
<1>1. rsm # None /\ IsMenu(v.cell)
  BY DEF Resumes
<1>2. PICK b \in Buttons :
        o = Outcome([v EXCEPT !.cell = rsm.cell, !.vts = Disc[rsm.cell].vts,
                              !.blockN = rsm.blockN, !.button = b], rsm, stopped)
  BY <1>1 DEF Resumes
<1>3. rsm.cell \in Cells /\ rsm.blockN \in Int /\ ~IsMenu(rsm.cell)
  BY <1>1 DEF Resumable, Kept
<1>4. PICK n \in Nat : n = Disc[rsm.cell].vts
  BY <1>3, DiscFields
<1>5. [v EXCEPT !.cell = rsm.cell] \in VmStates
  BY <1>3 DEF Playable, VmStates
<1>6. [[v EXCEPT !.cell = rsm.cell] EXCEPT !.vts = n] \in VmStates
  BY <1>4, <1>5, VmFields, n \in Nat \cup {-1}, Zenon
<1>7. [[[v EXCEPT !.cell = rsm.cell] EXCEPT !.vts = n] EXCEPT !.blockN = rsm.blockN] \in VmStates
  BY <1>3, <1>6, VmFields, Zenon
<1> DEFINE w == [[[[v EXCEPT !.cell = rsm.cell] EXCEPT !.vts = n]
                     EXCEPT !.blockN = rsm.blockN] EXCEPT !.button = b]
<1>8. w \in VmStates
  BY <1>7, VmFields, Zenon
<1>9. w = [v EXCEPT !.cell = rsm.cell, !.vts = n, !.blockN = rsm.blockN, !.button = b]
  BY <1>3 DEF Playable, VmStates
<1>10. w.cell = rsm.cell /\ w.vts = n /\ w.restart = v.restart
  BY <1>3 DEF Playable, VmStates
<1> HIDE DEF w
<1>11. o = Outcome(w, rsm, stopped)
  BY <1>2, <1>4, <1>9, Zenon
<1>12. Playable(w)
  BY <1>3, <1>4, <1>8, <1>10 DEF Playable
<1> QED BY <1>1, <1>3, <1>10, <1>11, <1>12 DEF Outcome

(* What commands do to the machine. *)
Same(v, w) == w.restart = v.restart /\ (w.cell = v.cell \/ (IsMenu(v.cell) /\ ~IsMenu(w.cell)))
LEMMA CommandsType ==
  ASSUME NEW v, Playable(v), Kept(rsm), stopped \in BOOLEAN, NEW o \in Commands(v)
  PROVE  /\ Playable(o.vm) /\ Kept(o.rsm) /\ o.stopped \in BOOLEAN
         /\ Same(v, o.vm) \/ o.vm.restart = (v.restart + 1) % RestartMod
         /\ "exit" \notin Calls => o.stopped = stopped
<1>1. CASE o \in Jumps(v) BY <1>1, JumpsType
<1>2. CASE o \in Resumes(v) BY <1>2, ResumesType DEF Same
<1>3. CASE o \in Exits(v)
  <2>1. "exit" \in Calls /\ o = Outcome(v, rsm, TRUE)
    BY <1>3 DEF Exits
  <2> QED BY <2>1 DEF Outcome, Same
<1> QED BY <1>1, <1>2, <1>3 DEF Commands

-----------------------------------------------------------------------------
(* Types *)

ToldType ==
  [file : (Nat \X {"menu", "title"}) \cup {None}, play : (Cells \X Nat) \cup {None},
   clut : (Cells \X Nat) \cup {None}, spu : Streams \cup {None}, audio : Streams \cup {None},
   button : Buttons \cup {None}]

(* The machine is in a cell while the handle is started, but for the middle *)
(* of a reset, and while the engine is at the end of a cell.                *)
Running ==
  /\ Kept(rsm)
  /\ vm.cell # None => Playable(vm)
  /\ started /\ ui # "clear" => vm.cell # None
  /\ step # "idle" => started /\ ui # "clear"
Typed == TypeOK /\ told \in ToldType /\ Running

LEMMA NowPlayable ==
  ASSUME Typed, Polling
  PROVE  Playable(Now)
BY BootedType DEF Typed, TypeOK, Running, Polling, Now

LEMMA FileType ==
  ASSUME NEW v, Playable(v)
  PROVE  VobFile(v.vts, Disc[v.cell].domain) \in Nat \X {"menu", "title"}
BY DiscFields DEF Playable, VobFile

LEMMA InitTyped == Init => Typed
<1> SUFFICES ASSUME Init PROVE Typed
  OBVIOUS
<1>1. vm \in VmStates /\ vm.cell = None
  BY RestartAssumption, ButtonAssumption, StreamAssumption DEF Init, NoVM, VmStates
<1>2. pos \in Positions
  BY RestartAssumption DEF Init, NoPos, Positions
<1>3. TypeOK
  <2>1. /\ rsm \in [cell : Cells, blockN : Int] \cup {None}
        /\ {stopped, started, skip_still, sync_wait, sync_wait_skip, spu_clut_changed} \subseteq BOOLEAN
        /\ file \in (Nat \X {"menu", "title"}) \cup {None}
        /\ last_cmd_nav_lbn \in Int \cup {EndOfCell}
    BY DEF Init
  <2>2. vobu \in [start : Int, length : Nat, blockN : Nat, next : Int \cup {EndOfCell}]
    BY DEF Init
  <2>3. pci \in [lbn : Int, menu : {"no", "plain", "buttons"}]
    BY DEF Init, NoPci
  <2>4. step = "idle" /\ ui = "idle"
    BY DEF Init
  <2> QED BY <1>1, <1>2, <2>1, <2>2, <2>3, <2>4 DEF TypeOK
<1>4. told \in ToldType
  BY DEF Init, ToldType
<1>5. Running
  BY <1>1 DEF Init, Running, Kept
<1> QED BY <1>3, <1>4, <1>5 DEF Typed

(* The engine's calls leave the machine at Now, or further on in its cell.  *)
LEMMA AliveTyped ==
  ASSUME Typed, Alive, Playable(vm'),
         UNCHANGED ui, step' = step \/ step' \in {"leave", "clear"}
  PROVE  Running' /\ vm' \in VmStates /\ stopped' \in BOOLEAN /\ started' \in BOOLEAN
         /\ rsm' \in Resumable \cup {None}
<1>1. Kept(rsm')
  BY DEF Typed, Running, Alive, Kept
<1>2. vm'.cell # None
  BY NoneAssumption DEF Playable
<1> QED BY <1>1, <1>2 DEF Typed, Running, Alive, Polling, Playable, Kept

LEMMA FieldsOfVm ==
  ASSUME NEW v \in VmStates
  PROVE  /\ v.cell \in Cells \cup {None} /\ v.vts \in Nat \cup {-1} /\ v.restart \in 0..RestartMod - 1
         /\ v.blockN \in Int /\ v.hop \in Nat /\ v.button \in Buttons
         /\ v.spu \in Streams /\ v.audio \in Streams
BY DEF VmStates

LEMMA FieldsOfPos ==
  ASSUME NEW p \in Positions
  PROVE  /\ \A n \in Nat \cup {-1} : [p EXCEPT !.cell = n] \in Positions
         /\ \A n \in Nat \cup {-1} : [p EXCEPT !.vts = n] \in Positions
         /\ \A d \in {"vmgm", "vtsm", "title"} : [p EXCEPT !.domain = d] \in Positions
         /\ \A n \in 0..RestartMod - 1 : [p EXCEPT !.restart = n] \in Positions
         /\ \A n \in Nat : [p EXCEPT !.start = n] \in Positions
         /\ \A b \in Buttons \cup {0, -1} : [p EXCEPT !.button = b] \in Positions
         /\ \A n \in Streams \cup {0, -1} : [p EXCEPT !.spu = n] \in Positions
         /\ \A n \in Streams \cup {0, -1} : [p EXCEPT !.audio = n] \in Positions
         /\ \A n \in Nat : [p EXCEPT !.hop = n] \in Positions
         /\ \A b \in BOOLEAN : [p EXCEPT !.still = b] \in Positions
<1>1. \A n \in Nat \cup {-1} : [p EXCEPT !.cell = n] \in Positions BY DEF Positions
<1>2. \A n \in Nat \cup {-1} : [p EXCEPT !.vts = n] \in Positions BY DEF Positions
<1>3. \A d \in {"vmgm", "vtsm", "title"} : [p EXCEPT !.domain = d] \in Positions BY DEF Positions
<1>4. \A n \in 0..RestartMod - 1 : [p EXCEPT !.restart = n] \in Positions BY DEF Positions
<1>5. \A n \in Nat : [p EXCEPT !.start = n] \in Positions BY DEF Positions
<1>6. \A b \in Buttons \cup {0, -1} : [p EXCEPT !.button = b] \in Positions BY DEF Positions
<1>7. \A n \in Streams \cup {0, -1} : [p EXCEPT !.spu = n] \in Positions BY DEF Positions
<1>8. \A n \in Streams \cup {0, -1} : [p EXCEPT !.audio = n] \in Positions BY DEF Positions
<1>9. \A n \in Nat : [p EXCEPT !.hop = n] \in Positions BY DEF Positions
<1>10. \A b \in BOOLEAN : [p EXCEPT !.still = b] \in Positions BY DEF Positions
<1> QED BY <1>1, <1>2, <1>3, <1>4, <1>5, <1>6, <1>7, <1>8, <1>9, <1>10

LEMMA EngineTyped ==
  ASSUME Typed, GetNextBlock
  PROVE  Typed'
<1> USE DEF Typed
<1>1. CASE StartFails
  BY <1>1 DEF StartFails, Error, TypeOK, Running, navVars, flagVars, Kept, Playable
<1>2. CASE Stop
  <2>1. TypeOK' BY <1>2 DEF Stop, TypeOK, navVars, flagVars
  <2>2. Running' BY <1>2 DEF Stop, Running, Polling, Kept, Playable
  <2>3. (told \in ToldType)' BY <1>2 DEF Stop, ToldType
  <2> QED BY <2>1, <2>2, <2>3
<1>a. ASSUME Alive, vm' = Now, UNCHANGED ui, step' \in {step, "leave"}
      PROVE  /\ Playable(Now) /\ Now \in VmStates
             /\ Running' /\ vm' \in VmStates /\ stopped' \in BOOLEAN /\ started' \in BOOLEAN
             /\ rsm' \in Resumable \cup {None}
  <2>1. Playable(Now) BY <1>a, NowPlayable DEF Alive
  <2>2. Now \in VmStates BY <2>1 DEF Playable
  <2>3. Playable(vm') BY <1>a, <2>1
  <2> QED BY <1>a, <2>1, <2>2, <2>3, AliveTyped
<1>b. pos \in Positions BY DEF TypeOK
<1>3. CASE HopChannel
  <2>1. vm' \in VmStates /\ Playable(vm')
    <3>1. vm' = Now \/ \E n \in Int : vm' = [Now EXCEPT !.blockN = n]
      BY <1>3, VobuAssumption, NowPlayable, FieldsOfVm DEF HopChannel, Alive, Playable
    <3>2. Playable(Now) /\ Now \in VmStates BY <1>3, NowPlayable DEF HopChannel, Alive, Playable
    <3>3. \A n \in Int : [Now EXCEPT !.blockN = n] \in VmStates /\ Playable([Now EXCEPT !.blockN = n])
      BY <3>2, FieldsType
    <3> QED BY <3>1, <3>2, <3>3
  <2>2. Now \in VmStates /\ Now.hop \in Nat /\ Now.blockN \in Int /\ Now.cell \in Cells
    BY <1>3, NowPlayable, FieldsOfVm DEF HopChannel, Alive, Playable
  <2>3. pos' \in Positions
    BY <1>3, <1>b, <2>2, FieldsOfPos DEF HopChannel
  <2>4. Entry \in Int
    BY <2>2, DiscFields DEF Entry
  <2>5. vobu' \in [start : Int, length : Nat, blockN : Nat, next : Int \cup {EndOfCell}]
    BY <1>3, <2>4 DEF HopChannel, EntryVobu
  <2>6. pci' \in [lbn : Int, menu : {"no", "plain", "buttons"}]
    BY <1>3, <2>4, DiscFields DEF HopChannel, TypeOK, NavAt
  <2>7. Alive /\ UNCHANGED <<file, last_cmd_nav_lbn, skip_still, sync_wait_skip, spu_clut_changed, step, ui, told>>
        /\ sync_wait' = FALSE
    BY <1>3 DEF HopChannel
  <2>8. Running' /\ stopped' \in BOOLEAN /\ started' \in BOOLEAN /\ rsm' \in Resumable \cup {None}
    BY <2>1, <2>7, AliveTyped
  <2> QED BY <2>1, <2>3, <2>5, <2>6, <2>7, <2>8 DEF TypeOK, Resumable
<1>4. CASE HopFails
  BY <1>4, <1>a DEF HopFails, Error, TypeOK, Resumable, navVars, flagVars
<1>5. CASE Highlight
  <2>1. Now.button \in Buttons BY <1>5, <1>a, FieldsOfVm DEF Highlight
  <2>2. pos' \in Positions
    BY <1>5, <1>b, <2>1, FieldsOfPos DEF Highlight
  <2>3. told' \in ToldType
    BY <1>5, <2>1 DEF Highlight, ToldType
  <2> QED BY <1>5, <1>a, <2>2, <2>3 DEF Highlight, TypeOK, Resumable, navVars, flagVars
<1>6. CASE Wait
  BY <1>6, <1>a DEF Wait, TypeOK, Resumable, navVars, flagVars
<1>7. CASE VtsChange
  <2>1. /\ Now.vts \in Nat \cup {-1} /\ Disc[Now.cell].domain \in {"vmgm", "vtsm", "title"}
        /\ VobFile(Now.vts, Disc[Now.cell].domain) \in Nat \X {"menu", "title"}
    BY <1>7, <1>a, FieldsOfVm, DiscFields, FileType DEF VtsChange, Calm, Playable
  <2>2. pos' \in Positions
    <3> DEFINE p1 == [pos EXCEPT !.vts = Now.vts]
               p2 == [p1 EXCEPT !.domain = Disc[Now.cell].domain]
               p3 == [p2 EXCEPT !.cell = -1]
               p4 == [p3 EXCEPT !.spu = -1]
               p5 == [p4 EXCEPT !.audio = -1]
    <3>1. pos' = p5 BY <1>7, <1>b DEF VtsChange, Positions
    <3>2. p1 \in Positions BY <1>b, <2>1, FieldsOfPos, Zenon
    <3>3. p2 \in Positions BY <3>2, <2>1, FieldsOfPos, Zenon
    <3>4. -1 \in Nat \cup {-1} /\ -1 \in Streams \cup {0, -1} OBVIOUS
    <3>5. p3 \in Positions BY <3>3, <3>4, FieldsOfPos, Zenon
    <3>6. p4 \in Positions BY <3>5, <3>4, FieldsOfPos, Zenon
    <3>7. p5 \in Positions BY <3>6, <3>4, FieldsOfPos, Zenon
    <3> QED BY <3>1, <3>7, Zenon
  <2>3. told' \in ToldType
    BY <1>7, <2>1 DEF VtsChange, ToldType
  <2>4. file' \in Nat \X {"menu", "title"} BY <1>7, <2>1 DEF VtsChange
  <2> QED BY <1>7, <1>a, <2>2, <2>3, <2>4 DEF VtsChange, Calm, TypeOK, Resumable, navVars, flagVars
<1>8. CASE VtsFails
  <2>1. /\ Now.vts \in Nat \cup {-1} /\ Disc[Now.cell].domain \in {"vmgm", "vtsm", "title"}
    BY <1>8, <1>a, FieldsOfVm, DiscFields DEF VtsFails, Calm, Playable
  <2>2. pos' \in Positions
    <3>1. [pos EXCEPT !.vts = Now.vts] \in Positions BY <1>b, <2>1, FieldsOfPos, Zenon
    <3>2. [[pos EXCEPT !.vts = Now.vts] EXCEPT !.domain = Disc[Now.cell].domain] \in Positions
      BY <3>1, <2>1, FieldsOfPos, Zenon
    <3>3. pos' = [[pos EXCEPT !.vts = Now.vts] EXCEPT !.domain = Disc[Now.cell].domain]
      BY <1>8, <1>b DEF VtsFails, Positions
    <3> QED BY <3>2, <3>3, Zenon
  <2> QED BY <1>8, <1>a, <2>2 DEF VtsFails, Error, Calm, TypeOK, Resumable, navVars, flagVars
<1>9. CASE CellChange
  <2>1. /\ Now.restart \in 0..RestartMod - 1 /\ Now.restart \in Nat /\ Start(Now.cell) \in Nat
        /\ Disc[Now.cell].cellN \in Nat \cup {-1} /\ Now.blockN \in Int /\ Now.cell \in Cells
    BY <1>9, <1>a, FieldsOfVm, DiscFields, RestartAssumption DEF CellChange, Calm, Playable
  <2>2. pos' \in Positions
    <3> DEFINE p1 == [pos EXCEPT !.cell = Disc[Now.cell].cellN]
               p2 == [p1 EXCEPT !.restart = Now.restart]
               p3 == [p2 EXCEPT !.start = Start(Now.cell)]
               p4 == [p3 EXCEPT !.spu = -1]
               p5 == [p4 EXCEPT !.audio = -1]
    <3>1. pos' = p5 BY <1>9, <1>b DEF CellChange, Positions
    <3>2. p1 \in Positions BY <1>b, <2>1, FieldsOfPos, Zenon
    <3>3. p2 \in Positions BY <3>2, <2>1, FieldsOfPos, Zenon
    <3>4. -1 \in Streams \cup {0, -1} OBVIOUS
    <3>5. p3 \in Positions BY <3>3, <2>1, FieldsOfPos, Zenon
    <3>6. p4 \in Positions BY <3>5, <3>4, FieldsOfPos, Zenon
    <3>7. p5 \in Positions BY <3>6, <3>4, FieldsOfPos, Zenon
    <3> QED BY <3>1, <3>7, Zenon
  <2>3. told' \in ToldType
    BY <1>9, <2>1 DEF CellChange, ToldType
  <2>4. vobu' \in [start : Int, length : Nat, blockN : Nat, next : Int \cup {EndOfCell}]
    BY <1>9, <2>1 DEF CellChange, EntryVobu, Entry
  <2> QED BY <1>9, <1>a, <2>2, <2>3, <2>4 DEF CellChange, Calm, TypeOK, Resumable, flagVars
<1>10. CASE ClutChange
  <2>1. Now.restart \in Nat /\ Now.cell \in Cells
    BY <1>10, <1>a, FieldsOfVm, RestartAssumption DEF ClutChange, Placed, Calm, Playable
  <2>2. told' \in ToldType
    BY <1>10, <2>1 DEF ClutChange, ToldType
  <2> QED BY <1>10, <1>a, <2>2 DEF ClutChange, Placed, Calm, TypeOK, Resumable, navVars, flagVars
<1>11. CASE SpuChange
  <2>1. Now.spu \in Streams
    BY <1>11, <1>a, FieldsOfVm DEF SpuChange, Placed, Calm
  <2>2. pos' \in Positions BY <1>11, <1>b, <2>1, FieldsOfPos DEF SpuChange
  <2>3. told' \in ToldType BY <1>11, <2>1 DEF SpuChange, ToldType
  <2> QED BY <1>11, <1>a, <2>2, <2>3 DEF SpuChange, Placed, Calm, TypeOK, Resumable, navVars, flagVars
<1>12. CASE AudioChange
  <2>1. Now.audio \in Streams
    BY <1>12, <1>a, FieldsOfVm DEF AudioChange, Placed, Calm
  <2>2. pos' \in Positions BY <1>12, <1>b, <2>1, FieldsOfPos DEF AudioChange
  <2>3. told' \in ToldType BY <1>12, <2>1 DEF AudioChange, ToldType
  <2> QED BY <1>12, <1>a, <2>2, <2>3 DEF AudioChange, Placed, Calm, TypeOK, Resumable, navVars, flagVars
<1>13. CASE StillFrame
  BY <1>13, <1>a DEF StillFrame, Tuned, Placed, Calm, TypeOK, Resumable, navVars, flagVars
<1>14. CASE LeaveCell
  <2>1. Disc[Now.cell].still \in BOOLEAN
    BY <1>14, <1>a, DiscFields DEF LeaveCell, EndOfPlay, Playing, Tuned, Placed, Calm, Playable
  <2>2. pos' \in Positions BY <1>14, <1>b, <2>1, FieldsOfPos DEF LeaveCell
  <2> QED BY <1>14, <1>a, <2>1, <2>2
          DEF LeaveCell, EndOfPlay, Playing, Tuned, Placed, Calm, TypeOK, Resumable, navVars, appVars
<1>15. CASE NextCell
  <2>1. vm.cell # None /\ Playable(vm) /\ Kept(rsm) BY <1>15 DEF NextCell, Running
  <2>2. PICK o \in Commands(vm) : Became(o) BY <1>15 DEF NextCell
  <2>3. Playable(o.vm) /\ Kept(o.rsm) /\ o.stopped \in BOOLEAN BY <2>1, CommandsType DEF TypeOK
  <2>4. pos' \in Positions BY <1>15, <1>b, FieldsOfPos DEF NextCell
  <2>5. Running' /\ vm' \in VmStates /\ rsm' \in Resumable \cup {None} /\ stopped' \in BOOLEAN
    BY <1>15, <2>2, <2>3, NoneAssumption DEF NextCell, Became, Running, Playable, Kept
  <2> QED BY <1>15, <2>4, <2>5 DEF NextCell, TypeOK, Resumable, navVars, appVars
<1>16. CASE HoldStill
  BY <1>16 DEF HoldStill, TypeOK, Running, Kept, Playable, vmVars, navVars, flagVars
<1>17. CASE CellLeft
  BY <1>17 DEF CellLeft, TypeOK, Running, Kept, Playable, vmVars, navVars
<1>18. CASE ReadNav
  <2>1. Playing /\ Alive /\ Playable(Now) /\ Now \in VmStates
    BY <1>18, NowPlayable DEF ReadNav, Playing, Tuned, Placed, Calm, Alive, Playable
  <2>2. vobu.start \in Int /\ vobu.next \in Int /\ pos.start \in Nat
    BY <1>18, <1>b DEF ReadNav, TypeOK, Positions
  <2>3. vm' \in VmStates /\ Playable(vm')
    BY <1>18, <2>1, <2>2, FieldsType DEF ReadNav
  <2>4. /\ vobu' \in [start : Int, length : Nat, blockN : Nat, next : Int \cup {EndOfCell}]
        /\ pci' \in [lbn : Int, menu : {"no", "plain", "buttons"}]
        /\ last_cmd_nav_lbn' \in Int \cup {EndOfCell}
    BY <1>18, <2>2, VobuAssumption, DiscFields DEF ReadNav, NextSector, NavAt, NextNav, TypeOK
  <2>5. Running' /\ stopped' \in BOOLEAN /\ started' \in BOOLEAN /\ rsm' \in Resumable \cup {None}
    BY <1>18, <2>1, <2>3, AliveTyped DEF ReadNav
  <2> QED BY <1>18, <2>3, <2>4, <2>5 DEF ReadNav, TypeOK, Resumable, flagVars
<1>19. CASE NavFails
  BY <1>19, <1>a DEF NavFails, Error, Playing, Tuned, Placed, Calm, TypeOK, Resumable, navVars, flagVars
<1>20. CASE ReadBlock(TRUE) \/ ReadBlock(FALSE)
  <2>1. Alive /\ vm' = Now /\ vobu' = [vobu EXCEPT !.blockN = @ + 1]
        /\ UNCHANGED <<file, pos, pci, last_cmd_nav_lbn, flagVars, spu_clut_changed, step, ui, told>>
    BY <1>20 DEF ReadBlock, Playing, Tuned, Placed, Calm
  <2>2. vobu' \in [start : Int, length : Nat, blockN : Nat, next : Int \cup {EndOfCell}]
    BY <2>1 DEF TypeOK
  <2> QED BY <1>a, <2>1, <2>2 DEF TypeOK, Resumable, flagVars
<1> QED
  BY <1>1, <1>2, <1>3, <1>4, <1>5, <1>6, <1>7, <1>8, <1>9, <1>10, <1>11, <1>12, <1>13, <1>14,
     <1>15, <1>16, <1>17, <1>18, <1>19, <1>20 DEF GetNextBlock

-----------------------------------------------------------------------------
(* The calls of the user interface *)

LEMMA HopType ==
  ASSUME NEW w \in VmStates, NEW n \in Nat, NEW r, NEW s
  PROVE  /\ [w EXCEPT !.hop = @ + n] \in VmStates
         /\ SameCell(w, [w EXCEPT !.hop = @ + n])
         /\ Playable(w) => Playable([w EXCEPT !.hop = @ + n])
         /\ Hop(Outcome(w, r, s), n) = Outcome([w EXCEPT !.hop = @ + n], r, s)
<1>1. PICK m \in Nat : m = w.hop + n
  BY FieldsOfVm
<1>2. [w EXCEPT !.hop = @ + n] = [w EXCEPT !.hop = m]
  BY <1>1 DEF VmStates
<1>3. Hop(Outcome(w, r, s), n) = Outcome([w EXCEPT !.hop = @ + n], r, s)
  BY DEF Hop, Outcome
<1> QED BY <1>2, <1>3, FieldsType, Zenon

LEMMA HoppedOnce ==
  ASSUME NEW w \in VmStates
  PROVE  \A r, s : Hop(Outcome(w, r, s), 1) = Outcome([w EXCEPT !.hop = @ + 1], r, s)
BY HopType

(* Every way a command ends is an outcome. *)
LEMMA OutcomeForm ==
  ASSUME NEW v, NEW o \in Commands(v)
  PROVE  o = Outcome(o.vm, o.rsm, o.stopped)
<1>1. CASE o \in Jumps(v)
  <2>1. PICK c \in Cells : o \in {Outcome(w, Saved(v, c), stopped) : w \in Registers(Play(v, c))}
    BY <1>1 DEF Jumps
  <2>2. PICK w \in Registers(Play(v, c)) : o = Outcome(w, Saved(v, c), stopped)
    BY <2>1
  <2> QED BY <2>2 DEF Outcome
<1>2. CASE o \in Resumes(v)
  <2> DEFINE w(b) == [v EXCEPT !.cell = rsm.cell, !.vts = Disc[rsm.cell].vts,
                               !.blockN = rsm.blockN, !.button = b]
  <2>1. PICK b \in Buttons : o = Outcome(w(b), rsm, stopped)
    BY <1>2 DEF Resumes
  <2> HIDE DEF w
  <2> QED BY <2>1 DEF Outcome
<1>3. CASE o \in Exits(v)
  BY <1>3 DEF Exits, Outcome
<1> QED BY <1>1, <1>2, <1>3 DEF Commands

(* What the machine is after a command, with its channel hopped or not.     *)
LEMMA AfterCommand ==
  ASSUME Typed, NEW v, Playable(v), NEW o \in Commands(v),
         Became(o) \/ \E n \in Nat : Became(Hop(o, n))
  PROVE  Playable(vm') /\ Kept(rsm') /\ stopped' \in BOOLEAN /\ SameCell(o.vm, vm')
<1>1. Playable(o.vm) /\ Kept(o.rsm) /\ o.stopped \in BOOLEAN /\ o.vm \in VmStates
  BY CommandsType DEF Typed, TypeOK, Running, Playable
<1>2. o = Outcome(o.vm, o.rsm, o.stopped)
  BY OutcomeForm
<1>3. CASE Became(o)
  BY <1>1, <1>3 DEF Became, SameCell
<1>4. CASE \E n \in Nat : Became(Hop(o, n))
  <2>1. PICK n \in Nat : Became(Hop(o, n)) BY <1>4
  <2> DEFINE h == [o.vm EXCEPT !.hop = @ + n]
  <2>2. Hop(o, n) = Outcome(h, o.rsm, o.stopped) /\ Playable(h) /\ SameCell(o.vm, h)
    <3>1. Hop(Outcome(o.vm, o.rsm, o.stopped), n) = Outcome(h, o.rsm, o.stopped)
      BY <1>1, HopType
    <3>2. Playable(h) /\ SameCell(o.vm, h)
      BY <1>1, HopType
    <3>3. Hop(o, n) = Hop(Outcome(o.vm, o.rsm, o.stopped), n)
      BY <1>2
    <3> QED BY <3>1, <3>2, <3>3
  <2> HIDE DEF h
  <2>3. vm' = h /\ rsm' = o.rsm /\ stopped' = o.stopped
    BY <2>1, <2>2 DEF Became, Outcome
  <2> QED BY <1>1, <2>2, <2>3
<1> QED BY <1>3, <1>4

(* A call leaves its types to what it changes: the machine, the position, *)
(* flags and its own progress.                                              *)
LEMMA CallTyped ==
  ASSUME Typed, Playable(vm') \/ (vm'.cell = None /\ vm' \in VmStates), Kept(rsm'), stopped' \in BOOLEAN,
         started' \in BOOLEAN, pos' \in Positions,
         last_cmd_nav_lbn' \in Int \cup {EndOfCell},
         {skip_still', sync_wait', sync_wait_skip'} \subseteq BOOLEAN,
         UNCHANGED <<file, vobu, pci, spu_clut_changed, step, told>>,
         ui' \in {"idle", "skip_still", "sync_wait", "sync_wait_skip", "press", "select",
                  "seek", "clear"},
         started' /\ ui' # "clear" => vm'.cell # None,
         step # "idle" => started' /\ ui' # "clear"
  PROVE  Typed'
<1>1. vm' \in VmStates BY DEF Playable
<1>2. rsm' \in [cell : Cells, blockN : Int] \cup {None} BY DEF Kept, Resumable
<1>3. TypeOK' BY <1>1, <1>2 DEF Typed, TypeOK
<1>4. Running' BY DEF Typed, Running, Kept, Playable
<1>5. (told \in ToldType)' BY DEF Typed, ToldType
<1> QED BY <1>3, <1>4, <1>5 DEF Typed

LEMMA UserTyped ==
  ASSUME Typed, UserCall
  PROVE  Typed'
<1>a. /\ vm \in VmStates /\ pos \in Positions /\ stopped \in BOOLEAN /\ started \in BOOLEAN
      /\ last_cmd_nav_lbn \in Int \cup {EndOfCell} /\ pci.lbn \in Int
      /\ skip_still \in BOOLEAN /\ sync_wait \in BOOLEAN /\ sync_wait_skip \in BOOLEAN
      /\ Kept(rsm) /\ (vm.cell # None => Playable(vm))
      /\ (started /\ ui # "clear" => vm.cell # None)
      /\ (step # "idle" => started /\ ui # "clear")
  BY DEF Typed, TypeOK, Running
<1>b. [pos EXCEPT !.still = FALSE] \in Positions
  BY <1>a, FieldsOfPos
<1>c. vm.cell = None \/ Playable(vm)
  BY <1>a
<1>1. CASE StillSkip
  BY <1>1, <1>a, <1>b, CallTyped DEF StillSkip, Begins, vmVars, navVars, flagVars, appVars
<1>2. CASE WaitSkip
  BY <1>2, <1>a, <1>b, CallTyped DEF WaitSkip, Begins, vmVars, navVars, flagVars, appVars
<1>3. CASE StopCall
  BY <1>3, <1>a, <1>b, CallTyped DEF StopCall, Begins, vmVars, navVars, flagVars, appVars
<1>4. CASE Reset
  <2>1. NoVM \in VmStates /\ NoVM.cell = None
    BY RestartAssumption, ButtonAssumption, StreamAssumption DEF NoVM, VmStates
  <2>2. Kept(None) BY DEF Kept
  <2> QED BY <1>4, <1>a, <2>1, <2>2, CallTyped DEF Reset, LockFree, navVars, flagVars, appVars
<1>5. CASE PartPlay
  <2>1. Playable(Now) /\ Now \in VmStates
    BY <1>5, <1>a, BootedType DEF PartPlay, Begins, Now, Playable
  <2>2. PICK c \in Cells : \E w \in Registers(Play(Now, c)) : vm' = [w EXCEPT !.hop = @ + 1]
    BY <1>5 DEF PartPlay
  <2>3. PICK w \in Registers(Play(Now, c)) : vm' = [w EXCEPT !.hop = @ + 1]
    BY <2>2
  <2>4. Playable(w) /\ w \in VmStates
    BY <2>1, PlayType, RegistersType DEF Playable
  <2>5. Playable(vm')
    BY <2>3, <2>4, HopType, 1 \in Nat, Zenon
  <2>6. vm'.cell # None /\ Kept(rsm')
    BY <1>5, <1>a, <2>5, NoneAssumption DEF Playable, PartPlay, Kept
  <2> QED BY <1>5, <1>a, <2>5, <2>6, CallTyped DEF PartPlay, Begins, LockFree, navVars, flagVars, appVars
<1>6. CASE GoUp
  <2>1. PICK o \in Commands(vm) : Became(o) BY <1>6 DEF GoUp
  <2>2. Playable(vm') /\ Kept(rsm') /\ stopped' \in BOOLEAN
    BY <1>6, <1>c, <2>1, AfterCommand DEF GoUp, HasCell
  <2>3. vm'.cell # None BY <2>2, NoneAssumption DEF Playable
  <2> QED BY <1>6, <1>a, <2>2, <2>3, CallTyped DEF GoUp, Begins, navVars, flagVars, appVars
<1>7. CASE PgSearch
  <2>1. PICK o \in Commands(vm) : Became(Hop(o, 1)) BY <1>7 DEF PgSearch
  <2>2. Playable(vm') /\ Kept(rsm') /\ stopped' \in BOOLEAN
    BY <1>7, <1>c, <2>1, 1 \in Nat, AfterCommand DEF PgSearch, HasCell
  <2>3. vm'.cell # None BY <2>2, NoneAssumption DEF Playable
  <2> QED BY <1>7, <1>a, <1>b, <2>2, <2>3, CallTyped DEF PgSearch, Begins, navVars, flagVars, appVars
<1>8. CASE MenuCall
  <2>0. Playable(vm) BY <1>8, <1>c DEF MenuCall, HasCell
  <2> DEFINE left == IF IsMenu(vm.cell) THEN rsm ELSE [cell |-> vm.cell, blockN |-> vm.blockN]
  <2>1. PICK o \in {Outcome(w, left, FALSE) : w \in UNION {Registers(Play(vm, c)) : c \in Cells}}
                   \cup Resumes(vm) : Became(Hop(o, 1))
    BY <1>8 DEF MenuCall
  <2>2. Kept(left)
    BY <1>a, <2>0, FieldsOfVm DEF Kept, Resumable, Playable
  <2> HIDE DEF left
  <2>3. Playable(vm') /\ Kept(rsm') /\ stopped' \in BOOLEAN
    <3>1. CASE o \in Resumes(vm)
      BY <2>0, <2>1, <3>1, 1 \in Nat, AfterCommand DEF Commands
    <3>2. CASE o \notin Resumes(vm)
      <4>1. PICK w \in UNION {Registers(Play(vm, c)) : c \in Cells} : o = Outcome(w, left, FALSE)
        BY <2>1, <3>2
      <4>2. PICK c \in Cells : w \in Registers(Play(vm, c)) BY <4>1
      <4>3. Playable(w) /\ w \in VmStates BY <1>a, <4>2, PlayType, RegistersType DEF Playable
      <4> DEFINE h == [w EXCEPT !.hop = @ + 1]
      <4>4. Playable(h) /\ Hop(o, 1) = Outcome(h, left, FALSE)
        <5>1. Hop(Outcome(w, left, FALSE), 1) = Outcome(h, left, FALSE)
          <6>1. \A r, s : Hop(Outcome(w, r, s), 1) = Outcome(h, r, s)
            BY <4>3, HoppedOnce
          <6> QED BY <6>1, Zenon
        <5>2. Playable(h)
          BY <4>3, HopType
        <5> QED BY <4>1, <5>1, <5>2
      <4> HIDE DEF h
      <4>5. vm' = h /\ rsm' = left /\ stopped' = FALSE
        BY <2>1, <4>4 DEF Became, Outcome
      <4> QED BY <2>2, <4>4, <4>5
    <3> QED BY <3>1, <3>2
  <2>4. vm'.cell # None BY <2>3, NoneAssumption DEF Playable
  <2> QED BY <1>8, <1>a, <1>b, <2>3, <2>4, CallTyped DEF MenuCall, Begins, navVars, flagVars, appVars
<1>9. CASE SeekBegins
  BY <1>9, <1>a, <1>c, CallTyped DEF SeekBegins, Begins, vmVars, navVars, flagVars, appVars
<1>10. CASE PressBegins
  BY <1>10, <1>a, <1>c, CallTyped DEF PressBegins, Begins, vmVars, navVars, flagVars, appVars
<1>11. CASE ActivateCmd
  <2>0. Playable(vm) BY <1>11, <1>c DEF ActivateCmd, HasCell
  <2>1. Playable(vm') /\ Kept(rsm') /\ stopped' \in BOOLEAN
    <3>1. CASE UNCHANGED <<vm, rsm, stopped>>
      BY <1>a, <2>0, <3>1 DEF Playable, Kept
    <3>2. CASE ~UNCHANGED <<vm, rsm, stopped>>
      <4>1. PICK b \in Buttons :
              LET v == [vm EXCEPT !.button = b] IN
              \E o \in {Hop(j, 1) : j \in Jumps(v) \cup Resumes(v)} \cup Exits(v)
                       \cup {Outcome(w, rsm, stopped) : w \in Registers(v)} : Became(o)
        BY <1>11, <3>2 DEF ActivateCmd
      <4> DEFINE v == [vm EXCEPT !.button = b]
      <4>2. Playable(v) /\ v \in VmStates BY <1>a, <2>0, FieldsType, Zenon
      <4>3. PICK o \in {Hop(j, 1) : j \in Jumps(v) \cup Resumes(v)} \cup Exits(v)
                       \cup {Outcome(w, rsm, stopped) : w \in Registers(v)} : Became(o)
        BY <4>1
      <4> HIDE DEF v
      <4>4. CASE o \in {Hop(j, 1) : j \in Jumps(v) \cup Resumes(v)}
        <5>1. PICK j \in Jumps(v) \cup Resumes(v) : o = Hop(j, 1) BY <4>4
        <5> QED BY <4>2, <4>3, <5>1, 1 \in Nat, AfterCommand DEF Commands
      <4>5. CASE o \in Exits(v)
        BY <4>2, <4>3, <4>5, AfterCommand DEF Commands
      <4>6. CASE o \in {Outcome(w, rsm, stopped) : w \in Registers(v)}
        <5>1. PICK w \in Registers(v) : o = Outcome(w, rsm, stopped) BY <4>6
        <5>2. Playable(w) BY <4>2, <5>1, RegistersType
        <5> QED BY <1>a, <4>3, <5>1, <5>2 DEF Became, Outcome
      <4> QED BY <4>3, <4>4, <4>5, <4>6
    <3> QED BY <3>1, <3>2
  <2>2. vm'.cell # None BY <2>1, NoneAssumption DEF Playable
  <2> QED BY <1>11, <1>a, <1>b, <2>1, <2>2, CallTyped DEF ActivateCmd, Begins, navVars, flagVars, appVars
<1>12. CASE Select
  <2>1. PICK b \in Buttons : vm' = [vm EXCEPT !.button = b] BY <1>12 DEF Select
  <2>2. vm' \in VmStates /\ SameCell(vm, vm') /\ (Playable(vm) => Playable(vm'))
    BY <1>a, <2>1, FieldsType, Zenon
  <2>3. Playable(vm') \/ (vm'.cell = None /\ vm' \in VmStates)
    BY <1>c, <2>2 DEF SameCell
  <2>4. vm'.cell = vm.cell BY <2>2 DEF SameCell
  <2> QED BY <1>12, <1>a, <2>3, <2>4, CallTyped DEF Select, Begins, navVars, flagVars, appVars
<1> QED BY <1>1, <1>2, <1>3, <1>4, <1>5, <1>6, <1>7, <1>8, <1>9, <1>10, <1>11, <1>12 DEF UserCall

LEMMA FinishTyped ==
  ASSUME Typed, Finish
  PROVE  Typed'
<1>a. /\ vm \in VmStates /\ pos \in Positions /\ stopped \in BOOLEAN /\ started \in BOOLEAN
      /\ last_cmd_nav_lbn \in Int \cup {EndOfCell} /\ pci.lbn \in Int
      /\ skip_still \in BOOLEAN /\ sync_wait \in BOOLEAN /\ sync_wait_skip \in BOOLEAN
      /\ Kept(rsm) /\ (vm.cell # None => Playable(vm))
      /\ (started /\ ui # "clear" => vm.cell # None)
      /\ (step # "idle" => started /\ ui # "clear")
  BY DEF Typed, TypeOK, Running
<1>b. [pos EXCEPT !.still = FALSE] \in Positions
  BY <1>a, FieldsOfPos
<1>c. vm.cell = None \/ Playable(vm)
  BY <1>a
<1>1. CASE SkipWrites
  BY <1>1, <1>a, <1>c, CallTyped DEF SkipWrites, Unlocked, vmVars, navVars, flagVars, appVars
<1>2. CASE Clear
  <2>1. NoPos \in Positions BY RestartAssumption DEF NoPos, Positions
  <2>2. NoPci \in [lbn : Int, menu : {"no", "plain", "buttons"}] BY DEF NoPci
  <2>3. TypeOK' BY <1>2, <2>1, <2>2 DEF Clear, Typed, TypeOK, appVars
  <2>4. Running' BY <1>2 DEF Clear, LockFree, Typed, Running, Kept, Playable
  <2>5. (told \in ToldType)' BY <1>2 DEF Clear, Typed, ToldType, appVars
  <2> QED BY <2>3, <2>4, <2>5 DEF Typed
<1>3. CASE Seek
  <2>1. UNCHANGED vm \/ (vm'.cell # None /\ Playable(vm'))
    <3>1. CASE UNCHANGED vm
      BY <3>1
    <3>2. CASE ~UNCHANGED vm
      <4>1. PICK c \in Cells : \E n \in Navs(c) :
              vm' = [Play(vm, c) EXCEPT !.blockN = n - Start(c), !.hop = @ + HopSeek]
        BY <1>3, <3>2 DEF Seek
      <4>2. PICK n \in Navs(c) :
              vm' = [Play(vm, c) EXCEPT !.blockN = n - Start(c), !.hop = @ + HopSeek]
        BY <4>1
      <4>3. Playable(Play(vm, c)) /\ Play(vm, c) \in VmStates BY <1>a, PlayType DEF Playable
      <4>4. n - Start(c) \in Int
        BY DiscFields, VobuAssumption DEF Navs
      <4> DEFINE w == [Play(vm, c) EXCEPT !.blockN = n - Start(c)]
      <4>5. Playable(w) /\ w \in VmStates
        BY <4>3, <4>4, FieldsType, Zenon
      <4>6. vm' = [w EXCEPT !.hop = @ + HopSeek]
        BY <4>2, <4>3 DEF VmStates
      <4> HIDE DEF w
      <4>7. Playable(vm')
        BY <4>5, <4>6, HopAssumption, HopType
      <4> QED BY <4>7, NoneAssumption DEF Playable
    <3> QED BY <3>1, <3>2
  <2> QED BY <1>3, <1>a, <1>c, <2>1, CallTyped DEF Seek, LockFree, navVars, flagVars, appVars
<1>4. CASE Press
  <2>1. CASE PressJumps
    <3>1. Playable(vm) BY <1>c, <2>1 DEF PressJumps, HasCell
    <3>2. PICK o \in Jumps(vm) \cup Resumes(vm) : Became(Hop(o, 1)) BY <2>1 DEF PressJumps
    <3>3. Playable(vm') /\ Kept(rsm') /\ stopped' \in BOOLEAN
      BY <3>1, <3>2, 1 \in Nat, AfterCommand DEF Commands
    <3>4. vm'.cell # None BY <3>3, NoneAssumption DEF Playable
    <3> QED BY <1>4, <1>a, <1>b, <2>1, <3>3, <3>4, CallTyped
            DEF Press, LockFree, PressJumps, navVars, flagVars, appVars
  <2>2. CASE PressStays
    <3>1. Playable(vm) BY <1>c, <2>2 DEF PressStays, HasCell
    <3>2. PICK o \in Exits(vm) \cup {Outcome(w, rsm, stopped) : w \in Registers(vm)} : Became(o)
      BY <2>2 DEF PressStays
    <3>3. Playable(vm') /\ Kept(rsm') /\ stopped' \in BOOLEAN
      <4>1. CASE o \in Exits(vm)
        BY <3>1, <3>2, <4>1, AfterCommand DEF Commands
      <4>2. CASE o \notin Exits(vm)
        <5>1. PICK w \in Registers(vm) : o = Outcome(w, rsm, stopped) BY <3>2, <4>2
        <5>2. Playable(w) BY <1>a, <3>1, <5>1, RegistersType
        <5> QED BY <1>a, <3>2, <5>1, <5>2 DEF Became, Outcome
      <4> QED BY <4>1, <4>2
    <3>4. vm'.cell # None BY <3>3, NoneAssumption DEF Playable
    <3> QED BY <1>4, <1>a, <2>2, <3>3, <3>4, CallTyped
            DEF Press, LockFree, PressStays, navVars, flagVars, appVars
  <2>3. CASE PressLeaves
    <3>1. Playable(vm) BY <1>c, <2>3 DEF PressLeaves, HasCell
    <3>2. PICK o \in Commands(vm) : Became(o) BY <2>3 DEF PressLeaves
    <3>3. Playable(vm') /\ Kept(rsm') /\ stopped' \in BOOLEAN
      BY <3>1, <3>2, AfterCommand
    <3>4. vm'.cell # None BY <3>3, NoneAssumption DEF Playable
    <3> QED BY <1>4, <1>a, <1>b, <2>3, <3>3, <3>4, CallTyped
            DEF Press, LockFree, PressLeaves, navVars, flagVars, appVars
  <2>4. CASE PressFails
    BY <1>4, <1>a, <1>c, <2>4, CallTyped
       DEF Press, LockFree, PressFails, navVars, flagVars, appVars
  <2> QED BY <1>4, <2>1, <2>2, <2>3, <2>4 DEF Press
<1>5. CASE ForceHighlight
  <2>1. [pos EXCEPT !.button = -1] \in Positions BY <1>a, FieldsOfPos
  <2> QED BY <1>5, <1>a, <1>c, <2>1, CallTyped
          DEF ForceHighlight, Unlocked, vmVars, navVars, flagVars, appVars
<1> QED BY <1>1, <1>2, <1>3, <1>4, <1>5 DEF Finish

LEMMA NextTyped == Typed /\ [Next]_vars => Typed'
<1> SUFFICES ASSUME Typed, [Next]_vars PROVE Typed'
  OBVIOUS
<1>1. CASE GetNextBlock BY <1>1, EngineTyped
<1>2. CASE UserCall BY <1>2, UserTyped
<1>3. CASE Finish BY <1>3, FinishTyped
<1>4. CASE UNCHANGED vars
  BY <1>4 DEF vars, vmVars, navVars, flagVars, appVars, Typed, TypeOK, Running, Kept, Playable
<1> QED BY <1>1, <1>2, <1>3, <1>4 DEF Next

(* The engine's state keeps its types: whatever the application calls and *)
(* wherever the disc jumps, the machine is in a cell of the disc whose VTS  *)
(* it carries while the handle is started, and resume information is of a   *)
(* title's cell.                                                            *)
THEOREM TypeCorrect == Spec => []TypeOK
<1>1. Spec => []Typed
  BY InitTyped, NextTyped, PTL DEF Spec
<1>2. Typed => TypeOK
  BY DEF Typed
<1> QED BY <1>1, <1>2, PTL

=============================================================================
