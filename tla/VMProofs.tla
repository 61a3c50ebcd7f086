------------------------------- MODULE VMProofs -------------------------------
(***************************************************************************)
(* What holds of the virtual machine on every disc that uses commands      *)
(* where DVD-Video allows them (the assumptions of VMInv): the assertions  *)
(* of vm.c that AssertsHold lists hold, whenever a call has returned the   *)
(* machine is stopped or plays a cell, calls on a copy never stop it,      *)
(* menus resume where the title was left, the registers agree with what    *)
(* plays, and a part asked for is played.                                  *)
(***************************************************************************)
EXTENDS VMInv, WellFoundedInduction, TLAPS

-----------------------------------------------------------------------------
(* Least elements *)

(* Every set of naturals has a least element. *)
LEMMA LeastNatural ==
  ASSUME NEW S \in SUBSET Nat, S # {}
  PROVE  \E n \in S : \A m \in S : n <= m
<1>1. IsWellFoundedOn(OpToRel(<, Nat), Nat)
  BY NatLessThanWellFounded
<1>2. \E n \in S : \A m \in S : <<m, n>> \notin OpToRel(<, Nat)
  BY <1>1, WFMin
<1>3. \A m, n \in Nat : m < n => <<m, n>> \in OpToRel(<, Nat)
  BY DEF OpToRel
<1>4. PICK n \in S : \A m \in S : <<m, n>> \notin OpToRel(<, Nat)
  BY <1>2
<1>5. \A m \in S : ~(m < n)
  BY <1>3, <1>4
<1>6. \A m \in S : n <= m
  BY <1>5
<1> QED BY <1>6

(* First is the least number of a set, 0 of the empty one. *)
LEMMA FirstIsLeast ==
  ASSUME NEW S \in SUBSET Nat
  PROVE  /\ First(S) \in S \cup {0}
         /\ S # {} => First(S) \in S /\ \A j \in S : First(S) <= j
<1>1. CASE S = {}
  BY <1>1 DEF First
<1>2. CASE S # {}
  BY <1>2, LeastNatural DEF First
<1> QED BY <1>1, <1>2

-----------------------------------------------------------------------------
(* The disc *)

(* Title sets are numbered from 1: neither no title set (-1) nor the       *)
(* manager (0).                                                            *)
LEMMA VtsAreNumbers ==
  /\ Vts \subseteq Nat \ {0} /\ 0 \notin Vts /\ -1 \notin Vts
  /\ \A n \in Vts : n \in Nat /\ n > 0
<1>1. Vts \subseteq Nat \ {0}
  BY TableAssumption
<1>2. \A n \in Vts : n \in Nat /\ n > 0
  BY <1>1
<1> QED BY <1>1, <1>2

(* Elements of sequences. *)
LEMMA ElementOf ==
  ASSUME NEW R, NEW s \in Seq(R), NEW i \in DOMAIN s
  PROVE  i \in Nat \ {0} /\ i \in 1..Len(s) /\ Len(s) \in Nat /\ s[i] \in R
OBVIOUS

(* Pgcit[t][n] is a chain that fits. *)
LEMMA ChainOfTable ==
  ASSUME NEW t \in DOMAIN Pgcit, NEW n \in DOMAIN Pgcit[t]
  PROVE  /\ n \in Nat \ {0}
         /\ Pgcit[t][n] \in ChainType
         /\ ProgramsFit(Pgcit[t][n]) /\ CommandsFit(t, Pgcit[t][n]) /\ PrevFits(t, Pgcit[t][n])
<1>1. Pgcit[t] \in Seq(ChainType)
  BY TableAssumption
<1>2. n \in Nat \ {0} /\ Pgcit[t][n] \in ChainType
  BY <1>1
<1> QED BY <1>2, ChainAssumption

(* The fields of a chain, one by one. *)
LEMMA ChainFields ==
  ASSUME NEW p \in ChainType
  PROVE  /\ p.map \in Seq(Nat) /\ Len(p.map) \in Nat /\ DOMAIN p.map = 1..Len(p.map)
         /\ p.cells \in Seq(CellType) /\ Len(p.cells) \in Nat /\ DOMAIN p.cells = 1..Len(p.cells)
         /\ \A i \in DOMAIN p.cells : /\ p.cells[i].block \in {"normal", "first", "in"}
                                      /\ p.cells[i].cmd \subseteq LinkType
         /\ p.prev \in Nat /\ p.next \in Nat /\ p.goup \in Nat /\ p.id \in Nat
         /\ p.pre \subseteq LinkType /\ p.post \subseteq LinkType /\ p.buttons \subseteq LinkType
         /\ (p.map = <<>> <=> Len(p.map) = 0) /\ (p.cells = <<>> <=> Len(p.cells) = 0)
<1>1. p.map \in Seq(Nat) /\ p.cells \in Seq(CellType)
  BY DEF ChainType
<1>2. \A i \in DOMAIN p.cells : p.cells[i] \in CellType
  BY <1>1
<1>3. \A i \in DOMAIN p.cells : /\ p.cells[i].block \in {"normal", "first", "in"}
                                /\ p.cells[i].cmd \subseteq LinkType
  BY <1>2 DEF CellType
<1>4. /\ p.prev \in Nat /\ p.next \in Nat /\ p.goup \in Nat /\ p.id \in Nat
      /\ p.pre \subseteq LinkType /\ p.post \subseteq LinkType /\ p.buttons \subseteq LinkType
  BY DEF ChainType
<1>5. (p.map = <<>> <=> Len(p.map) = 0) /\ (p.cells = <<>> <=> Len(p.cells) = 0)
  BY <1>1
<1> QED BY <1>1, <1>3, <1>4, <1>5

(* A part begins in a chain of its VTS. *)
LEMMA PartInTable ==
  ASSUME NEW vts, NEW ttn, NEW part, HasPart(vts, ttn, part)
  PROVE  LET q == Ptts[vts][ttn][part]
             t == <<"title", vts>>
         IN  /\ vts \in Vts /\ ttn \in Nat \ {0} /\ part \in Nat \ {0} /\ part \in Parts
             /\ q.pgcn \in Nat /\ q.pgn \in Nat
             /\ t \in DOMAIN Pgcit /\ q.pgcn \in DOMAIN Pgcit[t]
             /\ q.pgn \in 1..(Len(Pgcit[t][q.pgcn].map) + 1)
<1> DEFINE q == Ptts[vts][ttn][part]
           t == <<"title", vts>>
<1>1. vts \in Vts /\ ttn \in DOMAIN Ptts[vts] /\ part \in DOMAIN Ptts[vts][ttn]
  BY DEF HasPart, Vts
<1>2. Ptts[vts] \in Seq(Seq([pgcn : Nat, pgn : Nat]))
  BY <1>1, TableAssumption
<1>3. ttn \in Nat \ {0} /\ Ptts[vts][ttn] \in Seq([pgcn : Nat, pgn : Nat])
  BY <1>1, <1>2, ElementOf
<1>4. part \in Nat \ {0} /\ q \in [pgcn : Nat, pgn : Nat]
  BY <1>1, <1>3, ElementOf
<1>5. part \in Parts
  <2>1. part \in UNION {DOMAIN Ptts[vts][s] : s \in DOMAIN Ptts[vts]}
    BY <1>1
  <2> QED BY <1>1, <2>1 DEF Parts
<1>6. t \in DOMAIN Pgcit /\ q.pgcn \in DOMAIN Pgcit[t] /\ PartFits(Pgcit[t][q.pgcn], q.pgn)
  BY <1>1, PartAssumption
<1>7. Len(Pgcit[t][q.pgcn].map) \in Nat /\ (Pgcit[t][q.pgcn].map = <<>> <=> Len(Pgcit[t][q.pgcn].map) = 0)
  BY <1>6, ChainOfTable, ChainFields
<1>8. q.pgn \in 1..(Len(Pgcit[t][q.pgcn].map) + 1)
  BY <1>4, <1>6, <1>7 DEF PartFits
<1> QED BY <1>1, <1>3, <1>4, <1>5, <1>6, <1>8

(* get_TT names a title of the disc or 0. *)
LEMMA TitleNumbers ==
  ASSUME NEW vts, NEW ttn
  PROVE  TT(vts, ttn) \in 0..Len(Titles)
<1>1. Titles \in Seq([vts : Nat, ttn : Nat])
  BY TableAssumption
<1> DEFINE S == {i \in DOMAIN Titles : Titles[i] = [vts |-> vts, ttn |-> ttn]}
<1>2. S \in SUBSET Nat /\ S \subseteq 1..Len(Titles) /\ Len(Titles) \in Nat
  BY <1>1
<1>3. First(S) \in S \cup {0}
  BY <1>2, FirstIsLeast
<1> QED BY <1>2, <1>3 DEF TT
-----------------------------------------------------------------------------
(* The machine *)

(* The fields of a machine, one by one. *)
LEMMA MachineFields ==
  ASSUME NEW v \in Machine
  PROVE  /\ v.domain \in Domains /\ v.vtsN \in {-1} \cup Vts /\ v.vtsi \in {0} \cup Vts
         /\ v.pgc \in (DOMAIN Pgcit) \X Nat /\ v.pgcN \in Nat /\ v.pgN \in Nat /\ v.cellN \in Nat
         /\ v.blockN \in Blocks /\ v.regs \in Regs /\ v.rsm \in Rsm /\ v.stopped \in BOOLEAN
         /\ v.regs.ttn \in 0..Len(Titles) /\ v.regs.vts_ttn \in Nat /\ v.regs.tt_pgcn \in Nat
         /\ v.rsm.vtsN \in {0} \cup Vts /\ v.rsm.pgcN \in Nat /\ v.rsm.cellN \in Nat
         /\ v.rsm.blockN \in Blocks /\ v.rsm.regs \in Regs
<1>1. /\ v.domain \in Domains /\ v.vtsN \in {-1} \cup Vts /\ v.vtsi \in {0} \cup Vts
      /\ v.pgc \in (DOMAIN Pgcit) \X Nat /\ v.pgcN \in Nat /\ v.pgN \in Nat /\ v.cellN \in Nat
      /\ v.blockN \in Blocks /\ v.regs \in Regs /\ v.rsm \in Rsm /\ v.stopped \in BOOLEAN
  BY DEF Machine
<1>2. v.regs.ttn \in 0..Len(Titles) /\ v.regs.vts_ttn \in Nat /\ v.regs.tt_pgcn \in Nat
  BY <1>1 DEF Regs
<1>3. /\ v.rsm.vtsN \in {0} \cup Vts /\ v.rsm.pgcN \in Nat /\ v.rsm.cellN \in Nat
      /\ v.rsm.blockN \in Blocks /\ v.rsm.regs \in Regs
  BY <1>1 DEF Rsm
<1> QED BY <1>1, <1>2, <1>3

(* w is v at another program, cell or block of the same chain. *)
SameChain(v, w) ==
  /\ w.domain = v.domain /\ w.vtsN = v.vtsN /\ w.vtsi = v.vtsi
  /\ w.pgc = v.pgc /\ w.pgcN = v.pgcN
Moved(v, w) == w \in Machine /\ SameChain(v, w) /\ w.rsm = v.rsm /\ w.stopped = v.stopped

(* What depends on the chain only is the same after a move within it. *)
LEMMA MovedKeeps ==
  ASSUME NEW v \in Machine, NEW w, Moved(v, w)
  PROVE  /\ Pgc(w) = Pgc(v) /\ Cells(w) = Cells(v) /\ NrOfPrograms(w) = NrOfPrograms(v)
         /\ Table(w) = Table(v) /\ (HasTable(w) <=> HasTable(v)) /\ GetPgcn(w) = GetPgcn(v)
         /\ \A n : HasPgcn(w, n) <=> HasPgcn(v, n)
         /\ InChain(w) <=> InChain(v)
         /\ RsmOK(w) <=> RsmOK(v)
<1>1. Table(w) = Table(v)
  BY DEF Moved, SameChain, Table
<1>2. Pgc(w) = Pgc(v)
  BY DEF Moved, SameChain, Pgc
<1>3. HasTable(w) <=> HasTable(v)
  BY <1>1 DEF HasTable
<1>4. \A n : HasPgcn(w, n) <=> HasPgcn(v, n)
  BY <1>1, <1>3 DEF HasPgcn
<1>5. GetPgcn(w) = GetPgcn(v)
  BY <1>1, <1>3 DEF GetPgcn, Moved, SameChain
<1>6. InChain(w) <=> InChain(v)
  BY <1>1, <1>4 DEF InChain, Moved, SameChain
<1>7. RsmOK(w) <=> RsmOK(v)
  BY DEF RsmOK, Moved
<1> QED BY <1>1, <1>2, <1>3, <1>4, <1>5, <1>6, <1>7 DEF Cells, NrOfPrograms

(* The chain of a machine that is in one. *)
LEMMA ChainOf ==
  ASSUME NEW v \in Machine, InChain(v)
  PROVE  /\ v.pgc[1] \in DOMAIN Pgcit /\ v.pgc[2] \in DOMAIN Pgcit[v.pgc[1]]
         /\ Pgc(v) \in ChainType /\ ProgramsFit(Pgc(v)) /\ CommandsFit(v.pgc[1], Pgc(v))
         /\ PrevFits(v.pgc[1], Pgc(v))
         /\ Cells(v) \in Nat /\ NrOfPrograms(v) \in Nat
         /\ v.pgc[1][1] = v.domain
         /\ v.domain = "fp" => v.pgc[1] = FP
         /\ v.domain # "fp" => v.pgc[1] = Table(v) /\ v.pgc[2] = v.pgcN /\ GetPgcn(v) = v.pgcN
         /\ v.domain # "fp" => HasTable(v) /\ v.pgcN \in Nat \ {0}
         /\ v.domain \in {"title", "vtsm"} => v.vtsN \in Vts /\ v.vtsi = v.vtsN /\ Table(v) = <<v.domain, v.vtsN>>
         /\ v.domain \in {"title", "vtsm"} => v.pgc[1][2] = v.vtsN
         /\ v.domain \notin {"title", "vtsm"} => Table(v) = VmgmTable
<1>1. v.domain \in Domains /\ v.vtsN \in {-1} \cup Vts /\ v.vtsi \in {0} \cup Vts
  BY MachineFields
<1>2. v.pgc[1] \in DOMAIN Pgcit /\ v.pgc[2] \in DOMAIN Pgcit[v.pgc[1]]
  <2>1. CASE v.domain = "fp"
    BY <2>1, DiscAssumption, ChainAssumption DEF InChain, FirstPlayFits
  <2>2. CASE v.domain # "fp"
    BY <2>2 DEF InChain, HasPgcn, HasTable
  <2> QED BY <2>1, <2>2
<1>3. /\ Pgc(v) \in ChainType /\ ProgramsFit(Pgc(v)) /\ CommandsFit(v.pgc[1], Pgc(v))
      /\ PrevFits(v.pgc[1], Pgc(v))
  BY <1>2, ChainOfTable DEF Pgc
<1>4. Cells(v) \in Nat /\ NrOfPrograms(v) \in Nat
  BY <1>3, ChainFields DEF Cells, NrOfPrograms
<1>5. v.domain # "fp" => /\ v.pgc[1] = Table(v) /\ v.pgc[2] = v.pgcN /\ HasTable(v)
                         /\ GetPgcn(v) = v.pgcN
  BY DEF InChain, HasPgcn, GetPgcn
<1>6. v.domain # "fp" => v.pgcN \in Nat \ {0}
  BY <1>2, <1>5, ChainOfTable
<1>7. v.domain \in {"title", "vtsm"} => v.vtsN \in Vts /\ v.vtsi = v.vtsN
  BY <1>1, VtsAreNumbers DEF InChain
<1>8. v.pgc[1][1] = v.domain
  BY <1>1, <1>5 DEF InChain, Table, FP, Domains
<1>9. v.domain \in {"title", "vtsm"} => Table(v) = <<v.domain, v.vtsN>> /\ v.pgc[1][2] = v.vtsN
  BY <1>5, <1>7 DEF Table
<1>10. v.domain \notin {"title", "vtsm"} => Table(v) = VmgmTable
  BY DEF Table, VmgmTable
<1>11. v.domain = "fp" => v.pgc[1] = FP
  BY DEF InChain
<1> QED BY <1>2, <1>3, <1>4, <1>5, <1>6, <1>7, <1>8, <1>9, <1>10, <1>11

(* The chain of a table that v's domain has. *)
LEMMA SetPgcnEnters ==
  ASSUME NEW v \in Machine, NEW n, v.domain # "fp", HasPgcn(v, n),
         v.domain \in {"title", "vtsm"} => v.vtsi = v.vtsN
  PROVE  LET w == SetPgcn(v, n)
         IN  /\ w \in Machine /\ InChain(w) /\ w.pgN = 1 /\ w.pgcN = n /\ w.pgc = <<Table(v), n>>
             /\ w.domain = v.domain /\ w.vtsN = v.vtsN /\ w.vtsi = v.vtsi /\ w.cellN = v.cellN
             /\ w.blockN = v.blockN /\ w.rsm = v.rsm /\ w.stopped = v.stopped
             /\ Table(w) = Table(v) /\ Pgc(w) = Pgcit[Table(v)][n]
             /\ w.regs.ttn = v.regs.ttn /\ w.regs.vts_ttn = v.regs.vts_ttn /\ w.regs.pttn = v.regs.pttn
             /\ w.regs.tt_pgcn = IF v.domain = "title" THEN n ELSE v.regs.tt_pgcn
<1> DEFINE w == SetPgcn(v, n)
<1>1. Table(v) \in DOMAIN Pgcit /\ n \in DOMAIN Pgcit[Table(v)] /\ n \in Nat
  BY ChainOfTable DEF HasPgcn, HasTable
<1>2. v.regs \in Regs
  BY MachineFields
<1>3. [v.regs EXCEPT !.tt_pgcn = IF v.domain = "title" THEN n ELSE @] \in Regs
  BY <1>1, <1>2 DEF Regs
<1>4. w = [v EXCEPT !.pgc = <<Table(v), n>>, !.pgcN = n, !.pgN = 1,
                    !.regs = [v.regs EXCEPT !.tt_pgcn = IF v.domain = "title" THEN n ELSE @]]
  BY DEF SetPgcn, Machine
<1> HIDE DEF w
<1>5. w \in Machine /\ w.pgN = 1 /\ w.pgcN = n /\ w.pgc = <<Table(v), n>>
      /\ w.domain = v.domain /\ w.vtsN = v.vtsN /\ w.vtsi = v.vtsi /\ w.cellN = v.cellN
      /\ w.blockN = v.blockN /\ w.rsm = v.rsm /\ w.stopped = v.stopped
      /\ w.regs = [v.regs EXCEPT !.tt_pgcn = IF v.domain = "title" THEN n ELSE @]
  BY <1>1, <1>3, <1>4 DEF Machine
<1>6. Table(w) = Table(v)
  BY <1>5 DEF Table
<1>7. InChain(w)
  BY <1>1, <1>5, <1>6 DEF InChain, HasPgcn, HasTable
<1>8. /\ w.regs.ttn = v.regs.ttn /\ w.regs.vts_ttn = v.regs.vts_ttn /\ w.regs.pttn = v.regs.pttn
      /\ w.regs.tt_pgcn = IF v.domain = "title" THEN n ELSE v.regs.tt_pgcn
  BY <1>2, <1>5 DEF Regs
<1>9. Pgc(w) = Pgcit[Table(v)][n]
  BY <1>5 DEF Pgc
<1> QED BY <1>5, <1>6, <1>7, <1>8, <1>9 DEF w

(* The program of a cell: all programs up to it begin no later, the next   *)
(* one begins behind the cell.                                             *)
LEMMA ProgramOfCell ==
  ASSUME NEW v \in Machine, InChain(v)
  PROVE  /\ ProgramOf(v) \in 0..NrOfPrograms(v)
         /\ \A i \in 1..ProgramOf(v) : v.cellN >= Pgc(v).map[i]
         /\ ProgramOf(v) < NrOfPrograms(v) => v.cellN < Pgc(v).map[ProgramOf(v) + 1]
         /\ v.cellN > 0 /\ NrOfPrograms(v) > 0 => ProgramOf(v) > 0
<1> DEFINE N == NrOfPrograms(v)
           m == Pgc(v).map
           S == {n \in 0..N : n = N \/ v.cellN < m[n + 1]}
           P(n) == /\ \A i \in 1..n : v.cellN >= m[i]
                   /\ n < N => v.cellN < m[n + 1]
<1>1. N \in Nat /\ m \in Seq(Nat) /\ Len(m) = N /\ v.cellN \in Nat
  BY ChainOf, ChainFields, MachineFields DEF NrOfPrograms
<1>2. \A i \in 1..N : m[i] \in Nat
  BY <1>1
<1> HIDE DEF N, m
<1>3. N \in S /\ S \in SUBSET Nat
  BY <1>1 DEF S
<1>4. PICK k \in S : \A j \in S : k <= j
  BY <1>3, LeastNatural
<1>5. k \in 0..N /\ \A i \in 1..k : v.cellN >= m[i]
  <2>1. k \in 0..N
    BY <1>4
  <2>2. ASSUME NEW i \in 1..k PROVE v.cellN >= m[i]
    <3>1. i - 1 \in 0..N /\ i - 1 < k /\ i - 1 # N /\ i \in 1..N
      BY <1>1, <2>1
    <3>2. i - 1 \notin S
      BY <1>3, <1>4, <3>1
    <3>3. ~(v.cellN < m[(i - 1) + 1])
      BY <3>1, <3>2
    <3> QED BY <1>1, <1>2, <3>1, <3>3
  <2> QED BY <2>1, <2>2
<1>6. P(k)
  BY <1>4, <1>5
<1>7. ProgramOf(v) = CHOOSE n \in 0..N : P(n)
  BY DEF ProgramOf, N, m
<1>8. ProgramOf(v) \in 0..N /\ P(ProgramOf(v))
  BY <1>5, <1>6, <1>7
<1>9. ASSUME v.cellN > 0, N > 0 PROVE ProgramOf(v) > 0
  <2>1. m # <<>> /\ ProgramsFit(Pgc(v))
    BY <1>1, <1>9, ChainOf
  <2>2. m[1] = 1
    BY <2>1 DEF ProgramsFit, m
  <2> QED BY <1>1, <1>8, <1>9, <2>2
<1> QED BY <1>8, <1>9 DEF N, m

(* A machine in a cell of its chain is in one of its programs, and plays   *)
(* if its program is the cell's.                                           *)
LEMMA PlaysWhere ==
  ASSUME NEW v \in Machine, InChain(v), v.cellN \in 1..Cells(v)
  PROVE  /\ ProgramOf(v) \in 1..NrOfPrograms(v) /\ v.domain # "fp"
         /\ v.pgN = ProgramOf(v) => Plays(v)
<1>1. Pgc(v).cells # <<>> /\ Pgc(v).map # <<>> /\ NrOfPrograms(v) \in Nat /\ NrOfPrograms(v) > 0 /\ v.cellN > 0
  BY ChainOf, ChainFields, MachineFields DEF ProgramsFit, NrOfPrograms, Cells
<1>2. v.domain # "fp"
  <2>1. v.domain = "fp" => Pgc(v) = Pgcit[FP][1]
    BY DEF InChain, Pgc
  <2> QED BY <1>1, <2>1, ChainAssumption DEF FirstPlayFits
<1>3. ProgramOf(v) \in 1..NrOfPrograms(v)
  BY <1>1, ProgramOfCell
<1>4. v.pgN = ProgramOf(v) => Plays(v)
  BY <1>2, ChainOf DEF Plays, InChain, HasPgcn
<1> QED BY <1>2, <1>3, <1>4

(* A machine that plays is in a program and a cell, and can be copied. *)
LEMMA PlaysIn ==
  ASSUME NEW v \in Machine, InChain(v), Plays(v)
  PROVE  /\ v.cellN \in 1..Cells(v) /\ v.pgN \in 1..NrOfPrograms(v) /\ v.domain # "fp"
         /\ CanCopy(v)
<1>1. v.cellN \in 1..Cells(v) /\ v.pgN = ProgramOf(v)
  BY DEF Plays
<1>2. v.pgN \in 1..NrOfPrograms(v) /\ v.domain # "fp"
  BY <1>1, PlaysWhere
<1>3. CanCopy(v)
  BY <1>2, ChainOf DEF CanCopy
<1> QED BY <1>1, <1>2, <1>3
-----------------------------------------------------------------------------
(* What the operators of the machine return *)

(* The program is determined by the chain and the cell. *)
LEMMA SameProgram ==
  ASSUME NEW v, NEW w, Pgc(w) = Pgc(v), w.cellN = v.cellN
  PROVE  ProgramOf(w) = ProgramOf(v)
BY DEF ProgramOf, NrOfPrograms

(* vm_get_current_title_part reports a part of the disc or 0. *)
LEMMA PartReported ==
  ASSUME NEW v, v.vtsi \in Vts
  PROVE  CurrentPart(v).part \in Parts
<1> DEFINE parts(t) == {p \in DOMAIN Ptts[v.vtsi][t] : Finds(v, t, p)}
           T == {s \in DOMAIN Ptts[v.vtsi] : parts(s) # {}}
           t == First(T)
           p == First(parts(t))
<1>1. Ptts[v.vtsi] \in Seq(Seq([pgcn : Nat, pgn : Nat]))
  BY TableAssumption
<1>2. T \in SUBSET Nat /\ 0 \notin T
  BY <1>1, ElementOf
<1>3. CASE t = 0
  BY <1>3 DEF CurrentPart, Parts
<1>4. CASE t # 0
  <2>1. t \in DOMAIN Ptts[v.vtsi] /\ parts(t) # {}
    BY <1>2, <1>4, FirstIsLeast
  <2> HIDE DEF t, T
  <2>2. Ptts[v.vtsi][t] \in Seq([pgcn : Nat, pgn : Nat])
    BY <1>1, <2>1, ElementOf
  <2>3. parts(t) \in SUBSET Nat
    BY <2>2, ElementOf
  <2>4. p \in parts(t)
    BY <2>1, <2>3, FirstIsLeast
  <2>5. p \in 1..Len(Ptts[v.vtsi][t]) /\ Len(Ptts[v.vtsi][t]) \in Nat
        /\ DOMAIN Ptts[v.vtsi][t] = 1..Len(Ptts[v.vtsi][t])
    BY <2>2, <2>4
  <2>6. p - 1 \in {0} \cup DOMAIN Ptts[v.vtsi][t] /\ p \in DOMAIN Ptts[v.vtsi][t]
    BY <2>5
  <2>7. DOMAIN Ptts[v.vtsi][t] \subseteq UNION {DOMAIN Ptts[v.vtsi][s] : s \in DOMAIN Ptts[v.vtsi]}
    BY <2>1
  <2>8. {0} \cup DOMAIN Ptts[v.vtsi][t] \subseteq Parts
    BY <2>7 DEF Parts
  <2>9. CurrentPart(v).part = IF Begins(v, t, p) THEN p ELSE p - 1
    BY <1>4 DEF CurrentPart, t, T
  <2> HIDE DEF p
  <2> QED BY <2>6, <2>8, <2>9
<1> QED BY <1>3, <1>4

(* w is v but for registers. *)
Same(v, w) == Moved(v, w) /\ w.pgN = v.pgN /\ w.cellN = v.cellN /\ w.blockN = v.blockN

(* Selecting a button changes HL_BTNN_REG only. *)
LEMMA SelectKeeps ==
  ASSUME NEW v \in Machine, NEW b \in Nat
  PROVE  /\ Same(v, Select(v, b))
         /\ Select(v, b).regs.ttn = v.regs.ttn /\ Select(v, b).regs.vts_ttn = v.regs.vts_ttn
         /\ Select(v, b).regs.tt_pgcn = v.regs.tt_pgcn /\ Select(v, b).regs.pttn = v.regs.pttn
<1>1. v.regs \in Regs
  BY MachineFields
<1>2. CASE b = 0
  BY <1>2 DEF Select, Same, Moved, SameChain
<1>3. CASE b # 0
  <2> DEFINE r == [v.regs EXCEPT !.btn = b]
  <2>1. r \in Regs /\ r.ttn = v.regs.ttn /\ r.vts_ttn = v.regs.vts_ttn
        /\ r.tt_pgcn = v.regs.tt_pgcn /\ r.pttn = v.regs.pttn
    BY <1>1 DEF Regs
  <2>2. Select(v, b) = [v EXCEPT !.regs = r]
    BY <1>3 DEF Select, Machine
  <2> HIDE DEF r
  <2>3. [v EXCEPT !.regs = r] \in Machine
    BY <2>1 DEF Machine
  <2>4. Same(v, [v EXCEPT !.regs = r]) /\ [v EXCEPT !.regs = r].regs = r
    BY <2>3 DEF Machine, Same, Moved, SameChain
  <2> QED BY <2>1, <2>2, <2>4
<1> QED BY <1>2, <1>3

(* set_PGN sets the program of the cell, and the part in a title. *)
LEMMA SetPgnMoves ==
  ASSUME NEW v \in Machine, InChain(v)
  PROVE  LET w == SetPgn(v)
         IN  /\ Moved(v, w) /\ w.cellN = v.cellN /\ w.blockN = v.blockN /\ w.pgN = ProgramOf(v)
             /\ v.cellN \in 1..Cells(v) => Plays(w)
             /\ w.regs.ttn = v.regs.ttn /\ w.regs.vts_ttn = v.regs.vts_ttn
             /\ w.regs.tt_pgcn = v.regs.tt_pgcn
             /\ v.domain = "title" => w.regs.pttn = CurrentPart([v EXCEPT !.pgN = ProgramOf(v)]).part
<1> DEFINE w == SetPgn(v)
           u == [v EXCEPT !.pgN = ProgramOf(v)]
           part == CurrentPart(u).part
           r == [u.regs EXCEPT !.pttn = part]
<1>1. ProgramOf(v) \in Nat
  BY ProgramOfCell, ChainOf
<1>2. u \in Machine /\ u.pgN = ProgramOf(v) /\ u.cellN = v.cellN /\ u.blockN = v.blockN /\ u.regs = v.regs
      /\ u.vtsi = v.vtsi /\ Moved(v, u)
  BY <1>1 DEF Machine, Moved, SameChain
<1>3. v.domain = "title" => part \in Parts
  BY <1>2, PartReported, ChainOf
<1>4. v.regs \in Regs
  BY MachineFields
<1>5. w = IF v.domain = "title" THEN [u EXCEPT !.regs.pttn = part] ELSE u
  BY DEF SetPgn
<1> HIDE DEF w, u, part
<1> DEFINE Set == /\ Moved(v, w) /\ w.cellN = v.cellN /\ w.blockN = v.blockN /\ w.pgN = ProgramOf(v)
                  /\ w.regs.ttn = v.regs.ttn /\ w.regs.vts_ttn = v.regs.vts_ttn
                  /\ w.regs.tt_pgcn = v.regs.tt_pgcn
                  /\ v.domain = "title" => w.regs.pttn = part
<1>6. ASSUME v.domain = "title" PROVE Set
  <2>1. r \in Regs /\ r.ttn = v.regs.ttn /\ r.vts_ttn = v.regs.vts_ttn
        /\ r.tt_pgcn = v.regs.tt_pgcn /\ r.pttn = part
    BY <1>2, <1>3, <1>4, <1>6 DEF Regs
  <2>2. w = [u EXCEPT !.regs = r]
    BY <1>2, <1>5, <1>6 DEF Machine
  <2> HIDE DEF r
  <2>3. w \in Machine /\ w.pgN = u.pgN /\ w.cellN = u.cellN /\ w.blockN = u.blockN /\ w.regs = r
        /\ Moved(u, w)
    BY <1>2, <2>1, <2>2 DEF Machine, Moved, SameChain
  <2> QED BY <1>2, <2>1, <2>3 DEF Moved, SameChain
<1>7. ASSUME v.domain # "title" PROVE Set
  BY <1>2, <1>5, <1>7
<1>8. Moved(v, w) /\ w.cellN = v.cellN /\ w.pgN = ProgramOf(v)
  BY <1>6, <1>7
<1>9. v.cellN \in 1..Cells(v) => Plays(w)
  <2>1. w \in Machine /\ InChain(w) /\ Pgc(w) = Pgc(v) /\ Cells(w) = Cells(v)
    BY <1>8, MovedKeeps DEF Moved
  <2>2. ProgramOf(w) = ProgramOf(v)
    BY <1>8, <2>1, SameProgram
  <2> QED BY <1>8, <2>1, <2>2, PlaysWhere
<1> QED BY <1>6, <1>7, <1>9 DEF w, u, part

(* set_VTS_PTT enters the part's chain at a program of it, or behind the   *)
(* last.                                                                   *)
LEMMA SetVtsPttEnters ==
  ASSUME NEW v \in Machine, NEW vts, NEW ttn, NEW part, HasPart(vts, ttn, part)
  PROVE  LET w == SetVtsPtt(v, vts, ttn, part)
             q == Ptts[vts][ttn][part]
         IN  /\ w \in Machine /\ InChain(w) /\ w.domain = "title" /\ w.vtsN = vts /\ w.vtsi = vts
             /\ w.pgcN = q.pgcn /\ w.pgN = q.pgn /\ w.pgN \in 1..(NrOfPrograms(w) + 1)
             /\ w.rsm = v.rsm /\ w.stopped = v.stopped /\ w.cellN = v.cellN /\ w.blockN = v.blockN
             /\ w.regs.ttn = TT(vts, ttn) /\ w.regs.vts_ttn = ttn /\ w.regs.pttn = part
             /\ w.regs.tt_pgcn = q.pgcn /\ w.pgc = <<<<"title", vts>>, q.pgcn>>
<1> DEFINE q == Ptts[vts][ttn][part]
           r == [v.regs EXCEPT !.pttn = part, !.ttn = TT(vts, ttn), !.vts_ttn = ttn]
           u == [v EXCEPT !.vtsN = vts, !.vtsi = vts, !.domain = "title", !.regs = r]
           x == SetPgcn(u, q.pgcn)
           w == SetVtsPtt(v, vts, ttn, part)
<1>1. /\ vts \in Vts /\ ttn \in Nat /\ part \in Parts /\ q.pgcn \in Nat /\ q.pgn \in Nat
      /\ <<"title", vts>> \in DOMAIN Pgcit /\ q.pgcn \in DOMAIN Pgcit[<<"title", vts>>]
      /\ q.pgn \in 1..(Len(Pgcit[<<"title", vts>>][q.pgcn].map) + 1)
  BY PartInTable
<1>2. TT(vts, ttn) \in 0..Len(Titles) /\ v.regs \in Regs
  BY TitleNumbers, MachineFields
<1>3. r \in Regs /\ r.ttn = TT(vts, ttn) /\ r.vts_ttn = ttn /\ r.pttn = part
  BY <1>1, <1>2 DEF Regs
<1>4. w = [x EXCEPT !.pgN = q.pgn]
  BY DEF SetVtsPtt, OpenVtsi, Machine
<1> HIDE DEF r, q
<1>5. u \in Machine /\ u.vtsN = vts /\ u.vtsi = vts /\ u.domain = "title" /\ u.regs = r
      /\ u.rsm = v.rsm /\ u.stopped = v.stopped /\ u.cellN = v.cellN /\ u.blockN = v.blockN
  BY <1>1, <1>3 DEF Machine, Domains
<1> HIDE DEF u
<1>6. Table(u) = <<"title", vts>>
  BY <1>5 DEF Table
<1>7. HasPgcn(u, q.pgcn)
  BY <1>1, <1>6 DEF HasPgcn, HasTable
<1>8. /\ x \in Machine /\ InChain(x) /\ x.pgcN = q.pgcn /\ x.domain = "title" /\ x.vtsN = vts /\ x.vtsi = vts
      /\ x.rsm = v.rsm /\ x.stopped = v.stopped /\ x.cellN = v.cellN /\ x.blockN = v.blockN
      /\ x.regs.ttn = r.ttn /\ x.regs.vts_ttn = r.vts_ttn /\ x.regs.pttn = r.pttn
      /\ x.regs.tt_pgcn = q.pgcn /\ x.pgc = <<<<"title", vts>>, q.pgcn>>
  BY <1>5, <1>6, <1>7, SetPgcnEnters
<1> HIDE DEF x, w
<1>9. w \in Machine /\ Moved(x, w) /\ w.pgN = q.pgn /\ w.cellN = x.cellN /\ w.blockN = x.blockN
      /\ w.regs = x.regs
  BY <1>1, <1>4, <1>8 DEF Machine, Moved, SameChain
<1>10. InChain(w)
  BY <1>8, <1>9, MovedKeeps
<1>11. NrOfPrograms(w) = Len(Pgcit[<<"title", vts>>][q.pgcn].map)
  BY <1>8, <1>9 DEF NrOfPrograms, Pgc, Moved, SameChain
<1> QED BY <1>1, <1>3, <1>8, <1>9, <1>10, <1>11 DEF Moved, SameChain, w, q

(* set_VTS_PROG does the same for a program the application names. *)
LEMMA SetVtsProgEnters ==
  ASSUME NEW v \in Machine, NEW p \in Programs
  PROVE  LET t == Titles[p[1]]
             w == SetVtsProg(v, t.vts, t.ttn, p[2], p[3])
         IN  /\ w \in Machine /\ InChain(w) /\ w.domain = "title" /\ w.vtsN = t.vts
             /\ w.pgcN = p[2] /\ w.pgN = p[3] /\ w.pgN \in 1..(NrOfPrograms(w) + 1)
             /\ w.rsm = v.rsm /\ w.stopped = v.stopped /\ w.cellN = v.cellN /\ w.blockN = v.blockN
             /\ w.regs.ttn = TT(t.vts, t.ttn) /\ w.regs.vts_ttn = t.ttn /\ w.regs.tt_pgcn = p[2]
<1> DEFINE vts == Titles[p[1]].vts
           ttn == Titles[p[1]].ttn
           r == [v.regs EXCEPT !.ttn = TT(vts, ttn), !.vts_ttn = ttn]
           u == [v EXCEPT !.vtsN = vts, !.vtsi = vts, !.domain = "title", !.regs = r]
           y == SetPgcn(u, p[2])
           x == [y EXCEPT !.pgN = p[3]]
           part == CurrentPart(x).part
           s == [x.regs EXCEPT !.pttn = part]
           w == SetVtsProg(v, vts, ttn, p[2], p[3])
<1>1. /\ p[1] \in DOMAIN Titles /\ <<"title", vts>> \in DOMAIN Pgcit
      /\ p[2] \in DOMAIN Pgcit[<<"title", vts>>]
      /\ p[3] \in 1..(Len(Pgcit[<<"title", vts>>][p[2]].map) + 1)
  BY ProgramsAssumption
<1>2. Titles[p[1]] \in [vts : Nat, ttn : Nat] /\ vts \in Vts
  BY <1>1, TableAssumption, TitlesAssumption, ElementOf DEF Vts
<1>3. ttn \in Nat /\ p[3] \in Nat
  BY <1>1, <1>2, ChainOfTable, ChainFields
<1>4. TT(vts, ttn) \in 0..Len(Titles) /\ v.regs \in Regs
  BY TitleNumbers, MachineFields
<1>5. r \in Regs /\ r.ttn = TT(vts, ttn) /\ r.vts_ttn = ttn
  BY <1>3, <1>4 DEF Regs
<1>6. w = [x EXCEPT !.regs.pttn = part]
  BY DEF SetVtsProg, OpenVtsi, Machine
<1> HIDE DEF r, vts, ttn, w, part
<1>7. u \in Machine /\ u.vtsN = vts /\ u.vtsi = vts /\ u.domain = "title" /\ u.regs = r
      /\ u.rsm = v.rsm /\ u.stopped = v.stopped /\ u.cellN = v.cellN /\ u.blockN = v.blockN
  BY <1>2, <1>5 DEF Machine, Domains
<1> HIDE DEF u
<1>8. Table(u) = <<"title", vts>>
  BY <1>7 DEF Table
<1>9. HasPgcn(u, p[2])
  BY <1>1, <1>8 DEF HasPgcn, HasTable
<1>10. /\ y \in Machine /\ InChain(y) /\ y.pgcN = p[2] /\ y.domain = "title" /\ y.vtsN = vts /\ y.vtsi = vts
       /\ y.rsm = v.rsm /\ y.stopped = v.stopped /\ y.cellN = v.cellN /\ y.blockN = v.blockN
       /\ y.regs.ttn = r.ttn /\ y.regs.vts_ttn = r.vts_ttn
       /\ y.regs.tt_pgcn = p[2] /\ y.pgc = <<<<"title", vts>>, p[2]>>
  BY <1>7, <1>8, <1>9, SetPgcnEnters
<1> HIDE DEF y
<1>11. x \in Machine /\ Moved(y, x) /\ x.pgN = p[3] /\ x.cellN = y.cellN /\ x.blockN = y.blockN
       /\ x.regs = y.regs /\ x.vtsi = vts
  BY <1>3, <1>10 DEF Machine, Moved, SameChain
<1>12. part \in Parts
  BY <1>2, <1>11, PartReported DEF part
<1> HIDE DEF x
<1>13. x.regs \in Regs
  BY <1>11, MachineFields
<1>14. s \in Regs /\ s.ttn = x.regs.ttn /\ s.vts_ttn = x.regs.vts_ttn /\ s.tt_pgcn = x.regs.tt_pgcn
  BY <1>12, <1>13 DEF Regs
<1>15. w = [x EXCEPT !.regs = s]
  BY <1>6, <1>11 DEF Machine
<1> HIDE DEF s
<1>16. w \in Machine /\ Moved(x, w) /\ w.pgN = x.pgN /\ w.cellN = x.cellN /\ w.blockN = x.blockN
       /\ w.regs = s
  BY <1>11, <1>14, <1>15 DEF Machine, Moved, SameChain
<1>17. InChain(w)
  BY <1>10, <1>11, <1>16, MovedKeeps
<1>18. NrOfPrograms(w) = Len(Pgcit[<<"title", vts>>][p[2]].map)
  BY <1>10, <1>11, <1>16 DEF NrOfPrograms, Pgc, Moved, SameChain
<1> QED BY <1>1, <1>5, <1>10, <1>11, <1>14, <1>16, <1>17, <1>18 DEF Moved, SameChain, w, vts, ttn
-----------------------------------------------------------------------------

(* Changing the domain changes nothing else. *)
LEMMA InKeeps ==
  ASSUME NEW v \in Machine, NEW d \in Domains
  PROVE  LET w == In(v, d)
         IN  /\ w \in Machine /\ w.domain = d /\ w.vtsN = v.vtsN /\ w.vtsi = v.vtsi /\ w.pgc = v.pgc
             /\ w.pgcN = v.pgcN /\ w.pgN = v.pgN /\ w.cellN = v.cellN /\ w.blockN = v.blockN
             /\ w.regs = v.regs /\ w.rsm = v.rsm /\ w.stopped = v.stopped
BY DEF In, Machine

(* Opening an information file changes nothing but the VTS. *)
LEMMA OpenKeeps ==
  ASSUME NEW v \in Machine, NEW n \in Vts
  PROVE  LET w == OpenVtsi(v, n)
         IN  /\ w \in Machine /\ w.domain = v.domain /\ w.vtsN = n /\ w.vtsi = n /\ w.pgc = v.pgc
             /\ w.pgcN = v.pgcN /\ w.pgN = v.pgN /\ w.cellN = v.cellN /\ w.blockN = v.blockN
             /\ w.regs = v.regs /\ w.rsm = v.rsm /\ w.stopped = v.stopped
BY DEF OpenVtsi, Machine

(* set_FP_PGC enters the First Play chain. *)
LEMMA SetFpEnters ==
  ASSUME NEW v \in Machine
  PROVE  LET w == SetFp(v)
         IN  /\ w \in Machine /\ InChain(w) /\ w.domain = "fp" /\ w.vtsN = v.vtsN /\ w.vtsi = v.vtsi
             /\ w.pgN = v.pgN /\ w.cellN = v.cellN /\ w.regs = v.regs /\ w.rsm = v.rsm
             /\ w.stopped = v.stopped /\ Pgc(w) = Pgcit[FP][1]
<1>1. FP \in DOMAIN Pgcit
  BY DiscAssumption
<1>2. SetFp(v) \in Machine
  BY <1>1 DEF SetFp, Machine, Domains
<1> QED BY <1>2 DEF SetFp, Machine, InChain, Pgc

(* set_RSMinfo saves a place of the disc. *)
LEMMA SetRsmKeeps ==
  ASSUME NEW v \in Machine, InChain(v), v.domain = "title", NEW cell \in Nat, NEW block \in Blocks
  PROVE  LET w == SetRsm(v, cell, block)
         IN  /\ w \in Machine /\ SameChain(v, w) /\ w.pgN = v.pgN /\ w.cellN = v.cellN
             /\ w.blockN = v.blockN /\ w.regs = v.regs /\ w.stopped = v.stopped
             /\ cell <= Cells(v) /\ (cell = 0 => v.cellN <= Cells(v)) => RsmOK(w)
             /\ w.rsm.vtsN = v.vtsN /\ w.rsm.pgcN = v.pgcN /\ w.rsm.regs = v.regs
<1> DEFINE r == [vtsN |-> v.vtsN, pgcN |-> GetPgcn(v), blockN |-> block,
                 cellN |-> IF cell # 0 THEN cell ELSE v.cellN, regs |-> v.regs]
           w == SetRsm(v, cell, block)
<1>1. /\ v.vtsN \in Vts /\ GetPgcn(v) = v.pgcN /\ v.pgcN \in Nat /\ v.regs \in Regs /\ v.cellN \in Nat
      /\ v.pgc[1] = <<"title", v.vtsN>> /\ v.pgc[2] = v.pgcN
      /\ v.pgc[1] \in DOMAIN Pgcit /\ v.pgc[2] \in DOMAIN Pgcit[v.pgc[1]]
  BY ChainOf, MachineFields
<1>2. r \in Rsm
  BY <1>1 DEF Rsm
<1>3. w = [v EXCEPT !.rsm = r]
  BY DEF SetRsm
<1>4. r.vtsN = v.vtsN /\ r.pgcN = v.pgcN /\ r.regs = v.regs
      /\ r.cellN = IF cell # 0 THEN cell ELSE v.cellN
  BY <1>1
<1> HIDE DEF r, w
<1>5. /\ w \in Machine /\ SameChain(v, w) /\ w.pgN = v.pgN /\ w.cellN = v.cellN
      /\ w.blockN = v.blockN /\ w.regs = v.regs /\ w.stopped = v.stopped /\ w.rsm = r
  BY <1>2, <1>3 DEF Machine, SameChain
<1>6. cell <= Cells(v) /\ (cell = 0 => v.cellN <= Cells(v)) => RsmOK(w)
  BY <1>1, <1>4, <1>5 DEF RsmOK, Cells, Pgc
<1> QED BY <1>4, <1>5, <1>6 DEF w

(* A copy plays what the machine plays. *)
LEMMA CopyPlays ==
  ASSUME NEW v, Runs(v)
  PROVE  /\ Runs(Copy(v)) /\ Copy(v).vtsi \in {0, Copy(v).vtsN}
         /\ Copy(v).domain = v.domain /\ Copy(v).pgN = v.pgN /\ Copy(v).cellN = v.cellN
         /\ Copy(v).vtsN = v.vtsN /\ Copy(v).pgcN = v.pgcN /\ Copy(v).rsm = v.rsm /\ Copy(v).pgc = v.pgc
         /\ Copy(v).blockN = v.blockN
         /\ Copy(v).regs.ttn = v.regs.ttn /\ Copy(v).regs.vts_ttn = v.regs.vts_ttn
         /\ Copy(v).regs.pttn = v.regs.pttn
         /\ Copy(v).regs.tt_pgcn = IF v.vtsN > 0 /\ v.domain = "title" THEN v.pgcN ELSE v.regs.tt_pgcn
<1>1. /\ v \in Machine /\ InChain(v) /\ Plays(v) /\ RsmOK(v) /\ ~v.stopped
      /\ v.domain # "fp" /\ GetPgcn(v) = v.pgcN /\ v.pgc = <<Table(v), v.pgcN>> /\ HasPgcn(v, v.pgcN)
  BY PlaysIn, ChainOf DEF Runs, InChain
<1>2. v.vtsN \in {-1} \cup Vts /\ v.vtsi \in {0} \cup Vts
  BY <1>1, MachineFields
<1>3. v.domain \in {"title", "vtsm"} => v.vtsN \in Vts /\ v.vtsi = v.vtsN
  BY <1>1, ChainOf
<1> DEFINE w == Copy(v)
           Copied == /\ w \in Machine /\ InChain(w) /\ w.vtsi \in {0, w.vtsN} /\ w.domain = v.domain
                     /\ w.pgN = v.pgN /\ w.cellN = v.cellN /\ w.vtsN = v.vtsN /\ w.pgcN = v.pgcN
                     /\ w.rsm = v.rsm /\ w.stopped = v.stopped /\ w.pgc = v.pgc /\ w.blockN = v.blockN
                     /\ w.regs.ttn = v.regs.ttn /\ w.regs.vts_ttn = v.regs.vts_ttn
                     /\ w.regs.pttn = v.regs.pttn
                     /\ w.regs.tt_pgcn = IF v.vtsN > 0 /\ v.domain = "title" THEN v.pgcN ELSE v.regs.tt_pgcn
<1>4. ASSUME v.vtsN > 0 PROVE Copied
  <2> DEFINE u == [v EXCEPT !.vtsi = v.vtsN]
             x == SetPgcn(u, v.pgcN)
  <2>1. v.vtsN \in Vts
    BY <1>2, <1>4
  <2>2. /\ u \in Machine /\ u.domain = v.domain /\ u.vtsN = v.vtsN /\ u.vtsi = v.vtsN /\ u.cellN = v.cellN
        /\ u.blockN = v.blockN /\ u.rsm = v.rsm /\ u.stopped = v.stopped /\ u.regs = v.regs
    BY <1>1, <2>1 DEF Machine
  <2>3. w = [x EXCEPT !.pgN = v.pgN]
    BY <1>1, <1>4 DEF Copy
  <2> HIDE DEF u
  <2>4. Table(u) = Table(v)
    BY <1>3, <2>2 DEF Table
  <2>5. HasPgcn(u, v.pgcN)
    BY <1>1, <2>4 DEF HasPgcn, HasTable
  <2>6. /\ x \in Machine /\ InChain(x) /\ x.pgcN = v.pgcN /\ x.pgc = v.pgc /\ x.domain = v.domain
        /\ x.vtsN = v.vtsN /\ x.vtsi = v.vtsN /\ x.cellN = v.cellN /\ x.blockN = v.blockN
        /\ x.rsm = v.rsm /\ x.stopped = v.stopped
        /\ x.regs.ttn = v.regs.ttn /\ x.regs.vts_ttn = v.regs.vts_ttn
        /\ x.regs.pttn = v.regs.pttn
        /\ x.regs.tt_pgcn = IF v.domain = "title" THEN v.pgcN ELSE v.regs.tt_pgcn
    BY <1>1, <2>2, <2>4, <2>5, SetPgcnEnters
  <2> HIDE DEF x, w
  <2>7. Moved(x, w) /\ w.pgN = v.pgN /\ w.cellN = x.cellN /\ w.blockN = x.blockN /\ w.regs = x.regs
    BY <1>1, <2>3, <2>6 DEF Machine, Moved, SameChain
  <2>8. InChain(w)
    BY <2>6, <2>7, MovedKeeps
  <2> QED BY <1>4, <2>6, <2>7, <2>8 DEF Moved, SameChain
<1>5. ASSUME ~(v.vtsN > 0) PROVE Copied
  <2>1. v.vtsN \notin Vts
    BY <1>5, VtsAreNumbers
  <2>2. v.vtsN = -1 /\ v.domain \notin {"title", "vtsm"}
    BY <1>2, <1>3, <2>1
  <2>3. w = [v EXCEPT !.vtsi = 0]
    BY <1>5 DEF Copy
  <2>4. /\ w \in Machine /\ w.vtsi = 0 /\ w.domain = v.domain /\ w.pgN = v.pgN /\ w.cellN = v.cellN
        /\ w.vtsN = v.vtsN /\ w.pgcN = v.pgcN /\ w.rsm = v.rsm /\ w.stopped = v.stopped /\ w.pgc = v.pgc
        /\ w.regs = v.regs /\ w.blockN = v.blockN
    BY <1>1, <2>3 DEF Machine
  <2> HIDE DEF w
  <2>5. Table(w) = Table(v)
    BY <2>2, <2>4 DEF Table
  <2>6. InChain(w)
    BY <1>1, <2>2, <2>4, <2>5 DEF InChain, HasPgcn, HasTable
  <2> QED BY <1>5, <2>4, <2>6
<1>6. Copied
  BY <1>4, <1>5
<1> HIDE DEF w
<1>7. Pgc(w) = Pgc(v) /\ Cells(w) = Cells(v)
  BY <1>6 DEF Pgc, Cells
<1>8. ProgramOf(w) = ProgramOf(v)
  BY <1>6, <1>7, SameProgram
<1>9. Plays(w)
  BY <1>1, <1>6, <1>7, <1>8, PlaysWhere DEF Plays
<1>10. RsmOK(w)
  BY <1>1, <1>6 DEF RsmOK
<1> QED BY <1>1, <1>6, <1>9, <1>10 DEF Runs, w

(* get_ID finds a menu that exists, and what it finds exists. *)
LEMMA MenuFound ==
  ASSUME NEW v, HasTable(v), NEW id
  PROVE  /\ HasId(Table(v), id) => MenuId(v, id) # 0
         /\ MenuId(v, id) # 0 => HasPgcn(v, MenuId(v, id))
<1> DEFINE S == {n \in DOMAIN Pgcit[Table(v)] : Pgcit[Table(v)][n].id = id}
<1>1. S \in SUBSET Nat /\ 0 \notin S
  BY ChainOfTable DEF HasTable
<1>2. First(S) \in S \cup {0} /\ (S # {} => First(S) \in S)
  BY <1>1, FirstIsLeast
<1>3. MenuId(v, id) = First(S)
  BY DEF MenuId
<1> QED BY <1>1, <1>2, <1>3 DEF HasId, HasPgcn

(* vm_jump_menu enters the menu and saves the place of a title. *)
LEMMA AtMenuEnters ==
  ASSUME NEW v \in Machine, NEW menu \in {Root, Title}, HasMenu(v, menu),
         v.vtsi \in {0, v.vtsN}, v.domain = "title" => InChain(v)
  PROVE  LET w == AtMenu(v, menu)
         IN  /\ w \in Machine /\ InChain(w) /\ w.pgN = 1 /\ w.domain \in {"vmgm", "vtsm"}
             /\ w.stopped = v.stopped
             /\ w.vtsi = v.vtsi /\ w.vtsN = v.vtsN
             /\ RsmOK(v) /\ (v.domain = "title" => v.cellN <= Cells(v)) => RsmOK(w)
             /\ w.regs.ttn = v.regs.ttn /\ w.regs.vts_ttn = v.regs.vts_ttn
             /\ w.rsm = WithRsm(v).rsm
<1> DEFINE d == MenuDomain(menu)
           u == WithRsm(v)
           x == In(u, d)
           w == AtMenu(v, menu)
<1>1. d \in {"vmgm", "vtsm"} /\ d \in Domains
  BY DEF MenuDomain, Domains
<1>2. /\ u \in Machine /\ SameChain(v, u) /\ u.stopped = v.stopped /\ u.regs = v.regs
      /\ RsmOK(v) /\ (v.domain = "title" => v.cellN <= Cells(v)) => RsmOK(u)
  <2>1. v.blockN \in Blocks /\ v.cellN \in Nat
    BY MachineFields
  <2>2. CASE v.domain = "title"
    <3>1. Cells(v) \in Nat
      BY <2>2, ChainOf
    <3> QED BY <2>1, <2>2, <3>1, SetRsmKeeps DEF WithRsm
  <2>3. CASE v.domain # "title"
    BY <2>3 DEF WithRsm, SameChain
  <2> QED BY <2>2, <2>3
<1>3. w = SetPgcn(x, MenuId(In(v, d), menu)) \/ w = SetPgcn(x, MenuId(x, menu))
  BY DEF AtMenu
<1> HIDE DEF u, d
<1>4. /\ x \in Machine /\ x.domain = d /\ x.vtsN = v.vtsN /\ x.vtsi = v.vtsi /\ x.rsm = u.rsm
      /\ x.stopped = v.stopped /\ x.regs = v.regs
  BY <1>1, <1>2, InKeeps DEF SameChain
<1>5. Table(x) = Table(In(v, d)) /\ In(v, d) \in Machine
  BY <1>1, <1>4, InKeeps DEF Table
<1> HIDE DEF x
<1>6. HasTable(x) /\ HasTable(In(v, d)) /\ MenuId(x, menu) = MenuId(In(v, d), menu) /\ MenuId(x, menu) # 0
  BY <1>5 DEF HasMenu, HasTable, MenuId, d
<1>7. HasPgcn(x, MenuId(x, menu))
  BY <1>6, MenuFound
<1>8. x.domain \in {"title", "vtsm"} => x.vtsi = x.vtsN
  <2>1. ASSUME x.domain = "vtsm" PROVE x.vtsi # 0
    <3>1. <<"vtsm", x.vtsi>> \in DOMAIN Pgcit
      BY <1>6, <2>1 DEF HasTable, Table
    <3>2. <<"vtsm", x.vtsi>> \in {FP, VmgmTable} \cup ({"vtsm", "title"} \X Vts)
      BY <3>1, TableAssumption
    <3> QED BY <3>2, VtsAreNumbers DEF FP, VmgmTable
  <2> QED BY <1>1, <1>4, <2>1
<1>9. RsmOK(x) <=> RsmOK(u)
  BY <1>4 DEF RsmOK
<1>10. w = SetPgcn(x, MenuId(x, menu))
  BY <1>3, <1>6
<1> HIDE DEF w
<1>11. /\ w \in Machine /\ InChain(w) /\ w.pgN = 1 /\ w.domain = d /\ w.vtsN = v.vtsN /\ w.vtsi = v.vtsi
       /\ w.rsm = x.rsm /\ w.stopped = v.stopped
       /\ w.regs.ttn = v.regs.ttn /\ w.regs.vts_ttn = v.regs.vts_ttn
  BY <1>1, <1>4, <1>7, <1>8, <1>10, SetPgcnEnters
<1>12. RsmOK(w) <=> RsmOK(x)
  BY <1>11 DEF RsmOK
<1> QED BY <1>1, <1>2, <1>4, <1>9, <1>11, <1>12 DEF w, u

(* The cell of the angle is one of the chain. *)
LEMMA AngledMoves ==
  ASSUME NEW v \in Machine, InChain(v), v.cellN \in 1..Cells(v), NEW agl \in Angles
  PROVE  /\ Moved(v, Angled(v, agl)) /\ Angled(v, agl).cellN \in 1..Cells(v)
         /\ Angled(v, agl).pgN = v.pgN /\ Angled(v, agl).regs = v.regs
<1>1. agl \in Nat \ {0} /\ Cells(v) \in Nat /\ v.cellN \in Nat
  BY BlockAssumption, ChainOf
<1>2. \A c \in Nat : Moved(v, [v EXCEPT !.cellN = c]) /\ [v EXCEPT !.cellN = c].cellN = c
                     /\ [v EXCEPT !.cellN = c].pgN = v.pgN /\ [v EXCEPT !.cellN = c].regs = v.regs
  BY DEF Machine, Moved, SameChain
<1>3. Angled(v, agl) = v \/ \E c \in 1..Cells(v) : Angled(v, agl) = [v EXCEPT !.cellN = c]
  BY <1>1 DEF Angled
<1>4. Moved(v, v)
  BY DEF Moved, SameChain
<1>5. CASE Angled(v, agl) = v
  BY <1>4, <1>5
<1>6. ASSUME NEW c \in 1..Cells(v), Angled(v, agl) = [v EXCEPT !.cellN = c]
      PROVE  /\ Moved(v, Angled(v, agl)) /\ Angled(v, agl).cellN \in 1..Cells(v)
             /\ Angled(v, agl).pgN = v.pgN /\ Angled(v, agl).regs = v.regs
  <2>1. c \in Nat
    BY <1>1
  <2> QED BY <1>2, <1>6, <2>1
<1> QED BY <1>3, <1>5, <1>6

(* Behind a cell, or the block it is in, is a later cell or the end of the *)
(* chain.                                                                  *)
LEMMA BehindIn ==
  ASSUME NEW v \in Machine, InChain(v), v.cellN \in 1..Cells(v)
  PROVE  Behind(v) \in (v.cellN + 1)..(Cells(v) + 1)
<1> DEFINE S == {c \in (v.cellN + 1)..(Cells(v) + 1) :
                   c = Cells(v) + 1 \/ Pgc(v).cells[c].block # "in"}
<1>1. Cells(v) \in Nat /\ v.cellN \in Nat
  BY ChainOf
<1>2. Cells(v) + 1 \in S /\ S \in SUBSET Nat
  BY <1>1
<1>3. First(S) \in S
  BY <1>2, FirstIsLeast
<1>4. First(S) \in (v.cellN + 1)..(Cells(v) + 1)
  BY <1>3
<1>5. v.cellN + 1 \in (v.cellN + 1)..(Cells(v) + 1)
  BY <1>1
<1> QED BY <1>4, <1>5 DEF Behind

(* The end of process_command keeps the chain, program and cell. *)
LEMMA ResultKeeps ==
  ASSUME vm \in Machine, link \in LinkType, link.cmd = "PlayThis" => link.d1 \in Blocks
  PROVE  /\ Result \in Machine /\ SameChain(vm, Result) /\ Result.pgN = vm.pgN
         /\ Result.cellN = vm.cellN /\ Result.rsm = vm.rsm
         /\ Result.stopped = (link.cmd = "Exit" \/ vm.stopped)
         /\ Result.regs.ttn = vm.regs.ttn /\ Result.regs.vts_ttn = vm.regs.vts_ttn
         /\ Result.regs.tt_pgcn = vm.regs.tt_pgcn /\ Result.regs.pttn = vm.regs.pttn
<1>1. link.d1 \in Nat /\ vm.stopped \in BOOLEAN
  BY MachineFields DEF LinkType
<1>2. CASE link.cmd = "PlayThis"
  BY <1>2 DEF Result, Machine, SameChain
<1>3. CASE link.cmd = "Exit"
  BY <1>1, <1>3 DEF Result, Machine, SameChain
<1>4. CASE link.cmd \notin {"PlayThis", "Exit"}
  <2>1. Result = Select(vm, link.d1)
    BY <1>4 DEF Result
  <2> QED BY <1>1, <1>4, <2>1, SelectKeeps DEF Same, Moved
<1> QED BY <1>2, <1>3, <1>4
-----------------------------------------------------------------------------
(* What a step must establish *)

PlayLinks == {"play_PGC", "play_PGC_PG", "play_PG", "play_Cell", "play_Cell_post", "play_PGC_post",
              "PlayThis", "Exit"}

(* The functions that may be due ask nothing of the commands of the disc. *)
LEMMA DueFits ==
  ASSUME NEW v, NEW l, l.cmd \in PlayLinks
  PROVE  LinkFits(v, l)
BY DEF PlayLinks, LinkFits, WhilePlaying, Back, Anywhere, CallLinks, MenuCalls, Fits

(* The state of the machine that every step keeps while a call is under way. *)
Sane(v, op) ==
  /\ v \in Machine /\ (IF v.stopped THEN op = "try" ELSE RsmOK(v))
  /\ op \in Tries => v.vtsi \in {0, v.vtsN}

(* A move within the chain keeps it. *)
LEMMA MovedSane ==
  ASSUME NEW v, NEW w, NEW op, Sane(v, op), Moved(v, w)
  PROVE  Sane(w, op)
BY MovedKeeps DEF Sane, Moved, SameChain

(* A chain just entered may be played. *)
LEMMA EnterGoes ==
  ASSUME NEW v, NEW op, Sane(v, op), InChain(v), op # "last_pg", v.pgN = 1
  PROVE  Goes(v, PlayPgc, op)
<1>1. PlayPgc \in LinkType /\ PlayPgc.cmd = "play_PGC"
  BY DEF PlayPgc, Due, Link, LinkType, LinkCmds, PlayCmds
<1>2. LinkFits(v, PlayPgc)
  BY <1>1, DueFits DEF PlayLinks
<1>3. v.pgN \in 1..(NrOfPrograms(v) + 1)
  BY ChainOf DEF Sane
<1> QED BY <1>1, <1>2, <1>3 DEF Goes, Sane, Sound

(* Playback may end. *)
LEMMA ExitGoes ==
  ASSUME NEW v, NEW op, Sane(v, op), op # "last_pg",
         v.domain = "title" \/ op = "anyway" => InChain(v),
         op = "anyway" => v.pgN \in 1..(NrOfPrograms(v) + 1)
  PROVE  Goes(v, Exit, op)
<1>1. Exit \in LinkType /\ Exit.cmd = "Exit"
  BY DEF Exit, Due, Link, LinkType, LinkCmds, PlayCmds
<1>2. LinkFits(v, Exit)
  BY <1>1, DueFits DEF PlayLinks
<1> QED BY <1>1, <1>2 DEF Goes, Sane, Sound

(* set_PGCN enters a chain that may be played. *)
LEMMA SetPgcnGoes ==
  ASSUME NEW v, NEW op, NEW n, Sane(v, op), op # "last_pg", HasPgcn(v, n), v.domain # "fp",
         v.domain \in {"title", "vtsm"} => v.vtsi = v.vtsN
  PROVE  Goes(SetPgcn(v, n), PlayPgc, op)
<1> DEFINE w == SetPgcn(v, n)
<1>1. /\ w \in Machine /\ InChain(w) /\ w.pgN = 1 /\ w.vtsN = v.vtsN /\ w.vtsi = v.vtsi
      /\ w.rsm = v.rsm /\ w.stopped = v.stopped
  BY SetPgcnEnters DEF Sane
<1> HIDE DEF w
<1>2. Sane(w, op)
  BY <1>1 DEF Sane, RsmOK
<1>3. Goes(w, PlayPgc, op)
  BY <1>1, <1>2, EnterGoes
<1> QED BY <1>3 DEF w

(* A step within a call keeps the invariant if what it leaves due may be   *)
(* due ...                                                                 *)
LEMMA ThenKeeps ==
  ASSUME IInv, link # Idle, NEW w, NEW l, Then(w, l), Goes(w, l, todo.op)
  PROVE  IInv'
<1>1. l # Idle
  BY DEF Goes, Idle, Due, Link
<1>2. TypeOK'
  BY DEF IInv, TypeOK, Then, Goes
<1>3. ~vm'.stopped => RsmOK(vm')
  BY DEF Then, Goes
<1>4. Goes(vm', link', todo'.op)
  BY DEF Then
<1>5. ~Ready'
  BY <1>1 DEF Then, Ready
<1>6. IF todo'.op \in Tries THEN Runs(orig') ELSE orig' = NoVM
  BY DEF IInv, Then
<1> QED BY <1>1, <1>2, <1>3, <1>4, <1>5, <1>6 DEF IInv, Then

(* ... and so does one that begins a call or goes on with another function *)
(* of it ...                                                               *)
LEMMA GoOnKeeps ==
  ASSUME IInv, NEW w, NEW l, NEW next, GoOn(w, l, next), Goes(w, l, next.op),
         next \in [op : {"plain", "anyway", "block", "last_pg", "try", "next_pg", "resume"},
                   cell : Nat, block : Blocks, title : 0..Len(Titles), part : Parts],
         next.op \in Tries <=> todo.op \in Tries
  PROVE  IInv'
<1>1. l # Idle
  BY DEF Goes, Idle, Due, Link
<1>2. TypeOK'
  BY DEF IInv, TypeOK, GoOn, Goes
<1>3. ~vm'.stopped => RsmOK(vm')
  BY DEF GoOn, Goes
<1>4. Goes(vm', link', todo'.op)
  BY DEF GoOn
<1>5. ~Ready'
  BY <1>1 DEF GoOn, Ready
<1>6. IF todo'.op \in Tries THEN Runs(orig') ELSE orig' = NoVM
  BY DEF IInv, GoOn
<1> QED BY <1>1, <1>2, <1>3, <1>4, <1>5, <1>6 DEF IInv, GoOn

(* What a caller does with the result, in its usual forms. *)
LEMMA PlainTodo ==
  /\ \A op \in {"plain", "anyway", "block", "last_pg", "try", "next_pg", "resume"} :
       /\ After(op) \in [op : {"plain", "anyway", "block", "last_pg", "try", "next_pg", "resume"},
                         cell : Nat, block : Blocks, title : 0..Len(Titles), part : Parts]
       /\ After(op).op = op
  /\ Plain \in [op : {"plain", "anyway", "block", "last_pg", "try", "next_pg", "resume"},
                cell : Nat, block : Blocks, title : 0..Len(Titles), part : Parts]
  /\ Plain.op = "plain" /\ Plain.op \notin Tries
<1>1. 0 \in Blocks /\ 0 \in 0..Len(Titles) /\ 0 \in Parts
  <2>1. Len(Titles) \in Nat
    BY TableAssumption
  <2> QED BY <2>1, BlockAssumption DEF Blocks, Parts
<1> QED BY <1>1 DEF Plain, After, Tries

(* ... and one that ends a call with a machine that stopped or plays. *)
LEMMA ReturnKeeps ==
  ASSUME IInv, NEW w, Return(w), w \in Machine, ~w.stopped => Runs(w)
  PROVE  IInv'
<1>1. TypeOK'
  BY PlainTodo DEF IInv, TypeOK, Return, Idle, Due, Link, LinkType
<1> QED BY <1>1, PlainTodo DEF IInv, Return, Ready, Runs

(* A call is under way: the parts of the invariant that its steps use. *)
LEMMA UnderWay ==
  ASSUME IInv, link # Idle
  PROVE  /\ Goes(vm, link, todo.op) /\ Sane(vm, todo.op) /\ vm \in Machine /\ link \in LinkType
         /\ vm.stopped => todo.op = "try"
         /\ link.cmd # "Exit" => InChain(vm)
         /\ vm.pgN \in Nat /\ vm.cellN \in Nat
BY MachineFields DEF IInv, Goes, Sane, Sound

(* Commands of a chain are links. *)
LEMMA CommandTypes ==
  ASSUME NEW v \in Machine, InChain(v), NEW l \in Commands(Pgc(v))
  PROVE  l \in LinkType
<1>1. Pgc(v) \in ChainType
  BY ChainOf
<1> QED BY <1>1, ChainFields DEF Commands

(* A command that is of use anywhere fits the machine that is in its       *)
(* chain, and one of a menu or title the machine that plays.               *)
LEMMA AnywhereFits ==
  ASSUME NEW v \in Machine, InChain(v), NEW l \in Commands(Pgc(v)), l.cmd \in Anywhere,
         v.cellN <= Cells(v) \/ (l.cmd \in CallLinks => SavedCell(l) # 0)
  PROVE  LinkFits(v, l)
<1>1. Fits(v.pgc[1], Pgc(v), l) /\ (l.cmd \in CallLinks => SavedCell(l) <= Cells(v))
  BY ChainOf DEF CommandsFit, Cells
<1>2. l.cmd \notin WhilePlaying \cup Back
  BY DEF Anywhere, WhilePlaying, Back
<1> QED BY <1>1, <1>2 DEF LinkFits, Back

(* The same of the commands of a menu or title, where one plays. *)
LEMMA PlayingFits ==
  ASSUME NEW v \in Machine, InChain(v), Plays(v), ~v.stopped,
         NEW l \in Commands(Pgc(v)), l.cmd \in Anywhere \cup WhilePlaying
  PROVE  LinkFits(v, l)
<1>1. v.cellN <= Cells(v)
  BY PlaysIn, ChainOf
<1>2. CASE l.cmd \in Anywhere
  BY <1>1, <1>2, AnywhereFits
<1>3. CASE l.cmd \in WhilePlaying
  BY <1>3 DEF LinkFits, WhilePlaying, Anywhere, CallLinks, MenuCalls
<1> QED BY <1>2, <1>3

(* A command of the disc is due in the chain it is of. *)
LEMMA CommandGoes ==
  ASSUME NEW v, NEW op, Sane(v, op), InChain(v), op # "last_pg",
         NEW l \in LinkType, LinkFits(v, l), l.cmd \in Anywhere \cup WhilePlaying \cup Back,
         op = "anyway" => v.pgN \in 1..(NrOfPrograms(v) + 1)
  PROVE  Goes(v, l, op)
<1>1. l.cmd \notin PlayLinks \ {"Exit"} /\ l.cmd # "idle"
  BY DEF Anywhere, WhilePlaying, Back, PlayLinks
<1> QED BY <1>1 DEF Goes, Sane, Sound, PlayLinks

-----------------------------------------------------------------------------
(* The play_* functions *)

(* play_PGC: the pre commands of a chain, or its program. *)
LEMMA PlayPGCKeeps == ASSUME IInv, PlayPGC PROVE IInv'
<1>1. /\ Goes(vm, link, todo.op) /\ Sane(vm, todo.op) /\ vm \in Machine /\ InChain(vm) /\ link # Idle
      /\ vm.pgN \in Nat
  BY UnderWay DEF PlayPGC, Idle, Due, Link
<1> DEFINE w == [vm EXCEPT !.pgN = IF link.cmd = "play_PGC" THEN 1 ELSE @,
                           !.cellN = 0, !.blockN = 0]
<1>2. 0 \in Blocks
  BY BlockAssumption DEF Blocks
<1>3. Moved(vm, w) /\ w.cellN = 0 /\ w.pgN = IF link.cmd = "play_PGC" THEN 1 ELSE vm.pgN
  BY <1>1, <1>2 DEF Machine, Moved, SameChain
<1>4. PICK l \in Eval(Pgc(vm).pre, Due("play_PG")) : Then(w, l)
  BY DEF PlayPGC
<1> HIDE DEF w
<1>5. /\ w \in Machine /\ Sane(w, todo.op) /\ InChain(w) /\ Pgc(w) = Pgc(vm)
      /\ NrOfPrograms(w) = NrOfPrograms(vm) /\ Cells(w) = Cells(vm)
  BY <1>1, <1>3, MovedSane, MovedKeeps DEF Moved
<1>6. Cells(w) \in Nat /\ NrOfPrograms(w) \in Nat /\ Pgc(w) \in ChainType /\ CommandsFit(w.pgc[1], Pgc(w))
  BY <1>5, ChainOf
<1>7. w.pgN \in 1..(NrOfPrograms(w) + 1)
  BY <1>1, <1>3, <1>5, <1>6 DEF Goes, Sound, PlayPGC
<1>8. CASE l = Due("play_PG")
  <2>1. l \in LinkType /\ l.cmd = "play_PG"
    BY <1>8 DEF Due, Link, LinkType, LinkCmds, PlayCmds
  <2>2. LinkFits(w, l)
    BY <2>1, DueFits DEF PlayLinks
  <2>3. todo.op = "last_pg" => /\ Pgc(w).map # <<>> /\ Pgc(w).pre \subseteq {NoJump}
                               /\ w.pgN <= NrOfPrograms(w)
    <3>1. ASSUME todo.op = "last_pg"
          PROVE  Pgc(vm).map # <<>> /\ Pgc(vm).pre \subseteq {NoJump} /\ link.cmd = "play_PGC"
      BY <1>1, <3>1 DEF Goes, Sound, PlayPGC
    <3>2. ASSUME todo.op = "last_pg" PROVE NrOfPrograms(w) > 0
      BY <1>5, <1>6, <3>1, <3>2, ChainFields DEF NrOfPrograms
    <3> QED BY <1>3, <1>5, <1>6, <3>1, <3>2
  <2>4. Goes(w, l, todo.op)
    BY <1>5, <1>7, <2>1, <2>2, <2>3 DEF Goes, Sane, Sound
  <2> QED BY <1>1, <1>4, <2>4, ThenKeeps
<1>9. CASE l # Due("play_PG")
  <2>1. l \in Pgc(w).pre /\ l # NoJump /\ l \in Commands(Pgc(w))
    BY <1>4, <1>5, <1>9 DEF Eval, Commands
  <2>2. l.cmd \in Anywhere
    BY <1>6, <2>1 DEF CommandsFit
  <2>3. LinkFits(w, l)
    BY <1>3, <1>5, <1>6, <2>1, <2>2, AnywhereFits
  <2>4. l \in LinkType
    BY <1>5, <2>1, CommandTypes
  <2>5. todo.op # "last_pg"
    BY <1>1, <1>5, <2>1 DEF Goes, Sound
  <2>6. Goes(w, l, todo.op)
    BY <1>5, <1>7, <2>2, <2>3, <2>4, <2>5, CommandGoes
  <2> QED BY <1>1, <1>4, <2>6, ThenKeeps
<1> QED BY <1>8, <1>9

(* Another chain, or the end of playback. *)
LEMMA ToChainKeeps ==
  ASSUME IInv, link # Idle, NEW v, NEW n, ToChain(v, n), Sane(v, todo.op), todo.op # "last_pg",
         HasPgcn(v, n) => v.domain # "fp" /\ (v.domain \in {"title", "vtsm"} => v.vtsi = v.vtsN),
         v.domain = "title" \/ todo.op = "anyway" => InChain(v),
         todo.op = "anyway" => v.pgN \in 1..(NrOfPrograms(v) + 1)
  PROVE  IInv'
<1>1. CASE HasPgcn(v, n)
  <2>1. Goes(SetPgcn(v, n), PlayPgc, todo.op)
    BY <1>1, SetPgcnGoes
  <2> QED BY <1>1, <2>1, ThenKeeps DEF ToChain
<1>2. CASE ~HasPgcn(v, n)
  <2>1. Goes(v, Exit, todo.op)
    BY ExitGoes
  <2> QED BY <1>2, <2>1, ThenKeeps DEF ToChain
<1> QED BY <1>1, <1>2

(* ... named by the chain that plays. *)
LEMMA LinkedChain ==
  ASSUME NEW v \in Machine, InChain(v), NEW n, n \in {Pgc(v).next, Pgc(v).prev, Pgc(v).goup}, HasPgcn(v, n)
  PROVE  v.domain # "fp" /\ (v.domain \in {"title", "vtsm"} => v.vtsi = v.vtsN)
<1>1. n # 0
  BY ChainOfTable DEF HasPgcn, HasTable
<1>2. v.domain = "fp" => Pgc(v) = Pgcit[FP][1]
  BY DEF InChain, Pgc
<1>3. v.domain # "fp"
  BY <1>1, <1>2, ChainAssumption DEF FirstPlayFits
<1> QED BY <1>3 DEF InChain

(* play_PGC_post: the post commands, or the next chain. *)
LEMMA PlayPGCPostKeeps == ASSUME IInv, PlayPGCPost PROVE IInv'
<1>1. /\ Goes(vm, link, todo.op) /\ Sane(vm, todo.op) /\ vm \in Machine /\ InChain(vm) /\ link # Idle
  BY UnderWay DEF PlayPGCPost, Idle, Due, Link
<1>2. todo.op # "last_pg" /\ (todo.op = "anyway" => vm.pgN \in 1..(NrOfPrograms(vm) + 1))
  BY <1>1 DEF Goes, Sound, PlayPGCPost
<1>3. CASE NoJump \in Pgc(vm).post /\ ToChain(vm, Pgc(vm).next)
  <2>1. HasPgcn(vm, Pgc(vm).next) =>
          vm.domain # "fp" /\ (vm.domain \in {"title", "vtsm"} => vm.vtsi = vm.vtsN)
    BY <1>1, LinkedChain
  <2> QED BY <1>1, <1>2, <1>3, <2>1, ToChainKeeps
<1>4. ASSUME NEW l \in Pgc(vm).post \ {NoJump}, Then(vm, l) PROVE IInv'
  <2>1. CommandsFit(vm.pgc[1], Pgc(vm)) /\ l \in Commands(Pgc(vm))
    BY <1>1, ChainOf DEF Commands
  <2>2. l.cmd \in Anywhere /\ (l.cmd \in CallLinks => SavedCell(l) # 0)
    BY <2>1 DEF CommandsFit
  <2>3. LinkFits(vm, l) /\ l \in LinkType
    BY <1>1, <2>1, <2>2, AnywhereFits, CommandTypes
  <2>4. Goes(vm, l, todo.op)
    BY <1>1, <1>2, <2>2, <2>3, CommandGoes
  <2> QED BY <1>1, <1>4, <2>4, ThenKeeps
<1> QED BY <1>3, <1>4 DEF PlayPGCPost

(* One of the play_* functions is due in the same chain. *)
LEMMA PostGoes ==
  ASSUME NEW v, NEW op, Sane(v, op), InChain(v), op # "last_pg",
         op = "anyway" => v.pgN \in 1..(NrOfPrograms(v) + 1)
  PROVE  Goes(v, Due("play_PGC_post"), op)
<1>1. Due("play_PGC_post") \in LinkType /\ Due("play_PGC_post").cmd = "play_PGC_post"
  BY DEF Due, Link, LinkType, LinkCmds, PlayCmds
<1>2. LinkFits(v, Due("play_PGC_post"))
  BY <1>1, DueFits DEF PlayLinks
<1> QED BY <1>1, <1>2 DEF Goes, Sane, Sound

(* play_PG may be due at a program of the chain or behind its last one. *)
LEMMA ProgramGoes ==
  ASSUME NEW v, NEW op, Sane(v, op), InChain(v), op # "last_pg",
         v.pgN \in 1..(NrOfPrograms(v) + 1)
  PROVE  Goes(v, Due("play_PG"), op)
<1>1. Due("play_PG") \in LinkType /\ Due("play_PG").cmd = "play_PG"
  BY DEF Due, Link, LinkType, LinkCmds, PlayCmds
<1>2. LinkFits(v, Due("play_PG"))
  BY <1>1, DueFits DEF PlayLinks
<1> QED BY <1>1, <1>2 DEF Goes, Sane, Sound

(* play_Cell may be due at a cell of the chain or behind its last one. *)
LEMMA CellGoes ==
  ASSUME NEW v, NEW op, Sane(v, op), InChain(v), op # "last_pg",
         v.cellN \in 1..(Cells(v) + 1),
         op = "anyway" => v.pgN \in 1..(NrOfPrograms(v) + 1)
  PROVE  Goes(v, Due("play_Cell"), op)
<1>1. Due("play_Cell") \in LinkType /\ Due("play_Cell").cmd = "play_Cell"
  BY DEF Due, Link, LinkType, LinkCmds, PlayCmds
<1>2. LinkFits(v, Due("play_Cell"))
  BY <1>1, DueFits DEF PlayLinks
<1> QED BY <1>1, <1>2 DEF Goes, Sane, Sound

(* play_PG: the first cell of the program, or the end of the chain. *)
LEMMA PlayPGKeeps == ASSUME IInv, PlayPG PROVE IInv'
<1>1. /\ Goes(vm, link, todo.op) /\ Sane(vm, todo.op) /\ vm \in Machine /\ InChain(vm) /\ link # Idle
  BY UnderWay DEF PlayPG, Idle, Due, Link
<1>2. vm.pgN \in 1..(NrOfPrograms(vm) + 1) /\ NrOfPrograms(vm) \in Nat /\ Pgc(vm) \in ChainType
      /\ ProgramsFit(Pgc(vm)) /\ Cells(vm) \in Nat
  BY <1>1, ChainOf DEF Goes, Sound, PlayPG
<1>3. CASE vm.pgN > NrOfPrograms(vm)
  <2>1. todo.op # "last_pg"
    BY <1>1, <1>2, <1>3 DEF Goes, Sound, PlayPG
  <2>2. Goes(vm, Due("play_PGC_post"), todo.op)
    BY <1>1, <1>2, <2>1, PostGoes
  <2> QED BY <1>1, <1>3, <2>2, ThenKeeps DEF PlayPG
<1>4. CASE ~(vm.pgN > NrOfPrograms(vm))
  <2> DEFINE c == Pgc(vm).map[vm.pgN]
             w == [vm EXCEPT !.cellN = c]
  <2>1. vm.pgN \in DOMAIN Pgc(vm).map
    BY <1>2, <1>4, ChainFields DEF NrOfPrograms
  <2>2. c \in 1..Cells(vm)
    BY <1>2, <2>1, ChainFields DEF ProgramsFit, Cells
  <2> HIDE DEF c
  <2>3. Moved(vm, w) /\ w.cellN = c /\ w.pgN = vm.pgN
    BY <1>1, <1>2, <2>2 DEF Machine, Moved, SameChain
  <2>4. Then(w, Due("play_Cell"))
    BY <1>4 DEF PlayPG, c
  <2> HIDE DEF w
  <2>5. /\ w \in Machine /\ Sane(w, todo.op) /\ InChain(w) /\ Pgc(w) = Pgc(vm)
        /\ NrOfPrograms(w) = NrOfPrograms(vm) /\ Cells(w) = Cells(vm)
    BY <1>1, <2>3, MovedSane, MovedKeeps DEF Moved
  <2>6. w.cellN \in 1..(Cells(w) + 1) /\ w.cellN <= Cells(w)
    BY <1>2, <2>2, <2>3, <2>5
  <2>7. CASE todo.op # "last_pg"
    <3>1. Goes(w, Due("play_Cell"), todo.op)
      BY <1>2, <2>3, <2>5, <2>6, <2>7, CellGoes
    <3> QED BY <1>1, <2>4, <3>1, ThenKeeps
  <2>8. CASE todo.op = "last_pg"
    <3>1. Due("play_Cell") \in LinkType /\ Due("play_Cell").cmd = "play_Cell"
      BY DEF Due, Link, LinkType, LinkCmds, PlayCmds
    <3>2. LinkFits(w, Due("play_Cell"))
      BY <3>1, DueFits DEF PlayLinks
    <3>3. Pgc(w).map # <<>> /\ Pgc(w).pre \subseteq {NoJump}
      BY <1>1, <2>5, <2>8 DEF Goes, Sound
    <3>4. Goes(w, Due("play_Cell"), todo.op)
      BY <2>5, <2>6, <2>8, <3>1, <3>2, <3>3 DEF Goes, Sane, Sound
    <3> QED BY <1>1, <2>4, <3>4, ThenKeeps
  <2> QED BY <2>7, <2>8
<1> QED BY <1>3, <1>4

(* A machine in a cell of its chain ends process_command. *)
LEMMA PlayThisGoes ==
  ASSUME NEW v, NEW op, Sane(v, op), InChain(v), Plays(v), NEW b \in Blocks,
         op = "last_pg" => Pgc(v).map # <<>> /\ Pgc(v).pre \subseteq {NoJump}
  PROVE  Goes(v, Link("PlayThis", b, 0, 0), op)
<1> DEFINE l == Link("PlayThis", b, 0, 0)
<1>1. l \in LinkType /\ l.cmd = "PlayThis" /\ l.d1 = b
  <2>1. b \in Nat
    BY BlockAssumption DEF Blocks
  <2> QED BY <2>1 DEF Link, LinkType, LinkCmds, PlayCmds
<1> HIDE DEF l
<1>2. LinkFits(v, l)
  BY <1>1, DueFits DEF PlayLinks
<1>3. Goes(v, l, op)
  BY <1>1, <1>2 DEF Goes, Sane, Sound
<1> QED BY <1>3 DEF l

(* play_Cell: the cell, that of the angle, or the end of the chain. *)
LEMMA PlayCellKeeps == ASSUME IInv, PlayCell PROVE IInv'
<1>1. /\ Goes(vm, link, todo.op) /\ Sane(vm, todo.op) /\ vm \in Machine /\ InChain(vm) /\ link # Idle
  BY UnderWay DEF PlayCell, Idle, Due, Link
<1>2. vm.cellN \in 1..(Cells(vm) + 1) /\ Cells(vm) \in Nat
      /\ (todo.op = "anyway" => vm.pgN \in 1..(NrOfPrograms(vm) + 1))
  BY <1>1, ChainOf DEF Goes, Sound, PlayCell
<1>3. CASE vm.cellN > Cells(vm)
  <2>1. todo.op # "last_pg"
    BY <1>1, <1>2, <1>3 DEF Goes, Sound, PlayCell
  <2>2. Goes(vm, Due("play_PGC_post"), todo.op)
    BY <1>1, <1>2, <2>1, PostGoes
  <2> QED BY <1>1, <1>3, <2>2, ThenKeeps DEF PlayCell
<1>4. CASE ~(vm.cellN > Cells(vm))
  <2>1. PICK agl \in Angles : Then([SetPgn(Angled(vm, agl)) EXCEPT !.blockN = 0], PlayThis)
    BY <1>4 DEF PlayCell
  <2> DEFINE u == Angled(vm, agl)
             x == SetPgn(u)
             w == [x EXCEPT !.blockN = 0]
  <2>2. vm.cellN \in 1..Cells(vm)
    BY <1>2, <1>4
  <2>3. Moved(vm, u) /\ u.cellN \in 1..Cells(vm)
    BY <1>1, <2>2, AngledMoves
  <2> HIDE DEF u
  <2>4. u \in Machine /\ InChain(u) /\ Cells(u) = Cells(vm) /\ Pgc(u) = Pgc(vm) /\ Sane(u, todo.op)
    BY <1>1, <2>3, MovedKeeps, MovedSane DEF Moved
  <2>5. Moved(u, x) /\ Plays(x)
    BY <2>3, <2>4, SetPgnMoves
  <2> HIDE DEF x
  <2>6. x \in Machine /\ InChain(x) /\ Pgc(x) = Pgc(vm) /\ Sane(x, todo.op)
    BY <2>4, <2>5, MovedKeeps, MovedSane DEF Moved
  <2>7. 0 \in Blocks
    BY BlockAssumption DEF Blocks
  <2>8. Moved(x, w) /\ w.cellN = x.cellN /\ w.pgN = x.pgN
    BY <2>6, <2>7 DEF Machine, Moved, SameChain
  <2> HIDE DEF w
  <2>9. w \in Machine /\ InChain(w) /\ Pgc(w) = Pgc(vm) /\ Sane(w, todo.op) /\ Table(w) = Table(x)
        /\ Cells(w) = Cells(x)
    BY <2>6, <2>8, MovedKeeps, MovedSane DEF Moved
  <2>10. Plays(w)
    <3>1. ProgramOf(w) = ProgramOf(x)
      BY <2>6, <2>8, <2>9, SameProgram
    <3> QED BY <2>5, <2>8, <2>9, <3>1 DEF Plays, Moved, SameChain
  <2>11. todo.op = "last_pg" => Pgc(w).map # <<>> /\ Pgc(w).pre \subseteq {NoJump}
    BY <1>1, <2>9 DEF Goes, Sound
  <2>12. Goes(w, PlayThis, todo.op)
    BY <2>7, <2>9, <2>10, <2>11, PlayThisGoes DEF PlayThis, Due
  <2> QED BY <1>1, <2>1, <2>12, ThenKeeps DEF w, x, u
<1> QED BY <1>3, <1>4

(* play_Cell_post: the command of the cell, or what is behind it. *)
LEMMA PlayCellPostKeeps == ASSUME IInv, PlayCellPost PROVE IInv'
<1>1. /\ Goes(vm, link, todo.op) /\ Sane(vm, todo.op) /\ vm \in Machine /\ InChain(vm) /\ link # Idle
  BY UnderWay DEF PlayCellPost, Idle, Due, Link
<1>2. todo.op # "last_pg" /\ Plays(vm) /\ ~vm.stopped
      /\ (todo.op = "anyway" => vm.pgN \in 1..(NrOfPrograms(vm) + 1))
  BY <1>1 DEF Goes, Sound, PlayCellPost
<1>3. vm.cellN \in 1..Cells(vm) /\ Cells(vm) \in Nat /\ Pgc(vm) \in ChainType
      /\ CommandsFit(vm.pgc[1], Pgc(vm)) /\ vm.pgN = ProgramOf(vm)
  BY <1>1, <1>2, PlaysIn, ChainOf DEF Plays
<1> DEFINE commands == Pgc(vm).cells[vm.cellN].cmd
           v == [vm EXCEPT !.cellN = Behind(vm)]
<1>4. CASE NoJump \in commands /\ IF HasPgn(v) THEN Then(SetPgn(v), Due("play_Cell"))
                                               ELSE Then(v, Due("play_PGC_post"))
  <2>1. Behind(vm) \in 1..(Cells(vm) + 1)
    BY <1>1, <1>3, BehindIn
  <2>2. Moved(vm, v) /\ v.cellN = Behind(vm) /\ v.pgN = vm.pgN
    BY <1>1, <2>1 DEF Machine, Moved, SameChain
  <2> HIDE DEF v
  <2>3. /\ v \in Machine /\ InChain(v) /\ Cells(v) = Cells(vm) /\ Sane(v, todo.op)
        /\ NrOfPrograms(v) = NrOfPrograms(vm) /\ NrOfPrograms(v) \in Nat
    BY <1>1, <2>2, MovedKeeps, MovedSane, ChainOf DEF Moved
  <2>4. CASE HasPgn(v)
    <3> DEFINE w == SetPgn(v)
    <3>1. Moved(v, w) /\ w.cellN = v.cellN /\ w.pgN = ProgramOf(v)
      BY <2>3, SetPgnMoves
    <3> HIDE DEF w
    <3>2. /\ w \in Machine /\ InChain(w) /\ Cells(w) = Cells(vm) /\ Sane(w, todo.op)
          /\ NrOfPrograms(w) = NrOfPrograms(vm)
      BY <2>3, <3>1, MovedKeeps, MovedSane DEF Moved
    <3>3. v.cellN > 0 /\ Cells(v) > 0 /\ NrOfPrograms(v) > 0
      BY <1>1, <1>2, <1>3, <2>1, <2>2, <2>3, PlaysIn
    <3>4. w.pgN \in 1..(NrOfPrograms(w) + 1)
      BY <2>3, <3>1, <3>2, <3>3, ProgramOfCell
    <3>5. Goes(w, Due("play_Cell"), todo.op)
      BY <1>2, <2>1, <2>2, <3>1, <3>2, <3>4, CellGoes
    <3> QED BY <1>1, <1>4, <2>4, <3>5, ThenKeeps DEF w
  <2>5. CASE ~HasPgn(v)
    <3>1. Goes(v, Due("play_PGC_post"), todo.op)
      BY <1>2, <2>2, <2>3, PostGoes
    <3> QED BY <1>1, <1>4, <2>5, <3>1, ThenKeeps
  <2> QED BY <2>4, <2>5
<1>5. ASSUME NEW l \in commands \ {NoJump}, Then(vm, l) PROVE IInv'
  <2>1. vm.cellN \in DOMAIN Pgc(vm).cells
    BY <1>3, ChainFields DEF Cells
  <2>2. l \in Commands(Pgc(vm))
    BY <1>5, <2>1 DEF Commands
  <2>3. l \in LinkType
    BY <1>1, <2>2, CommandTypes
  <2>4. \/ l.cmd \in Anywhere \cup WhilePlaying
        \/ l.cmd = "LinkPrevC" /\ vm.cellN > 1
        \/ l.cmd = "LinkPrevPG" /\ NrOfPrograms(vm) > 1 /\ vm.cellN >= Pgc(vm).map[2]
    BY <1>3, <1>5, <2>1 DEF CommandsFit, NrOfPrograms
  <2>5. LinkFits(vm, l)
    <3>1. CASE l.cmd \in Anywhere \cup WhilePlaying
      BY <1>1, <1>2, <2>2, <3>1, PlayingFits
    <3>2. CASE l.cmd = "LinkPrevC" /\ vm.cellN > 1
      BY <1>2, <3>2 DEF LinkFits, Anywhere, CallLinks, MenuCalls
    <3>3. CASE l.cmd = "LinkPrevPG" /\ NrOfPrograms(vm) > 1 /\ vm.cellN >= Pgc(vm).map[2]
      <4>1. 2 \in 1..NrOfPrograms(vm) /\ Pgc(vm).map[2] \in Nat
        BY <1>1, <1>3, <3>3, ChainFields, ChainOf DEF NrOfPrograms
      <4>2. vm.pgN > 1
        BY <1>1, <1>2, <1>3, <3>3, <4>1, PlaysIn, ProgramOfCell
      <4> QED BY <1>2, <3>3, <4>2 DEF LinkFits, Anywhere, CallLinks, MenuCalls
    <3> QED BY <2>4, <3>1, <3>2, <3>3
  <2>6. Goes(vm, l, todo.op)
    BY <1>1, <1>2, <2>3, <2>4, <2>5, CommandGoes DEF Back
  <2> QED BY <1>1, <1>5, <2>6, ThenKeeps
<1> QED BY <1>4, <1>5 DEF PlayCellPost
-----------------------------------------------------------------------------
(* process_command *)

(* A command of the disc is due: it fits where the machine is. *)
LEMMA LinkUnderWay ==
  ASSUME IInv, todo.op # "anyway",
         link.cmd \in (Anywhere \ {"Exit"}) \cup WhilePlaying \cup Back
  PROVE  /\ Sane(vm, todo.op) /\ vm \in Machine /\ InChain(vm) /\ link # Idle
         /\ todo.op # "last_pg" /\ LinkFits(vm, link)
         /\ link.d1 \in Nat /\ link.d2 \in Nat /\ link.d3 \in Nat
         /\ link.cmd \in Anywhere => Fits(vm.pgc[1], Pgc(vm), link)
         /\ Cells(vm) \in Nat /\ NrOfPrograms(vm) \in Nat /\ vm.cellN \in Nat /\ vm.pgN \in Nat
<1>1. link # Idle /\ link.cmd # "Exit"
  BY DEF Idle, Due, Link, Anywhere, WhilePlaying, Back
<1>2. Goes(vm, link, todo.op) /\ Sane(vm, todo.op) /\ vm \in Machine /\ InChain(vm) /\ link \in LinkType
      /\ vm.cellN \in Nat /\ vm.pgN \in Nat
  BY <1>1, UnderWay
<1>3. todo.op # "last_pg" /\ LinkFits(vm, link)
  BY <1>2 DEF Goes, Sound, Anywhere, WhilePlaying, Back
<1>4. link.d1 \in Nat /\ link.d2 \in Nat /\ link.d3 \in Nat
  BY <1>2 DEF LinkType
<1> QED BY <1>1, <1>2, <1>3, <1>4, ChainOf DEF LinkFits

(* Selecting a button keeps the machine sound. *)
LEMMA SelectSane ==
  ASSUME NEW v, NEW op, Sane(v, op), NEW b \in Nat
  PROVE  LET w == Select(v, b)
         IN  /\ Same(v, w) /\ Sane(w, op) /\ w \in Machine
             /\ InChain(v) => InChain(w) /\ Pgc(w) = Pgc(v) /\ Cells(w) = Cells(v)
                              /\ NrOfPrograms(w) = NrOfPrograms(v)
<1>1. v \in Machine
  BY DEF Sane
<1>2. Same(v, Select(v, b))
  BY <1>1, SelectKeeps
<1> QED BY <1>1, <1>2, MovedKeeps, MovedSane DEF Same, Moved

(* To a cell of the chain, or behind the last. *)
LEMMA ToCellKeeps ==
  ASSUME IInv, link # Idle, Sane(vm, todo.op), InChain(vm), todo.op \notin {"anyway", "last_pg"},
         NEW b \in Nat, NEW c \in 1..(Cells(vm) + 1), Cells(vm) \in Nat,
         Then([Select(vm, b) EXCEPT !.cellN = c], Due("play_Cell"))
  PROVE  IInv'
<1> DEFINE u == Select(vm, b)
           w == [u EXCEPT !.cellN = c]
<1>1. Same(vm, u) /\ Sane(u, todo.op) /\ u \in Machine /\ InChain(u) /\ Cells(u) = Cells(vm)
  BY SelectSane
<1> HIDE DEF u
<1>2. Moved(u, w) /\ w.cellN = c
  BY <1>1 DEF Machine, Moved, SameChain
<1> HIDE DEF w
<1>3. Sane(w, todo.op) /\ InChain(w) /\ Cells(w) = Cells(vm)
  BY <1>1, <1>2, MovedKeeps, MovedSane
<1>4. Goes(w, Due("play_Cell"), todo.op)
  BY <1>2, <1>3, CellGoes
<1> QED BY <1>4, ThenKeeps DEF w, u

(* A link to a program of the chain. *)
LEMMA ToProgramKeeps ==
  ASSUME IInv, link # Idle, Sane(vm, todo.op), InChain(vm), todo.op \notin {"anyway", "last_pg"},
         NEW b \in Nat, NEW n \in 1..(NrOfPrograms(vm) + 1), NrOfPrograms(vm) \in Nat,
         Then([Select(vm, b) EXCEPT !.pgN = n], Due("play_PG"))
  PROVE  IInv'
<1> DEFINE u == Select(vm, b)
           w == [u EXCEPT !.pgN = n]
<1>1. Same(vm, u) /\ Sane(u, todo.op) /\ u \in Machine /\ InChain(u) /\ NrOfPrograms(u) = NrOfPrograms(vm)
  BY SelectSane
<1> HIDE DEF u
<1>2. Moved(u, w) /\ w.pgN = n
  BY <1>1 DEF Machine, Moved, SameChain
<1> HIDE DEF w
<1>3. Sane(w, todo.op) /\ InChain(w) /\ NrOfPrograms(w) = NrOfPrograms(vm)
  BY <1>1, <1>2, MovedKeeps, MovedSane
<1>4. Goes(w, Due("play_PG"), todo.op)
  BY <1>2, <1>3, ProgramGoes
<1> QED BY <1>4, ThenKeeps DEF w, u

(* LinkTopC, LinkNextC and LinkPrevC stay among the cells of the chain. *)
LEMMA LinkCKeeps == ASSUME IInv, LinkC PROVE IInv'
<1>1. link.cmd \in {"LinkTopC", "LinkNextC", "LinkPrevC"} /\ todo.op # "anyway"
  BY DEF LinkC, At
<1>2. /\ Sane(vm, todo.op) /\ vm \in Machine /\ InChain(vm) /\ link # Idle /\ todo.op # "last_pg"
      /\ LinkFits(vm, link) /\ link.d1 \in Nat /\ Cells(vm) \in Nat
  BY <1>1, LinkUnderWay DEF WhilePlaying, Back
<1>3. Plays(vm) /\ (link.cmd = "LinkPrevC" => vm.cellN > 1)
  BY <1>1, <1>2 DEF LinkFits, WhilePlaying, Back
<1>4. vm.cellN \in 1..Cells(vm) /\ Select(vm, link.d1).cellN = vm.cellN
  BY <1>2, <1>3, PlaysIn, SelectKeeps DEF Same
<1> DEFINE c == CASE link.cmd = "LinkTopC" -> vm.cellN [] link.cmd = "LinkNextC" -> vm.cellN + 1
                  [] link.cmd = "LinkPrevC" -> vm.cellN - 1
<1>5. c \in 1..(Cells(vm) + 1)
  BY <1>1, <1>2, <1>3, <1>4
<1>6. Then([Select(vm, link.d1) EXCEPT !.cellN = c], Due("play_Cell"))
  BY <1>1, <1>4 DEF LinkC
<1> HIDE DEF c
<1> QED BY <1>1, <1>2, <1>5, <1>6, ToCellKeeps

(* LinkTopPG, LinkNextPG and LinkPrevPG stay among its programs. *)
LEMMA LinkPGKeeps == ASSUME IInv, LinkPG PROVE IInv'
<1>1. link.cmd \in {"LinkTopPG", "LinkNextPG", "LinkPrevPG"} /\ todo.op # "anyway"
  BY DEF LinkPG, At
<1>2. /\ Sane(vm, todo.op) /\ vm \in Machine /\ InChain(vm) /\ link # Idle /\ todo.op # "last_pg"
      /\ LinkFits(vm, link) /\ link.d1 \in Nat /\ NrOfPrograms(vm) \in Nat
  BY <1>1, LinkUnderWay DEF WhilePlaying, Back
<1>3. Plays(vm) /\ (link.cmd = "LinkPrevPG" => vm.pgN > 1)
  BY <1>1, <1>2 DEF LinkFits, WhilePlaying, Back
<1>4. vm.pgN \in 1..NrOfPrograms(vm) /\ Select(vm, link.d1).pgN = vm.pgN
  BY <1>2, <1>3, PlaysIn, SelectKeeps DEF Same
<1> DEFINE n == CASE link.cmd = "LinkTopPG" -> vm.pgN [] link.cmd = "LinkNextPG" -> vm.pgN + 1
                  [] link.cmd = "LinkPrevPG" -> vm.pgN - 1
<1>5. n \in 1..(NrOfPrograms(vm) + 1)
  BY <1>1, <1>2, <1>3, <1>4
<1>6. Then([Select(vm, link.d1) EXCEPT !.pgN = n], Due("play_PG"))
  BY <1>1, <1>4 DEF LinkPG
<1> HIDE DEF n
<1> QED BY <1>1, <1>2, <1>5, <1>6, ToProgramKeeps

(* LinkTopPGC plays the chain again. *)
LEMMA LinkTopPGCKeeps == ASSUME IInv, LinkTopPGC PROVE IInv'
<1>1. link.cmd = "LinkTopPGC" /\ todo.op # "anyway"
  BY DEF LinkTopPGC, At
<1>2. /\ Sane(vm, todo.op) /\ vm \in Machine /\ InChain(vm) /\ link # Idle /\ todo.op # "last_pg"
      /\ link.d1 \in Nat
  BY <1>1, LinkUnderWay DEF Anywhere
<1> DEFINE w == Select(vm, link.d1)
<1>3. Sane(w, todo.op) /\ InChain(w)
  BY <1>2, SelectSane
<1>4. Then(w, PlayPgc)
  BY DEF LinkTopPGC
<1> HIDE DEF w
<1>5. PlayPgc \in LinkType /\ PlayPgc.cmd = "play_PGC"
  BY DEF PlayPgc, Due, Link, LinkType, LinkCmds, PlayCmds
<1>6. LinkFits(w, PlayPgc)
  BY <1>5, DueFits DEF PlayLinks
<1>7. Goes(w, PlayPgc, todo.op)
  BY <1>1, <1>2, <1>3, <1>5, <1>6 DEF Goes, Sane, Sound
<1> QED BY <1>2, <1>4, <1>7, ThenKeeps

(* LinkNextPGC, LinkPrevPGC and LinkGoUpPGC enter a neighbour, or end      *)
(* playback.                                                               *)
LEMMA LinkPGCKeeps == ASSUME IInv, LinkPGC PROVE IInv'
<1>1. link.cmd \in {"LinkNextPGC", "LinkPrevPGC", "LinkGoUpPGC"} /\ todo.op # "anyway"
  BY DEF LinkPGC, At
<1>2. /\ Sane(vm, todo.op) /\ vm \in Machine /\ InChain(vm) /\ link # Idle /\ todo.op # "last_pg"
      /\ link.d1 \in Nat
  BY <1>1, LinkUnderWay DEF Anywhere
<1> DEFINE w == Select(vm, link.d1)
<1>3. w \in Machine /\ Sane(w, todo.op) /\ InChain(w) /\ Pgc(w) = Pgc(vm)
  BY <1>2, SelectSane
<1>4. PICK n \in {Pgc(vm).next, Pgc(vm).prev, Pgc(vm).goup} : ToChain(w, n)
  BY <1>1 DEF LinkPGC
<1> HIDE DEF w
<1>5. HasPgcn(w, n) => w.domain # "fp" /\ (w.domain \in {"title", "vtsm"} => w.vtsi = w.vtsN)
  BY <1>3, LinkedChain
<1> QED BY <1>1, <1>2, <1>3, <1>4, <1>5, ToChainKeeps

(* LinkTailPGC goes to the post commands. *)
LEMMA LinkTailPGCKeeps == ASSUME IInv, LinkTailPGC PROVE IInv'
<1>1. link.cmd = "LinkTailPGC" /\ todo.op # "anyway"
  BY DEF LinkTailPGC, At
<1>2. /\ Sane(vm, todo.op) /\ vm \in Machine /\ InChain(vm) /\ link # Idle /\ todo.op # "last_pg"
      /\ link.d1 \in Nat
  BY <1>1, LinkUnderWay DEF Anywhere
<1>3. Sane(Select(vm, link.d1), todo.op) /\ InChain(Select(vm, link.d1))
  BY <1>2, SelectSane
<1>4. Goes(Select(vm, link.d1), Due("play_PGC_post"), todo.op)
  BY <1>1, <1>2, <1>3, PostGoes
<1> QED BY <1>2, <1>4, ThenKeeps DEF LinkTailPGC

(* A chain that must be there is entered like any other. *)
LEMMA MustIsTo == ASSUME NEW v, NEW n, MustChain(v, n) PROVE ToChain(v, n)
BY DEF MustChain, ToChain

(* LinkPGCN enters a chain of the table. *)
LEMMA LinkPGCNKeeps == ASSUME IInv, LinkPGCN PROVE IInv'
<1>1. link.cmd = "LinkPGCN" /\ todo.op # "anyway"
  BY DEF LinkPGCN, At
<1>2. /\ Sane(vm, todo.op) /\ vm \in Machine /\ InChain(vm) /\ link # Idle /\ todo.op # "last_pg"
      /\ Fits(vm.pgc[1], Pgc(vm), link)
  BY <1>1, LinkUnderWay DEF Anywhere
<1>3. vm.domain # "fp" /\ (vm.domain \in {"title", "vtsm"} => vm.vtsi = vm.vtsN)
  BY <1>1, <1>2, ChainOf DEF Fits
<1>4. ToChain(vm, link.d1)
  BY MustIsTo DEF LinkPGCN
<1> QED BY <1>1, <1>2, <1>3, <1>4, ToChainKeeps

(* LinkPGN plays a program of the chain. *)
LEMMA LinkPGNKeeps == ASSUME IInv, LinkPGN PROVE IInv'
<1>1. link.cmd = "LinkPGN" /\ todo.op # "anyway"
  BY DEF LinkPGN, At
<1>2. /\ Sane(vm, todo.op) /\ vm \in Machine /\ InChain(vm) /\ link # Idle /\ todo.op # "last_pg"
      /\ Fits(vm.pgc[1], Pgc(vm), link) /\ link.d2 \in Nat /\ NrOfPrograms(vm) \in Nat
  BY <1>1, LinkUnderWay DEF Anywhere
<1>3. link.d1 \in 1..(NrOfPrograms(vm) + 1)
  BY <1>1, <1>2 DEF Fits, NrOfPrograms
<1> QED BY <1>1, <1>2, <1>3, ToProgramKeeps DEF LinkPGN

(* LinkCN plays a cell of the chain. *)
LEMMA LinkCNKeeps == ASSUME IInv, LinkCN PROVE IInv'
<1>1. link.cmd = "LinkCN" /\ todo.op # "anyway"
  BY DEF LinkCN, At
<1>2. /\ Sane(vm, todo.op) /\ vm \in Machine /\ InChain(vm) /\ link # Idle /\ todo.op # "last_pg"
      /\ Fits(vm.pgc[1], Pgc(vm), link) /\ link.d2 \in Nat /\ Cells(vm) \in Nat
  BY <1>1, LinkUnderWay DEF Anywhere
<1>3. link.d1 \in 1..(Cells(vm) + 1)
  BY <1>1, <1>2 DEF Fits, Cells
<1> QED BY <1>1, <1>2, <1>3, ToCellKeeps DEF LinkCN

(* LinkRSM opens the VTS, looks its chain up and restores the registers. *)
Resumed == [SetPgcn([OpenVtsi(vm, vm.rsm.vtsN) EXCEPT !.domain = "title"], vm.rsm.pgcN) EXCEPT !.regs = vm.rsm.regs]

(* The machine as it is in the title it resumes. *)
LEMMA ResumedInTitle ==
  ASSUME vm \in Machine, RsmOK(vm), vm.rsm.vtsN # 0, NEW b \in Nat
  PROVE  LET w == Select(Resumed, b)
             t == <<"title", vm.rsm.vtsN>>
         IN  /\ w \in Machine /\ InChain(w) /\ w.domain = "title" /\ w.stopped = vm.stopped
             /\ w.vtsN = vm.rsm.vtsN /\ w.vtsi = vm.rsm.vtsN /\ w.pgcN = vm.rsm.pgcN /\ w.rsm = vm.rsm
             /\ Pgc(w) = Pgcit[t][vm.rsm.pgcN] /\ vm.rsm.cellN <= Cells(w)
             /\ w.regs.ttn = vm.rsm.regs.ttn /\ w.regs.vts_ttn = vm.rsm.regs.vts_ttn
             /\ w.regs.tt_pgcn = vm.rsm.regs.tt_pgcn
<1> DEFINE n == vm.rsm.vtsN
           t == <<"title", n>>
           u == OpenVtsi(vm, n)
           v == [u EXCEPT !.domain = "title"]
           x == SetPgcn(v, vm.rsm.pgcN)
           y == [x EXCEPT !.regs = vm.rsm.regs]
           w == Select(y, b)
<1>1. n \in Vts /\ vm.rsm.regs \in Regs
  BY MachineFields
<1>2. t \in DOMAIN Pgcit /\ vm.rsm.pgcN \in DOMAIN Pgcit[t]
      /\ vm.rsm.cellN <= Len(Pgcit[t][vm.rsm.pgcN].cells)
  BY DEF RsmOK
<1>3. u \in Machine /\ u.vtsN = n /\ u.vtsi = n /\ u.rsm = vm.rsm /\ u.stopped = vm.stopped
  BY <1>1, OpenKeeps
<1>4. Resumed = y
  BY DEF Resumed
<1> HIDE DEF u, n
<1>5. v \in Machine /\ v.domain = "title" /\ v.vtsN = n /\ v.vtsi = n /\ v.rsm = vm.rsm /\ v.stopped = vm.stopped
  BY <1>3 DEF Machine, Domains
<1> HIDE DEF v
<1>6. Table(v) = t
  BY <1>5 DEF Table
<1>7. HasPgcn(v, vm.rsm.pgcN)
  BY <1>2, <1>6 DEF HasPgcn, HasTable
<1>8. /\ x \in Machine /\ InChain(x) /\ x.vtsN = n /\ x.vtsi = n /\ x.rsm = vm.rsm /\ x.domain = "title"
      /\ x.stopped = vm.stopped /\ Pgc(x) = Pgcit[t][vm.rsm.pgcN] /\ x.pgcN = vm.rsm.pgcN
  BY <1>5, <1>6, <1>7, SetPgcnEnters
<1> HIDE DEF x
<1>9. Moved(x, y) /\ y.regs = vm.rsm.regs
  BY <1>1, <1>8 DEF Machine, Moved, SameChain
<1> HIDE DEF y
<1>10. Same(y, w) /\ w.regs.ttn = y.regs.ttn /\ w.regs.vts_ttn = y.regs.vts_ttn /\ w.regs.tt_pgcn = y.regs.tt_pgcn
  BY <1>9, SelectKeeps DEF Moved
<1> HIDE DEF w
<1>11. Moved(x, w)
  BY <1>9, <1>10 DEF Same, Moved, SameChain
<1>12. w \in Machine /\ InChain(w) /\ Pgc(w) = Pgc(x)
  BY <1>8, <1>11, MovedKeeps DEF Moved
<1> QED BY <1>2, <1>4, <1>8, <1>9, <1>10, <1>11, <1>12 DEF Moved, SameChain, Cells, n, w

(* LinkRSM resumes a title in the cell it was left in, or at its first     *)
(* program.                                                                *)
LEMMA LinkRSMKeeps == ASSUME IInv, LinkRSM PROVE IInv'
<1>1. link.cmd = "LinkRSM" /\ todo.op # "anyway"
  BY DEF LinkRSM, At
<1>2. /\ Sane(vm, todo.op) /\ vm \in Machine /\ InChain(vm) /\ link # Idle /\ todo.op # "last_pg"
      /\ LinkFits(vm, link) /\ link.d1 \in Nat
  BY <1>1, LinkUnderWay DEF WhilePlaying
<1>3. ~vm.stopped /\ RsmOK(vm)
  BY <1>1, <1>2 DEF LinkFits, WhilePlaying, Sane
<1>4. CASE vm.rsm.vtsN = 0 /\ Then(vm, Exit)
  <2>1. Goes(vm, Exit, todo.op)
    BY <1>1, <1>2, ExitGoes
  <2> QED BY <1>2, <1>4, <2>1, ThenKeeps
<1>5. CASE vm.rsm.vtsN # 0
  <2> DEFINE w == Select(Resumed, link.d1)
  <2>1. vm.rsm.cellN \in Nat /\ vm.rsm.blockN \in Blocks
    BY <1>2, MachineFields
  <2>2. \/ vm.rsm.cellN = 0 /\ Then([w EXCEPT !.pgN = 1], Due("play_PG"))
        \/ vm.rsm.cellN # 0 /\ Then(SetPgn([w EXCEPT !.cellN = vm.rsm.cellN]),
                                    Link("PlayThis", vm.rsm.blockN, 0, 0))
    BY <1>5 DEF LinkRSM, Resumed
  <2>3. /\ w \in Machine /\ InChain(w) /\ w.stopped = vm.stopped /\ w.vtsN = w.vtsi /\ w.rsm = vm.rsm
        /\ vm.rsm.cellN <= Cells(w)
    BY <1>2, <1>3, <1>5, ResumedInTitle
  <2> HIDE DEF w
  <2>4. Sane(w, todo.op) /\ NrOfPrograms(w) \in Nat
    BY <1>3, <2>3, ChainOf DEF Sane, RsmOK
  <2>5. CASE vm.rsm.cellN = 0 /\ Then([w EXCEPT !.pgN = 1], Due("play_PG"))
    <3> DEFINE z == [w EXCEPT !.pgN = 1]
    <3>1. Moved(w, z) /\ z.pgN = 1
      BY <2>3 DEF Machine, Moved, SameChain
    <3> HIDE DEF z
    <3>2. Sane(z, todo.op) /\ InChain(z) /\ NrOfPrograms(z) = NrOfPrograms(w)
      BY <2>3, <2>4, <3>1, MovedKeeps, MovedSane
    <3>3. Goes(z, Due("play_PG"), todo.op)
      BY <1>2, <2>4, <3>1, <3>2, ProgramGoes
    <3> QED BY <1>2, <2>5, <3>3, ThenKeeps DEF z
  <2>6. CASE vm.rsm.cellN # 0 /\ Then(SetPgn([w EXCEPT !.cellN = vm.rsm.cellN]),
                                      Link("PlayThis", vm.rsm.blockN, 0, 0))
    <3> DEFINE z == [w EXCEPT !.cellN = vm.rsm.cellN]
               s == SetPgn(z)
    <3>1. Moved(w, z) /\ z.cellN = vm.rsm.cellN
      BY <2>1, <2>3 DEF Machine, Moved, SameChain
    <3> HIDE DEF z
    <3>2. z \in Machine /\ Sane(z, todo.op) /\ InChain(z) /\ Cells(z) = Cells(w)
      BY <2>3, <2>4, <3>1, MovedKeeps, MovedSane DEF Moved
    <3>3. z.cellN \in 1..Cells(z)
      BY <2>1, <2>3, <2>6, <3>1, <3>2, ChainOf
    <3>4. Moved(z, s) /\ Plays(s)
      BY <3>2, <3>3, SetPgnMoves
    <3> HIDE DEF s
    <3>5. Sane(s, todo.op) /\ InChain(s)
      BY <3>2, <3>4, MovedKeeps, MovedSane
    <3>6. Goes(s, Link("PlayThis", vm.rsm.blockN, 0, 0), todo.op)
      BY <1>2, <2>1, <3>4, <3>5, PlayThisGoes
    <3> QED BY <1>2, <2>6, <3>6, ThenKeeps DEF s, z
  <2> QED BY <2>2, <2>5, <2>6
<1> QED BY <1>4, <1>5 DEF LinkRSM

(* A part that exists, from a machine in any chain. *)
LEMMA PartGoes ==
  ASSUME NEW v, NEW op, Sane(v, op), op # "last_pg", NEW vts, NEW ttn, NEW part, HasPart(vts, ttn, part),
         NEW play \in {"play_PG", "play_PGC", "play_PGC_PG"}
  PROVE  Goes(SetVtsPtt(v, vts, ttn, part), Due(play), op)
<1> DEFINE w == SetVtsPtt(v, vts, ttn, part)
<1>1. /\ w \in Machine /\ InChain(w) /\ w.domain = "title" /\ w.vtsN = vts /\ w.vtsi = vts
      /\ w.pgN \in 1..(NrOfPrograms(w) + 1)
      /\ w.rsm = v.rsm /\ w.stopped = v.stopped
  BY SetVtsPttEnters DEF Sane
<1> HIDE DEF w
<1>2. Sane(w, op)
  BY <1>1 DEF Sane, RsmOK
<1>3. Due(play) \in LinkType /\ Due(play).cmd = play
  BY DEF Due, Link, LinkType, LinkCmds, PlayCmds
<1>4. LinkFits(w, Due(play))
  BY <1>3, DueFits DEF PlayLinks
<1>5. Goes(w, Due(play), op)
  BY <1>1, <1>2, <1>3, <1>4 DEF Goes, Sane, Sound
<1> QED BY <1>5 DEF w

(* LinkPTTN plays a part of the title. *)
LEMMA LinkPTTNKeeps == ASSUME IInv, LinkPTTN PROVE IInv'
<1>1. link.cmd = "LinkPTTN" /\ todo.op # "anyway"
  BY DEF LinkPTTN, At
<1>2. /\ Sane(vm, todo.op) /\ vm \in Machine /\ InChain(vm) /\ link # Idle /\ todo.op # "last_pg"
      /\ Fits(vm.pgc[1], Pgc(vm), link) /\ link.d2 \in Nat
  BY <1>1, LinkUnderWay DEF Anywhere
<1>3. vm.domain = "title" /\ vm.vtsi = vm.vtsN /\ vm.vtsN \in Vts
  BY <1>1, <1>2, ChainOf DEF Fits
<1> DEFINE v == Select(vm, link.d2)
           w == [OpenVtsi(v, vm.vtsN) EXCEPT !.domain = "title"]
<1>4. Same(vm, v) /\ Sane(v, todo.op) /\ v \in Machine /\ InChain(v)
  BY <1>2, SelectSane
<1>5. ToPart(v, vm.vtsN, vm.regs.vts_ttn, link.d1, "play_PG")
  BY DEF LinkPTTN
<1> HIDE DEF v
<1>6. CASE HasPart(vm.vtsN, vm.regs.vts_ttn, link.d1)
  <2>1. Goes(SetVtsPtt(v, vm.vtsN, vm.regs.vts_ttn, link.d1), Due("play_PG"), todo.op)
    BY <1>2, <1>4, <1>6, PartGoes
  <2> QED BY <1>2, <1>5, <1>6, <2>1, ThenKeeps DEF ToPart
<1>7. CASE ~HasPart(vm.vtsN, vm.regs.vts_ttn, link.d1)
  <2>1. w = v
    BY <1>3, <1>4 DEF OpenVtsi, Same, Moved, SameChain, Machine
  <2>2. Goes(v, Exit, todo.op)
    BY <1>1, <1>2, <1>4, ExitGoes
  <2> QED BY <1>2, <1>5, <1>7, <2>1, <2>2, ThenKeeps DEF ToPart
<1> QED BY <1>6, <1>7

(* JumpTT plays a title. *)
LEMMA JumpTTKeeps == ASSUME IInv, JumpTT PROVE IInv'
<1>1. link.cmd = "JumpTT" /\ todo.op # "anyway"
  BY DEF JumpTT, At
<1>2. /\ Sane(vm, todo.op) /\ link # Idle /\ todo.op # "last_pg" /\ Fits(vm.pgc[1], Pgc(vm), link)
  BY <1>1, LinkUnderWay DEF Anywhere
<1>3. HasPart(Titles[link.d1].vts, Titles[link.d1].ttn, 1)
  BY <1>1, <1>2 DEF Fits
<1>4. Goes(SetVtsPtt(vm, Titles[link.d1].vts, Titles[link.d1].ttn, 1), Due("play_PGC"), todo.op)
  BY <1>2, <1>3, PartGoes
<1> QED BY <1>2, <1>3, <1>4, ThenKeeps DEF JumpTT, ToPart

(* JumpVTS_TT plays a title of the VTS. *)
LEMMA JumpVTS_TTKeeps == ASSUME IInv, JumpVTS_TT PROVE IInv'
<1>1. link.cmd = "JumpVTS_TT" /\ todo.op # "anyway"
  BY DEF JumpVTS_TT, At
<1>2. /\ Sane(vm, todo.op) /\ link # Idle /\ todo.op # "last_pg" /\ Fits(vm.pgc[1], Pgc(vm), link)
      /\ vm \in Machine /\ InChain(vm)
  BY <1>1, LinkUnderWay DEF Anywhere
<1>3. HasPart(vm.vtsN, link.d1, 1)
  BY <1>1, <1>2, ChainOf DEF Fits
<1>4. Goes(SetVtsPtt(vm, vm.vtsN, link.d1, 1), Due("play_PGC"), todo.op)
  BY <1>2, <1>3, PartGoes
<1> QED BY <1>2, <1>3, <1>4, ThenKeeps DEF JumpVTS_TT, ToPart

(* JumpVTS_PTT plays a part of a title of the VTS. *)
LEMMA JumpVTS_PTTKeeps == ASSUME IInv, JumpVTS_PTT PROVE IInv'
<1>1. link.cmd = "JumpVTS_PTT" /\ todo.op # "anyway"
  BY DEF JumpVTS_PTT, At
<1>2. /\ Sane(vm, todo.op) /\ link # Idle /\ todo.op # "last_pg" /\ Fits(vm.pgc[1], Pgc(vm), link)
      /\ vm \in Machine /\ InChain(vm)
  BY <1>1, LinkUnderWay DEF Anywhere
<1>3. HasPart(vm.vtsN, link.d1, link.d2)
  BY <1>1, <1>2, ChainOf DEF Fits
<1>4. Goes(SetVtsPtt(vm, vm.vtsN, link.d1, link.d2), Due("play_PGC_PG"), todo.op)
  BY <1>2, <1>3, PartGoes
<1> QED BY <1>2, <1>3, <1>4, ThenKeeps DEF JumpVTS_PTT, ToPart
-----------------------------------------------------------------------------
(* Jumps and calls to menus and to First Play *)

(* First Play may be played. *)
LEMMA FpGoes ==
  ASSUME NEW v, NEW op, Sane(v, op), InChain(v), op \notin {"anyway", "last_pg"}
  PROVE  Goes(v, PlayPgc, op)
<1>1. PlayPgc \in LinkType /\ PlayPgc.cmd = "play_PGC"
  BY DEF PlayPgc, Due, Link, LinkType, LinkCmds, PlayCmds
<1>2. LinkFits(v, PlayPgc)
  BY <1>1, DueFits DEF PlayLinks
<1> QED BY <1>1, <1>2 DEF Goes, Sane, Sound

(* A menu or a chain of a menu domain, or the end of playback where there  *)
(* are none.                                                               *)
LEMMA ToMenusKeeps ==
  ASSUME IInv, link # Idle, Sane(vm, todo.op), todo.op \notin {"anyway", "last_pg"}, InChain(vm),
         NEW v, Sane(v, todo.op), v.domain \in {"vmgm", "vtsm"}, v.domain = "vtsm" => v.vtsi = v.vtsN,
         vm.domain = "title" => v.vtsN = vm.vtsN /\ v.vtsi = vm.vtsi,
         NEW n, IF HasTable(v) THEN MustChain(v, n) ELSE NoMenus(v)
  PROVE  IInv'
<1>1. CASE HasTable(v) /\ MustChain(v, n)
  BY <1>1, MustIsTo, ToChainKeeps
<1>2. CASE NoMenus(v)
  <2> DEFINE w == [vm EXCEPT !.vtsN = v.vtsN, !.vtsi = v.vtsi]
  <2>1. v.vtsN \in {-1} \cup Vts /\ v.vtsi \in {0} \cup Vts /\ vm \in Machine /\ v \in Machine
    BY MachineFields DEF Sane
  <2>2. w \in Machine /\ w.vtsN = v.vtsN /\ w.vtsi = v.vtsi /\ w.rsm = vm.rsm /\ w.stopped = vm.stopped
        /\ w.domain = vm.domain /\ w.pgc = vm.pgc /\ w.pgcN = vm.pgcN
    BY <2>1 DEF Machine
  <2>3. Then(w, Exit)
    BY <1>2 DEF NoMenus
  <2>4. w.domain = "title" => w = vm
    BY <2>1, <2>2 DEF Machine
  <2> HIDE DEF w
  <2>5. Sane(w, todo.op)
    BY <2>2 DEF Sane, RsmOK
  <2>6. Goes(w, Exit, todo.op)
    BY <2>4, <2>5, ExitGoes
  <2> QED BY <2>3, <2>6, ThenKeeps
<1> QED BY <1>1, <1>2

(* JumpSS_FP plays First Play. *)
LEMMA JumpSS_FPKeeps == ASSUME IInv, JumpSS_FP PROVE IInv'
<1>1. link.cmd = "JumpSS_FP" /\ todo.op # "anyway"
  BY DEF JumpSS_FP, At
<1>2. Sane(vm, todo.op) /\ link # Idle /\ todo.op # "last_pg" /\ vm \in Machine
  BY <1>1, LinkUnderWay DEF Anywhere
<1>3. Sane(SetFp(vm), todo.op) /\ InChain(SetFp(vm))
  BY <1>2, SetFpEnters DEF Sane, RsmOK
<1>4. Goes(SetFp(vm), PlayPgc, todo.op)
  BY <1>1, <1>2, <1>3, FpGoes
<1> QED BY <1>2, <1>4, ThenKeeps DEF JumpSS_FP

(* The two jumps to the manager's menus. *)
LEMMA JumpVmgmKeeps == ASSUME IInv, JumpSS_VMGM_MENU \/ JumpSS_VMGM_PGC PROVE IInv'
<1>1. link.cmd \in {"JumpSS_VMGM_MENU", "JumpSS_VMGM_PGC"} /\ todo.op # "anyway"
  BY DEF JumpSS_VMGM_MENU, JumpSS_VMGM_PGC, At
<1>2. /\ Sane(vm, todo.op) /\ link # Idle /\ todo.op # "last_pg" /\ vm \in Machine /\ InChain(vm)
      /\ Fits(vm.pgc[1], Pgc(vm), link)
  BY <1>1, LinkUnderWay DEF Anywhere
<1>3. vm.domain # "title"
  BY <1>1, <1>2, ChainOf DEF Fits
<1> DEFINE v == In(vm, "vmgm")
<1>4. v.domain = "vmgm" /\ Sane(v, todo.op)
  BY <1>2, InKeeps DEF Domains, Sane, RsmOK
<1>5. \E n : IF HasTable(v) THEN MustChain(v, n) ELSE NoMenus(v)
  BY DEF JumpSS_VMGM_MENU, JumpSS_VMGM_PGC, ToMenu, ToMenuPgc
<1> HIDE DEF v
<1> QED BY <1>1, <1>2, <1>3, <1>4, <1>5, ToMenusKeeps

(* JumpSS_VTSM opens the VTS it names, or stays in the one of the menu.    *)
ToVtsm ==
  LET v == MenusOf(vm, link.d1)
  IN  [v EXCEPT !.regs.vts_ttn = link.d2, !.regs.ttn = TT(v.vtsN, link.d2)]

(* The menus of a VTS, of another one once its file is open. *)
LEMMA VtsmOpened ==
  ASSUME vm \in Machine, link.d2 \in Nat, link.d1 = 0 => vm.vtsi = vm.vtsN, link.d1 # 0 => link.d1 \in Vts
  PROVE  LET w == ToVtsm
         IN  /\ w \in Machine /\ w.domain = "vtsm" /\ w.vtsi = w.vtsN /\ w.rsm = vm.rsm
             /\ w.stopped = vm.stopped /\ w.regs.vts_ttn = link.d2 /\ w.regs.ttn = TT(w.vtsN, link.d2)
<1> DEFINE u == IF link.d1 # 0 THEN OpenVtsi(vm, link.d1) ELSE vm
           v == In(u, "vtsm")
           r == [v.regs EXCEPT !.vts_ttn = link.d2, !.ttn = TT(v.vtsN, link.d2)]
           w == [v EXCEPT !.regs.vts_ttn = link.d2, !.regs.ttn = TT(v.vtsN, link.d2)]
<1>1. ToVtsm = w
  BY DEF ToVtsm, MenusOf
<1>2. u \in Machine /\ u.vtsi = u.vtsN /\ u.rsm = vm.rsm /\ u.stopped = vm.stopped
  BY OpenKeeps
<1> HIDE DEF u
<1>3. v \in Machine /\ v.domain = "vtsm" /\ v.vtsi = v.vtsN /\ v.rsm = vm.rsm /\ v.stopped = vm.stopped
      /\ v.regs \in Regs
  BY <1>2, InKeeps, MachineFields DEF Domains
<1> HIDE DEF v
<1>4. w = [v EXCEPT !.regs = r]
  BY <1>3 DEF Machine
<1>5. r \in Regs /\ r.vts_ttn = link.d2 /\ r.ttn = TT(v.vtsN, link.d2)
  BY <1>3, TitleNumbers DEF Regs
<1> HIDE DEF w, r
<1>6. /\ w \in Machine /\ w.domain = "vtsm" /\ w.vtsi = w.vtsN /\ w.rsm = vm.rsm /\ w.stopped = vm.stopped
      /\ w.regs = r /\ w.vtsN = v.vtsN
  BY <1>3, <1>4, <1>5 DEF Machine
<1> QED BY <1>1, <1>5, <1>6

(* JumpSS_VTSM plays a menu of a VTS. *)
LEMMA JumpSS_VTSMKeeps == ASSUME IInv, JumpSS_VTSM PROVE IInv'
<1>1. link.cmd = "JumpSS_VTSM" /\ todo.op # "anyway"
  BY DEF JumpSS_VTSM, At
<1>2. /\ Sane(vm, todo.op) /\ link # Idle /\ todo.op # "last_pg" /\ vm \in Machine /\ InChain(vm)
      /\ Fits(vm.pgc[1], Pgc(vm), link) /\ link.d2 \in Nat
  BY <1>1, LinkUnderWay DEF Anywhere
<1>3. vm.domain # "title" /\ (link.d1 = 0 => vm.domain = "vtsm") /\ (link.d1 # 0 => link.d1 \in Vts)
  BY <1>1, <1>2, ChainOf, VtsAreNumbers DEF Fits
<1> DEFINE w == ToVtsm
<1>4. w \in Machine /\ w.domain = "vtsm" /\ w.vtsi = w.vtsN /\ w.rsm = vm.rsm /\ w.stopped = vm.stopped
  BY <1>2, <1>3, ChainOf, VtsmOpened
<1>5. ToMenu(w, link.d3)
  BY DEF JumpSS_VTSM, ToVtsm
<1> HIDE DEF w
<1>6. Sane(w, todo.op)
  BY <1>2, <1>4 DEF Sane, RsmOK
<1>7. IF HasTable(w) THEN MustChain(w, MenuId(w, link.d3)) ELSE NoMenus(w)
  BY <1>5 DEF ToMenu
<1> QED BY <1>1, <1>2, <1>3, <1>4, <1>6, <1>7, ToMenusKeeps

(* The place in the title is saved first. *)
LEMMA CallSaves ==
  ASSUME IInv, todo.op # "anyway", link.cmd \in CallLinks
  PROVE  LET v == SetRsm(vm, SavedCell(link), 0)
         IN  /\ Sane(vm, todo.op) /\ link # Idle /\ todo.op # "last_pg" /\ vm \in Machine /\ InChain(vm)
             /\ vm.domain = "title" /\ v \in Machine /\ Sane(v, todo.op) /\ SameChain(vm, v)
             /\ vm.vtsi = vm.vtsN
<1>1. /\ Sane(vm, todo.op) /\ link # Idle /\ todo.op # "last_pg" /\ vm \in Machine /\ InChain(vm)
      /\ Fits(vm.pgc[1], Pgc(vm), link) /\ link.d1 \in Nat /\ link.d2 \in Nat /\ LinkFits(vm, link)
  BY LinkUnderWay DEF Anywhere, CallLinks, MenuCalls
<1>2. vm.domain = "title" /\ vm.vtsi = vm.vtsN
  BY <1>1, ChainOf DEF Fits, CallLinks, MenuCalls
<1>3. SavedCell(link) \in Nat /\ SavedCell(link) <= Cells(vm)
      /\ (SavedCell(link) = 0 => vm.cellN <= Cells(vm)) /\ 0 \in Blocks
  BY <1>1, BlockAssumption DEF LinkFits, SavedCell, Blocks
<1> DEFINE v == SetRsm(vm, SavedCell(link), 0)
<1>4. v \in Machine /\ SameChain(vm, v) /\ v.stopped = vm.stopped /\ RsmOK(v)
  BY <1>1, <1>2, <1>3, SetRsmKeeps
<1> HIDE DEF v
<1>5. Sane(v, todo.op)
  BY <1>1, <1>4 DEF Sane, SameChain
<1> QED BY <1>1, <1>2, <1>4, <1>5 DEF v

(* CallSS_FP saves the place of the title and plays First Play. *)
LEMMA CallSS_FPKeeps == ASSUME IInv, CallSS_FP PROVE IInv'
<1>1. link.cmd = "CallSS_FP" /\ todo.op # "anyway"
  BY DEF CallSS_FP, At
<1> DEFINE v == SetRsm(vm, link.d1, 0)
<1>2. link # Idle /\ todo.op # "last_pg" /\ v \in Machine /\ Sane(v, todo.op)
  BY <1>1, CallSaves DEF CallLinks, SavedCell
<1>3. Then(SetFp(v), PlayPgc)
  BY DEF CallSS_FP
<1> HIDE DEF v
<1>4. Sane(SetFp(v), todo.op) /\ InChain(SetFp(v))
  BY <1>2, SetFpEnters DEF Sane, RsmOK
<1>5. Goes(SetFp(v), PlayPgc, todo.op)
  BY <1>1, <1>2, <1>4, FpGoes
<1> QED BY <1>2, <1>3, <1>5, ThenKeeps

(* The three calls of menus save the place of the title. *)
LEMMA CallMenusKeeps ==
  ASSUME IInv, CallSS_VMGM_MENU \/ CallSS_VMGM_PGC \/ CallSS_VTSM
  PROVE  IInv'
<1>1. link.cmd \in MenuCalls /\ todo.op # "anyway"
  BY DEF CallSS_VMGM_MENU, CallSS_VMGM_PGC, CallSS_VTSM, At, MenuCalls
<1> DEFINE u == SetRsm(vm, link.d2, 0)
<1>2. SavedCell(link) = link.d2
  BY <1>1 DEF MenuCalls, SavedCell
<1>3. /\ Sane(vm, todo.op) /\ link # Idle /\ todo.op # "last_pg" /\ vm \in Machine /\ InChain(vm)
      /\ vm.domain = "title" /\ u \in Machine /\ Sane(u, todo.op) /\ SameChain(vm, u)
      /\ vm.vtsi = vm.vtsN
  BY <1>1, <1>2, CallSaves DEF CallLinks
<1>4. \E d \in {"vmgm", "vtsm"} : \E n :
        IF HasTable(In(u, d)) THEN MustChain(In(u, d), n) ELSE NoMenus(In(u, d))
  BY DEF CallSS_VMGM_MENU, CallSS_VMGM_PGC, CallSS_VTSM, ToMenu, ToMenuPgc
<1> HIDE DEF u
<1>5. PICK d \in {"vmgm", "vtsm"} : \E n :
        IF HasTable(In(u, d)) THEN MustChain(In(u, d), n) ELSE NoMenus(In(u, d))
  BY <1>4
<1> DEFINE v == In(u, d)
<1>6. v.domain = d /\ v.vtsN = u.vtsN /\ v.vtsi = u.vtsi /\ Sane(v, todo.op)
  BY <1>3, InKeeps DEF Domains, Sane, RsmOK
<1>7. v.vtsN = vm.vtsN /\ v.vtsi = vm.vtsi
  BY <1>3, <1>6 DEF SameChain
<1>8. PICK n : IF HasTable(v) THEN MustChain(v, n) ELSE NoMenus(v)
  BY <1>5
<1> HIDE DEF v
<1> QED BY <1>1, <1>3, <1>6, <1>7, <1>8, ToMenusKeeps

-----------------------------------------------------------------------------
(* The end of a call *)

(* The machine that process_command leaves plays, if it did not stop. *)
LEMMA ResultRuns ==
  ASSUME IInv, link # Idle, link.cmd \in {"PlayThis", "LinkNoLink", "Exit"},
         link.cmd = "PlayThis" \/ todo.op # "anyway"
  PROVE  /\ Result \in Machine
         /\ link.cmd # "Exit" => Plays(Result) /\ InChain(Result) /\ Pgc(Result) = Pgc(vm)
         /\ ~Result.stopped => Runs(Result)
         /\ Sane(vm, todo.op) /\ vm \in Machine
         /\ link.cmd # "PlayThis" /\ Result.stopped => link.cmd = "Exit" \/ todo.op = "try"
<1>1. /\ Goes(vm, link, todo.op) /\ Sane(vm, todo.op) /\ vm \in Machine /\ link \in LinkType
      /\ link.cmd # "Exit" => InChain(vm)
  BY UnderWay
<1>2. link.cmd # "Exit" => Plays(vm)
  BY <1>1 DEF Goes, Sound, LinkFits, WhilePlaying
<1>3. /\ Result \in Machine /\ SameChain(vm, Result) /\ Result.pgN = vm.pgN /\ Result.cellN = vm.cellN
      /\ Result.rsm = vm.rsm /\ Result.stopped = (link.cmd = "Exit" \/ vm.stopped)
  BY <1>1, ResultKeeps DEF Goes
<1>4. ASSUME link.cmd # "Exit" PROVE Plays(Result) /\ InChain(Result) /\ Pgc(Result) = Pgc(vm)
  <2>1. Moved(vm, Result) \/ Result.stopped # vm.stopped
    BY <1>3 DEF Moved
  <2>2. vm.stopped \in BOOLEAN
    BY <1>1, MachineFields
  <2>3. Moved(vm, Result)
    BY <1>3, <1>4, <2>1, <2>2
  <2>4. Pgc(Result) = Pgc(vm) /\ InChain(Result) /\ Cells(Result) = Cells(vm)
    BY <1>1, <1>4, <2>3, MovedKeeps
  <2>5. ProgramOf(Result) = ProgramOf(vm)
    BY <1>3, <2>4, SameProgram
  <2> QED BY <1>2, <1>3, <1>4, <2>4, <2>5, PlaysWhere DEF Plays
<1>5. ASSUME ~Result.stopped PROVE Runs(Result)
  <2>1. link.cmd # "Exit" /\ ~vm.stopped
    BY <1>3, <1>5
  <2>2. RsmOK(Result)
    BY <1>1, <1>3, <2>1 DEF Sane, RsmOK
  <2> QED BY <1>3, <1>4, <1>5, <2>1, <2>2 DEF Runs
<1>6. link.cmd # "PlayThis" /\ Result.stopped => link.cmd = "Exit" \/ todo.op = "try"
  BY <1>1, <1>3 DEF Sane
<1> QED BY <1>1, <1>3, <1>4, <1>5, <1>6

(* A call that ends was under way. *)
LEMMA EndedNotIdle ==
  ASSUME NEW ops, Ended(ops)
  PROVE  link # Idle /\ link.cmd \in {"PlayThis", "LinkNoLink", "Exit"} /\ todo.op \in ops
BY DEF Ended, Idle, Due, Link

(* The end of a call without more to do. *)
LEMMA FinishKeeps == ASSUME IInv, Finish PROVE IInv'
<1>1. link # Idle /\ link.cmd \in {"PlayThis", "LinkNoLink", "Exit"} /\ todo.op = "plain"
  BY EndedNotIdle DEF Finish
<1> QED BY <1>1, ResultRuns, ReturnKeeps DEF Finish

(* Setting the block of a machine leaves it playing. *)
LEMMA BlockSet ==
  ASSUME NEW v \in Machine, NEW b \in Blocks
  PROVE  LET w == [v EXCEPT !.blockN = b]
         IN  w \in Machine /\ w.stopped = v.stopped /\ (Runs(v) => Runs(w))
<1> DEFINE w == [v EXCEPT !.blockN = b]
<1>1. Moved(v, w) /\ w.cellN = v.cellN /\ w.pgN = v.pgN
  BY DEF Machine, Moved, SameChain
<1> HIDE DEF w
<1>2. w \in Machine /\ w.stopped = v.stopped
  BY <1>1 DEF Moved
<1>3. Pgc(w) = Pgc(v) /\ (RsmOK(w) <=> RsmOK(v)) /\ (InChain(w) <=> InChain(v)) /\ Cells(w) = Cells(v)
  BY <1>1, MovedKeeps
<1>4. ProgramOf(w) = ProgramOf(v)
  BY <1>1, <1>3, SameProgram
<1>5. Runs(v) => Runs(w)
  BY <1>1, <1>2, <1>3, <1>4, PlaysWhere DEF Runs, Plays
<1> QED BY <1>2, <1>5 DEF w

(* The end of vm_jump_cell_block. *)
LEMMA FinishBlockKeeps == ASSUME IInv, FinishBlock PROVE IInv'
<1>1. link # Idle /\ link.cmd \in {"PlayThis", "LinkNoLink", "Exit"} /\ todo.op = "block"
  BY EndedNotIdle DEF FinishBlock
<1>2. Result \in Machine /\ (~Result.stopped => Runs(Result))
  BY <1>1, ResultRuns
<1>3. todo.block \in Blocks
  BY DEF IInv, TypeOK
<1> DEFINE w == IF Result.cellN = todo.cell THEN [Result EXCEPT !.blockN = todo.block] ELSE Result
<1>4. w \in Machine /\ (~w.stopped => Runs(w))
  BY <1>2, <1>3, BlockSet
<1>5. Return(w)
  BY DEF FinishBlock
<1> HIDE DEF w
<1> QED BY <1>4, <1>5, ReturnKeeps

(* The end of vm_jump_prev_pg's way to the chain before: its last program  *)
(* is played.                                                              *)
LEMMA FinishPrevPgcKeeps == ASSUME IInv, FinishPrevPgc PROVE IInv'
<1>1. link # Idle /\ link.cmd \in {"PlayThis", "LinkNoLink", "Exit"} /\ todo.op = "last_pg"
  BY EndedNotIdle DEF FinishPrevPgc
<1>2. Goes(vm, link, todo.op) /\ link.cmd = "PlayThis"
  BY <1>1, UnderWay DEF Goes, Sound
<1>3. /\ Result \in Machine /\ Plays(Result) /\ InChain(Result) /\ Pgc(Result) = Pgc(vm)
      /\ Sane(vm, todo.op) /\ vm \in Machine /\ (~Result.stopped => Runs(Result))
  BY <1>1, <1>2, ResultRuns
<1>4. ~Result.stopped
  BY <1>1, <1>2, <1>3, ResultKeeps DEF Sane, Goes
<1>5. Runs(Result)
  BY <1>3, <1>4
<1> DEFINE u == Result
           n == NrOfPrograms(vm)
           w == [u EXCEPT !.pgN = n]
<1>6. NrOfPrograms(u) = n /\ n \in Nat /\ n > 0
  <2>1. NrOfPrograms(Result) = NrOfPrograms(vm)
    BY <1>3 DEF NrOfPrograms
  <2>2. Result.pgN \in 1..NrOfPrograms(Result) /\ NrOfPrograms(Result) \in Nat
    BY <1>3, PlaysIn, ChainOf
  <2> QED BY <2>1, <2>2
<1>7. GoOn(w, Due("play_PG"), Plain)
  BY DEF FinishPrevPgc
<1>8. u \in Machine /\ InChain(u) /\ Runs(u)
  BY <1>3, <1>5
<1> HIDE DEF n, u
<1>9. Moved(u, w) /\ w.pgN = n
  BY <1>6, <1>8 DEF Machine, Moved, SameChain
<1> HIDE DEF w
<1>10. /\ InChain(w) /\ NrOfPrograms(w) = n /\ w \in Machine /\ RsmOK(w) /\ ~w.stopped
  BY <1>6, <1>8, <1>9, MovedKeeps DEF Moved, Runs
<1>11. Sane(w, "plain")
  BY <1>10 DEF Sane, Tries
<1>12. Goes(w, Due("play_PG"), "plain")
  BY <1>6, <1>9, <1>10, <1>11, ProgramGoes
<1> QED BY <1>1, <1>7, <1>12, GoOnKeeps, PlainTodo DEF Tries

(* The end of vm_jump_title_part's pre commands: the part is played        *)
(* anyway.                                                                 *)
LEMMA PlayAnywayKeeps == ASSUME IInv, PlayAnyway PROVE IInv'
<1>1. todo.op = "anyway" /\ todo.op \notin Tries
  BY DEF PlayAnyway, Tries
<1>2. link # Idle
  BY <1>1 DEF IInv, Plain
<1>3. Goes(vm, link, todo.op) /\ Sane(vm, todo.op) /\ vm \in Machine /\ ~vm.stopped
  BY <1>1, <1>2, UnderWay
<1>4. CASE link.cmd = "PlayThis"
  BY <1>1, <1>2, <1>4, ResultRuns, ReturnKeeps DEF PlayAnyway
<1>5. CASE link.cmd # "PlayThis"
  <2> DEFINE next == [todo EXCEPT !.op = "plain"]
  <2>1. vm.pgN \in 1..(NrOfPrograms(vm) + 1)
    BY <1>1, <1>3, <1>5 DEF Goes, Sound
  <2>2. InChain(vm)
    BY <1>1, <1>2, <1>3, <1>5, UnderWay DEF Goes, Sound
  <2>3. Sane(vm, "plain")
    BY <1>3 DEF Sane, Tries
  <2>4. next \in [op : {"plain", "anyway", "block", "last_pg", "try", "next_pg", "resume"},
                  cell : Nat, block : Blocks, title : 0..Len(Titles), part : Parts]
        /\ next.op = "plain"
    BY DEF IInv, TypeOK
  <2>5. Goes(vm, Due("play_PG"), "plain")
    BY <2>1, <2>2, <2>3, ProgramGoes
  <2>6. GoOn(vm, Due("play_PG"), next)
    BY <1>5 DEF PlayAnyway
  <2> HIDE DEF next
  <2> QED BY <1>1, <2>4, <2>5, <2>6, GoOnKeeps DEF Tries
<1> QED BY <1>4, <1>5

(* A copy thrown away leaves the machine it was made of, which plays. *)
LEMMA DiscardKeeps == ASSUME IInv, todo.op \in Tries, Discard PROVE IInv'
<1>1. Runs(orig)
  BY DEF IInv
<1>2. TypeOK'
  BY <1>1, PlainTodo DEF IInv, TypeOK, Discard, Runs, Idle, Due, Link, LinkType
<1> QED BY <1>1, <1>2, PlainTodo DEF IInv, Discard, Ready, Runs

(* The end of a menu call on a copy. *)
LEMMA FinishTryKeeps == ASSUME IInv, FinishTry PROVE IInv'
<1>1. link # Idle /\ link.cmd \in {"PlayThis", "LinkNoLink", "Exit"} /\ todo.op = "try"
  BY EndedNotIdle DEF FinishTry
<1>2. Result \in Machine /\ (~Result.stopped => Runs(Result))
  BY <1>1, ResultRuns
<1> QED BY <1>1, <1>2, ReturnKeeps, DiscardKeeps DEF FinishTry, Tries

(* The end of dvdnav_next_pg_search's first attempt. *)
LEMMA FinishNextPgKeeps == ASSUME IInv, FinishNextPg PROVE IInv'
<1>1. link # Idle /\ link.cmd \in {"PlayThis", "LinkNoLink", "Exit"} /\ todo.op = "next_pg"
  BY EndedNotIdle DEF FinishNextPg
<1>2. Result \in Machine /\ (~Result.stopped => Runs(Result))
  BY <1>1, ResultRuns
<1>3. CASE ~Result.stopped
  BY <1>2, <1>3, ReturnKeeps DEF FinishNextPg
<1>4. CASE Result.stopped
  <2>1. Runs(orig)
    BY <1>1 DEF IInv, Tries
  <2> DEFINE w == Copy(orig)
             l == Due("play_Cell_post")
  <2>2. Runs(w) /\ w.vtsi \in {0, w.vtsN}
    BY <2>1, CopyPlays
  <2>3. GoOn(w, l, After("try"))
    BY <1>4 DEF FinishNextPg
  <2>4. l \in LinkType /\ l.cmd = "play_Cell_post"
    BY DEF Due, Link, LinkType, LinkCmds, PlayCmds
  <2> HIDE DEF w, l
  <2>5. LinkFits(w, l)
    BY <2>4, DueFits DEF PlayLinks
  <2>6. Goes(w, l, "try")
    BY <2>2, <2>4, <2>5 DEF Goes, Sound, Runs
  <2> QED BY <1>1, <2>3, <2>6, GoOnKeeps, PlainTodo DEF Tries
<1> QED BY <1>3, <1>4

(* The menu of a copy, which may have stopped. *)
LEMMA AtMenuGoes ==
  ASSUME NEW v \in Machine, NEW menu \in {Root, Title}, HasMenu(v, menu),
         v.vtsi \in {0, v.vtsN}, v.domain = "title" => InChain(v),
         ~v.stopped => RsmOK(v) /\ (v.domain = "title" => v.cellN <= Cells(v))
  PROVE  Goes(AtMenu(v, menu), PlayPgc, "try")
<1> DEFINE w == AtMenu(v, menu)
<1>1. /\ w \in Machine /\ InChain(w) /\ w.pgN = 1 /\ w.stopped = v.stopped
      /\ w.vtsi = v.vtsi /\ w.vtsN = v.vtsN
      /\ RsmOK(v) /\ (v.domain = "title" => v.cellN <= Cells(v)) => RsmOK(w)
  BY AtMenuEnters
<1> HIDE DEF w
<1>2. Sane(w, "try")
  BY <1>1 DEF Sane
<1>3. Goes(w, PlayPgc, "try")
  BY <1>1, <1>2, EnterGoes
<1> QED BY <1>3 DEF w

(* The end of a resume: the root menu is tried if it failed. *)
LEMMA FinishResumeKeeps == ASSUME IInv, FinishResume PROVE IInv'
<1>1. link # Idle /\ link.cmd \in {"PlayThis", "LinkNoLink", "Exit"} /\ todo.op = "resume"
  BY EndedNotIdle DEF FinishResume
<1>2. /\ Result \in Machine /\ (~Result.stopped => Runs(Result)) /\ vm \in Machine /\ Sane(vm, todo.op)
      /\ link.cmd # "Exit" => InChain(Result)
  BY <1>1, ResultRuns
<1>3. CASE link.cmd = "PlayThis" /\ Return(Result)
  BY <1>2, <1>3, ReturnKeeps
<1>4. CASE HasMenu(Result, Root) /\ GoOn(AtMenu(Result, Root), PlayPgc, After("try"))
  <2>1. Goes(vm, link, todo.op) /\ link \in LinkType
    BY <1>1, UnderWay
  <2>2. SameChain(vm, Result) /\ Result.stopped = (link.cmd = "Exit" \/ vm.stopped)
        /\ Result.vtsi \in {0, Result.vtsN}
    BY <1>1, <1>2, <2>1, ResultKeeps DEF Goes, Sane, Tries, SameChain
  <2>3. ASSUME Result.domain = "title" PROVE InChain(Result)
    <3>1. CASE link.cmd # "Exit"
      BY <1>2, <3>1
    <3>2. CASE link.cmd = "Exit"
      <4>1. InChain(vm)
        BY <2>1, <2>2, <2>3, <3>2 DEF Goes, Sound, SameChain
      <4>2. Table(Result) = Table(vm)
        BY <2>2 DEF SameChain, Table
      <4> QED BY <2>2, <4>1, <4>2 DEF InChain, SameChain, HasPgcn, HasTable
    <3> QED BY <3>1, <3>2
  <2>4. ~Result.stopped => RsmOK(Result) /\ Result.cellN <= Cells(Result)
    BY <1>2, PlaysIn, ChainOf DEF Runs
  <2>5. Goes(AtMenu(Result, Root), PlayPgc, "try")
    BY <1>2, <2>2, <2>3, <2>4, <1>4, AtMenuGoes
  <2> QED BY <1>1, <1>4, <2>5, GoOnKeeps, PlainTodo DEF Tries
<1>5. CASE Discard
  BY <1>1, <1>5, DiscardKeeps DEF Tries
<1> QED BY <1>3, <1>4, <1>5 DEF FinishResume
-----------------------------------------------------------------------------
(* Calls *)

(* Between calls a machine that was started plays. *)
LEMMA ReadyRuns ==
  ASSUME IInv, Ready
  PROVE  /\ Runs(vm) /\ vm \in Machine /\ InChain(vm) /\ RsmOK(vm) /\ ~vm.stopped /\ vm.domain # "fp"
         /\ Cells(vm) \in Nat /\ NrOfPrograms(vm) \in Nat
         /\ vm.cellN \in 1..Cells(vm) /\ vm.pgN \in 1..NrOfPrograms(vm)
         /\ \A op : op \notin Tries => Sane(vm, op)
         /\ todo = Plain /\ todo.op \notin Tries /\ orig = NoVM /\ link = Idle
<1>1. Runs(vm) /\ link = Idle /\ todo = Plain
  BY DEF IInv, Ready
<1>2. vm \in Machine /\ InChain(vm) /\ RsmOK(vm) /\ ~vm.stopped /\ Plays(vm)
  BY <1>1 DEF Runs
<1>3. todo.op \notin Tries
  BY <1>1, PlainTodo
<1>4. orig = NoVM
  BY <1>3 DEF IInv
<1> QED BY <1>1, <1>2, <1>3, <1>4, PlaysIn, ChainOf DEF Sane

(* The registers of a machine that was reset have their type. *)
LEMMA FirstRegsFit == FirstRegs \in Regs
<1>1. PICK i \in DOMAIN Titles : HasPart(Titles[i].vts, Titles[i].ttn, 1)
  BY TableAssumption
<1>2. 1 \in Parts
  BY <1>1, PartInTable
<1>3. Titles \in Seq([vts : Nat, ttn : Nat])
  BY TableAssumption
<1>4. i \in 1..Len(Titles) /\ Len(Titles) \in Nat
  BY <1>1, <1>3, ElementOf
<1>5. 1 \in 0..Len(Titles)
  BY <1>4
<1> QED BY <1>2, <1>5 DEF FirstRegs, Regs

(* vm_reset forgets the place to resume at. *)
LEMMA ResetVmEnters ==
  ASSUME NEW v \in Machine
  PROVE  LET w == ResetVm(v)
         IN  /\ w \in Machine /\ w.stopped = v.stopped /\ w.rsm.vtsN = 0 /\ w.vtsi = v.vtsi
             /\ w.domain = "fp" /\ w.vtsN = -1 /\ w.regs = FirstRegs
<1> DEFINE w == ResetVm(v)
           r == [v.rsm EXCEPT !.vtsN = 0, !.cellN = 0, !.blockN = 0]
<1>1. 0 \in Blocks
  BY BlockAssumption DEF Blocks
<1>2. v.rsm \in Rsm
  BY MachineFields
<1>3. r \in Rsm /\ r.vtsN = 0
  BY <1>1, <1>2 DEF Rsm
<1>4. w = [v EXCEPT !.domain = "fp", !.vtsN = -1, !.pgN = 0, !.cellN = 0, !.regs = FirstRegs, !.rsm = r]
  BY DEF ResetVm, Machine
<1> HIDE DEF r, w
<1>5. w \in Machine /\ w.stopped = v.stopped /\ w.rsm = r /\ w.vtsi = v.vtsi
      /\ w.domain = "fp" /\ w.vtsN = -1 /\ w.regs = FirstRegs
  BY <1>3, <1>4, FirstRegsFit DEF Machine, Domains
<1> QED BY <1>3, <1>5 DEF w

(* vm_start, after a reset where the machine stopped. *)
LEMMA StartKeeps == ASSUME IInv, Start PROVE IInv'
<1> DEFINE u == IF vm.stopped THEN [ResetVm(vm) EXCEPT !.stopped = FALSE] ELSE vm
           r == ResetVm(vm)
<1>1. vm \in Machine /\ (~vm.stopped => RsmOK(vm)) /\ todo = Plain /\ orig = NoVM
  BY PlainTodo DEF IInv, TypeOK, Start
<1>2. r \in Machine /\ r.rsm.vtsN = 0
  BY <1>1, ResetVmEnters
<1> HIDE DEF r
<1>3. vm.stopped => u = [r EXCEPT !.stopped = FALSE]
  BY DEF r
<1>4. u \in Machine /\ ~u.stopped /\ RsmOK(u)
  <2>1. CASE vm.stopped
    BY <1>2, <1>3, <2>1 DEF Machine, RsmOK
  <2>2. CASE ~vm.stopped
    BY <1>1, <2>2
  <2> QED BY <2>1, <2>2
<1>5. vm' = SetFp(u) /\ link' = PlayPgc /\ UNCHANGED <<todo, orig>> /\ started' = TRUE
  BY DEF Start
<1> HIDE DEF u
<1>6. vm' \in Machine /\ InChain(vm') /\ ~vm'.stopped /\ RsmOK(vm')
  BY <1>4, <1>5, SetFpEnters DEF RsmOK
<1>7. Goes(vm', link', "plain")
  BY <1>5, <1>6, FpGoes DEF Sane, Tries
<1>8. link' # Idle /\ link' \in LinkType
  BY <1>7 DEF Goes, Idle, Due, Link
<1>9. TypeOK'
  BY <1>1, <1>5, <1>6, <1>8, PlainTodo DEF TypeOK
<1> QED BY <1>1, <1>5, <1>6, <1>7, <1>8, <1>9, PlainTodo DEF IInv, Ready

(* dvdnav_reset and dvdnav_stop. *)
LEMMA ResetKeeps == ASSUME IInv, Reset PROVE IInv'
<1>1. vm \in Machine /\ todo = Plain /\ orig = NoVM
  BY PlainTodo DEF IInv, TypeOK, Reset
<1>2. vm' \in Machine /\ RsmOK(vm')
  BY <1>1, ResetVmEnters DEF Reset, RsmOK
<1> QED BY <1>1, <1>2, PlainTodo DEF IInv, TypeOK, Reset, Ready

(* A machine is stopped. *)
LEMMA StopKeeps == ASSUME IInv, Stop PROVE IInv'
<1>1. vm \in Machine /\ todo = Plain /\ orig = NoVM
  BY PlainTodo DEF IInv, TypeOK, Stop
<1>2. vm' \in Machine /\ vm'.stopped
  BY <1>1 DEF Stop, Machine
<1> QED BY <1>1, <1>2, PlainTodo DEF IInv, TypeOK, Stop, Ready

(* The player reads on within the cell. *)
LEMMA ReadOnKeeps == ASSUME IInv, NEW b \in Blocks, ReadOn(b) PROVE IInv'
<1>1. Runs(vm) /\ vm \in Machine /\ todo = Plain /\ orig = NoVM /\ link = Idle
  BY ReadyRuns DEF ReadOn
<1>2. vm' \in Machine /\ Runs(vm')
  BY <1>1, BlockSet DEF ReadOn
<1> QED BY <1>1, <1>2, PlainTodo DEF IInv, TypeOK, ReadOn, Ready, Runs

(* vm_get_next_cell. *)
LEMMA NextCellKeeps == ASSUME IInv, NextCell PROVE IInv'
<1>1. Runs(vm) /\ todo.op \notin Tries /\ GoOn(vm, Due("play_Cell_post"), Plain)
  BY ReadyRuns DEF NextCell
<1> DEFINE l == Due("play_Cell_post")
<1>2. l \in LinkType /\ l.cmd = "play_Cell_post"
  BY DEF Due, Link, LinkType, LinkCmds, PlayCmds
<1>3. GoOn(vm, l, Plain)
  BY <1>1
<1> HIDE DEF l
<1>4. LinkFits(vm, l)
  BY <1>2, DueFits DEF PlayLinks
<1>5. Goes(vm, l, "plain")
  BY <1>1, <1>2, <1>4 DEF Goes, Sound, Runs, Tries
<1> QED BY <1>1, <1>3, <1>5, GoOnKeeps, PlainTodo

(* vm_exec_cmd: the command of a button. *)
LEMMA ExecCmdKeeps == ASSUME IInv, ExecCmd PROVE IInv'
<1>1. /\ Runs(vm) /\ vm \in Machine /\ InChain(vm) /\ ~vm.stopped /\ todo.op \notin Tries
      /\ Sane(vm, "plain")
  BY ReadyRuns DEF ExecCmd, Tries
<1>2. PICK l \in Pgc(vm).buttons \ {NoJump} : GoOn(vm, l, Plain)
  BY DEF ExecCmd
<1>3. l \in Commands(Pgc(vm)) /\ CommandsFit(vm.pgc[1], Pgc(vm))
  BY <1>1, <1>2, ChainOf DEF Commands
<1>4. l.cmd \in Anywhere \cup WhilePlaying
  BY <1>2, <1>3 DEF CommandsFit
<1>5. LinkFits(vm, l) /\ l \in LinkType
  BY <1>1, <1>3, <1>4, PlayingFits, CommandTypes DEF Runs
<1>6. Goes(vm, l, "plain")
  BY <1>1, <1>4, <1>5, CommandGoes
<1> QED BY <1>1, <1>2, <1>6, GoOnKeeps, PlainTodo

(* vm_jump_top_pg. *)
LEMMA JumpTopPgKeeps == ASSUME IInv, JumpTopPg PROVE IInv'
<1>1. /\ InChain(vm) /\ todo.op \notin Tries /\ Sane(vm, "plain") /\ NrOfPrograms(vm) \in Nat
      /\ vm.pgN \in 1..NrOfPrograms(vm)
  BY ReadyRuns DEF JumpTopPg, Tries
<1>2. Goes(vm, Due("play_PG"), "plain")
  BY <1>1, ProgramGoes
<1> QED BY <1>1, <1>2, GoOnKeeps, PlainTodo DEF JumpTopPg

(* vm_jump_prev_pg, where the previous chain has programs. *)
LEMMA JumpPrevPgKeeps == ASSUME IInv, JumpPrevPg PROVE IInv'
<1>1. /\ vm \in Machine /\ InChain(vm) /\ todo.op \notin Tries /\ Sane(vm, "plain") /\ Sane(vm, "last_pg")
      /\ NrOfPrograms(vm) \in Nat /\ vm.pgN \in 1..NrOfPrograms(vm)
  BY ReadyRuns DEF JumpPrevPg, Tries
<1>2. CASE vm.pgN > 1 /\ GoOn([vm EXCEPT !.pgN = @ - 1], Due("play_PG"), Plain)
  <2> DEFINE w == [vm EXCEPT !.pgN = @ - 1]
  <2>1. Moved(vm, w) /\ w.pgN = vm.pgN - 1
    BY <1>1, <1>2 DEF Machine, Moved, SameChain
  <2>2. GoOn(w, Due("play_PG"), Plain)
    BY <1>2
  <2> HIDE DEF w
  <2>3. Sane(w, "plain") /\ InChain(w) /\ NrOfPrograms(w) = NrOfPrograms(vm)
    BY <1>1, <2>1, MovedSane, MovedKeeps
  <2>4. w.pgN \in 1..(NrOfPrograms(w) + 1)
    BY <1>1, <1>2, <2>1, <2>3
  <2>5. Goes(w, Due("play_PG"), "plain")
    BY <2>3, <2>4, ProgramGoes
  <2> QED BY <1>1, <2>2, <2>5, GoOnKeeps, PlainTodo
<1>3. CASE HasPgcn(vm, Pgc(vm).prev) /\ GoOn(SetPgcn(vm, Pgc(vm).prev), PlayPgc, After("last_pg"))
  <2> DEFINE n == Pgc(vm).prev
             w == SetPgcn(vm, n)
  <2>1. vm.domain # "fp" /\ (vm.domain \in {"title", "vtsm"} => vm.vtsi = vm.vtsN)
    BY <1>1, <1>3, LinkedChain
  <2>2. /\ w \in Machine /\ InChain(w) /\ w.vtsN = vm.vtsN /\ w.vtsi = vm.vtsi /\ w.rsm = vm.rsm
        /\ w.stopped = vm.stopped /\ Pgc(w) = Pgcit[Table(vm)][n] /\ w.pgN = 1
    BY <1>1, <1>3, <2>1, SetPgcnEnters
  <2>3. PrevFits(Table(vm), Pgc(vm)) /\ n \in DOMAIN Pgcit[Table(vm)]
    BY <1>1, <1>3, <2>1, ChainOf DEF HasPgcn
  <2>4. Pgcit[Table(vm)][n].map # <<>> /\ Pgcit[Table(vm)][n].pre \subseteq {NoJump}
    BY <2>3 DEF PrevFits
  <2>5. GoOn(w, PlayPgc, After("last_pg"))
    BY <1>3
  <2> HIDE DEF w, n
  <2>6. PlayPgc \in LinkType /\ PlayPgc.cmd = "play_PGC"
    BY DEF PlayPgc, Due, Link, LinkType, LinkCmds, PlayCmds
  <2>7. LinkFits(w, PlayPgc)
    BY <2>6, DueFits DEF PlayLinks
  <2>8. ~w.stopped /\ RsmOK(w)
    BY <1>1, <2>2 DEF Sane, RsmOK, Tries
  <2>9. Goes(w, PlayPgc, "last_pg")
    BY <2>2, <2>4, <2>6, <2>7, <2>8 DEF Goes, Sound, Tries
  <2> QED BY <1>1, <2>5, <2>9, GoOnKeeps, PlainTodo DEF Tries
<1> QED BY <1>2, <1>3 DEF JumpPrevPg

(* vm_jump_up. *)
LEMMA JumpUpKeeps == ASSUME IInv, JumpUp PROVE IInv'
<1>1. vm \in Machine /\ InChain(vm) /\ todo.op \notin Tries /\ Sane(vm, "plain")
  BY ReadyRuns DEF JumpUp, Tries
<1>2. HasPgcn(vm, Pgc(vm).goup) /\ GoOn(SetPgcn(vm, Pgc(vm).goup), PlayPgc, Plain)
  BY DEF JumpUp
<1>3. vm.domain # "fp" /\ (vm.domain \in {"title", "vtsm"} => vm.vtsi = vm.vtsN)
  BY <1>1, <1>2, LinkedChain
<1>4. Goes(SetPgcn(vm, Pgc(vm).goup), PlayPgc, "plain")
  BY <1>1, <1>2, <1>3, SetPgcnGoes
<1> QED BY <1>1, <1>2, <1>4, GoOnKeeps, PlainTodo

(* vm_jump_cell_block. *)
LEMMA JumpCellBlockKeeps == ASSUME IInv, JumpCellBlock PROVE IInv'
<1>1. vm \in Machine /\ InChain(vm) /\ todo.op \notin Tries /\ Sane(vm, "block") /\ Cells(vm) \in Nat
  BY ReadyRuns DEF JumpCellBlock, Tries
<1>2. PICK c \in 1..Cells(vm), b \in Blocks :
        GoOn([vm EXCEPT !.cellN = c], Due("play_Cell"), [After("block") EXCEPT !.cell = c, !.block = b])
  BY DEF JumpCellBlock
<1> DEFINE w == [vm EXCEPT !.cellN = c]
           next == [After("block") EXCEPT !.cell = c, !.block = b]
<1>3. Moved(vm, w) /\ w.cellN = c
  BY <1>1 DEF Machine, Moved, SameChain
<1>4. next.op = "block"
      /\ next \in [op : {"plain", "anyway", "block", "last_pg", "try", "next_pg", "resume"},
                   cell : Nat, block : Blocks, title : 0..Len(Titles), part : Parts]
  <2> DEFINE a == After("block")
  <2>1. a.op = "block"
        /\ a \in [op : {"plain", "anyway", "block", "last_pg", "try", "next_pg", "resume"},
                  cell : Nat, block : Blocks, title : 0..Len(Titles), part : Parts]
    BY PlainTodo
  <2> HIDE DEF a
  <2>2. c \in Nat
    BY <1>1
  <2>3. next = [a EXCEPT !.cell = c, !.block = b]
    BY DEF a
  <2> QED BY <2>1, <2>2, <2>3
<1>5. GoOn(w, Due("play_Cell"), next)
  BY <1>2
<1> HIDE DEF w, next
<1>6. Sane(w, "block") /\ InChain(w) /\ Cells(w) = Cells(vm)
  BY <1>1, <1>3, MovedSane, MovedKeeps
<1>7. w.cellN \in 1..(Cells(w) + 1)
  BY <1>1, <1>3, <1>6
<1>8. Goes(w, Due("play_Cell"), "block")
  BY <1>6, <1>7, CellGoes
<1> QED BY <1>1, <1>4, <1>5, <1>8, GoOnKeeps DEF Tries

(* A place in a title is played whatever the pre commands of its chain say. *)
LEMMA AnywayGoes ==
  ASSUME NEW v \in Machine, RsmOK(v), InChain(v), ~v.stopped, v.pgN \in 1..(NrOfPrograms(v) + 1)
  PROVE  Goes(v, Due("play_PGC_PG"), "anyway")
<1>1. Due("play_PGC_PG") \in LinkType /\ Due("play_PGC_PG").cmd = "play_PGC_PG"
  BY DEF Due, Link, LinkType, LinkCmds, PlayCmds
<1>2. LinkFits(v, Due("play_PGC_PG"))
  BY <1>1, DueFits DEF PlayLinks
<1> QED BY <1>1, <1>2 DEF Goes, Sound, Tries

(* vm_jump_title_part. *)
LEMMA JumpTitlePartKeeps == ASSUME IInv, NEW title, NEW part, JumpTitlePart(title, part) PROVE IInv'
<1>1. vm \in Machine /\ RsmOK(vm) /\ ~vm.stopped /\ todo.op \notin Tries
  BY ReadyRuns DEF JumpTitlePart
<1> DEFINE vts == Titles[title].vts
           ttn == Titles[title].ttn
           w == SetVtsPtt(vm, vts, ttn, part)
           a == After("anyway")
           next == [a EXCEPT !.title = title, !.part = part]
<1>2. title \in DOMAIN Titles /\ HasPart(vts, ttn, part) /\ GoOn(w, Due("play_PGC_PG"), next)
  BY DEF JumpTitlePart
<1>3. /\ w \in Machine /\ InChain(w) /\ w.pgN \in 1..(NrOfPrograms(w) + 1) /\ w.rsm = vm.rsm
      /\ w.stopped = vm.stopped
  BY <1>1, <1>2, SetVtsPttEnters
<1>4. title \in 0..Len(Titles) /\ part \in Parts
  <2>1. Titles \in Seq([vts : Nat, ttn : Nat])
    BY TableAssumption
  <2>2. title \in 1..Len(Titles) /\ Len(Titles) \in Nat
    BY <1>2, <2>1, ElementOf
  <2>3. part \in Parts
    BY <1>2, PartInTable
  <2> QED BY <2>2, <2>3
<1>5. next.op = "anyway"
      /\ next \in [op : {"plain", "anyway", "block", "last_pg", "try", "next_pg", "resume"},
                   cell : Nat, block : Blocks, title : 0..Len(Titles), part : Parts]
  <2>1. a.op = "anyway"
        /\ a \in [op : {"plain", "anyway", "block", "last_pg", "try", "next_pg", "resume"},
                  cell : Nat, block : Blocks, title : 0..Len(Titles), part : Parts]
    BY PlainTodo
  <2> HIDE DEF a
  <2> QED BY <1>4, <2>1
<1> HIDE DEF w, next
<1>6. Goes(w, Due("play_PGC_PG"), "anyway")
  BY <1>1, <1>3, AnywayGoes DEF RsmOK
<1> QED BY <1>1, <1>2, <1>5, <1>6, GoOnKeeps DEF Tries

(* vm_jump_title_program. *)
LEMMA JumpTitleProgramKeeps ==
  ASSUME IInv, NEW p \in Programs, JumpTitleProgram(p[1], p[2], p[3]) PROVE IInv'
<1>1. vm \in Machine /\ RsmOK(vm) /\ ~vm.stopped /\ todo.op \notin Tries
  BY ReadyRuns DEF JumpTitleProgram
<1> DEFINE w == SetVtsProg(vm, Titles[p[1]].vts, Titles[p[1]].ttn, p[2], p[3])
<1>2. GoOn(w, Due("play_PGC_PG"), After("anyway"))
  BY DEF JumpTitleProgram
<1>3. /\ w \in Machine /\ InChain(w) /\ w.pgN \in 1..(NrOfPrograms(w) + 1) /\ w.rsm = vm.rsm
      /\ w.stopped = vm.stopped
  BY <1>1, SetVtsProgEnters
<1> HIDE DEF w
<1>4. Goes(w, Due("play_PGC_PG"), "anyway")
  BY <1>1, <1>3, AnywayGoes DEF RsmOK
<1> QED BY <1>1, <1>2, <1>4, GoOnKeeps, PlainTodo DEF Tries

(* A call that tries on a copy of the machine. *)
LEMMA BeginCopyKeeps ==
  ASSUME IInv, Ready, NEW w, NEW l, NEW op \in Tries, BeginCopy(w, l, After(op)), Goes(w, l, op)
  PROVE  IInv'
<1>1. Runs(vm) /\ vm \in Machine
  BY ReadyRuns
<1>2. /\ After(op).op = op
      /\ After(op) \in [op : {"plain", "anyway", "block", "last_pg", "try", "next_pg", "resume"},
                        cell : Nat, block : Blocks, title : 0..Len(Titles), part : Parts]
  BY PlainTodo DEF Tries
<1>3. l # Idle /\ l \in LinkType /\ w \in Machine /\ (~w.stopped => RsmOK(w))
  BY DEF Goes, Idle, Due, Link
<1>4. TypeOK'
  BY <1>1, <1>2, <1>3 DEF IInv, TypeOK, BeginCopy
<1> QED BY <1>1, <1>2, <1>3, <1>4 DEF IInv, BeginCopy, Ready

(* dvdnav_next_pg_search: vm_jump_next_pg on a copy. *)
LEMMA JumpNextPgKeeps == ASSUME IInv, JumpNextPg PROVE IInv'
<1> DEFINE v == Copy(vm)
<1>1. Ready /\ Runs(vm)
  BY ReadyRuns DEF JumpNextPg
<1>2. Runs(v) /\ v.vtsi \in {0, v.vtsN}
  BY <1>1, CopyPlays
<1>3. \/ BeginCopy(v, Due("play_PGC_post"), After("next_pg"))
      \/ /\ ~(v.pgN >= NrOfPrograms(v))
         /\ BeginCopy([v EXCEPT !.pgN = @ + 1], Due("play_PG"), After("next_pg"))
  BY DEF JumpNextPg
<1> HIDE DEF v
<1>4. v \in Machine /\ InChain(v) /\ Sane(v, "next_pg")
  BY <1>2 DEF Runs, Sane
<1>5. v.pgN \in 1..NrOfPrograms(v) /\ NrOfPrograms(v) \in Nat
  BY <1>2, PlaysIn, ChainOf DEF Runs
<1>6. CASE BeginCopy(v, Due("play_PGC_post"), After("next_pg"))
  <2>1. Goes(v, Due("play_PGC_post"), "next_pg")
    BY <1>4, PostGoes
  <2> QED BY <1>1, <1>6, <2>1, BeginCopyKeeps DEF Tries
<1>7. CASE /\ ~(v.pgN >= NrOfPrograms(v))
           /\ BeginCopy([v EXCEPT !.pgN = @ + 1], Due("play_PG"), After("next_pg"))
  <2> DEFINE w == [v EXCEPT !.pgN = @ + 1]
  <2>1. Moved(v, w) /\ w.pgN = v.pgN + 1
    BY <1>4, <1>5 DEF Machine, Moved, SameChain
  <2>2. BeginCopy(w, Due("play_PG"), After("next_pg"))
    BY <1>7
  <2> HIDE DEF w
  <2>3. Sane(w, "next_pg") /\ InChain(w) /\ NrOfPrograms(w) = NrOfPrograms(v)
    BY <1>4, <2>1, MovedSane, MovedKeeps
  <2>4. w.pgN \in 1..(NrOfPrograms(w) + 1)
    BY <1>5, <2>1, <2>3
  <2>5. Goes(w, Due("play_PG"), "next_pg")
    BY <2>3, <2>4, ProgramGoes
  <2> QED BY <1>1, <2>2, <2>5, BeginCopyKeeps DEF Tries
<1> QED BY <1>3, <1>6, <1>7

(* dvdnav_menu_call: a resume or vm_jump_menu, on a copy. *)
LEMMA MenuCallKeeps == ASSUME IInv, NEW menu \in {Escape, Root, Title}, MenuCall(menu) PROVE IInv'
<1> DEFINE v == Copy(vm)
           id == IF menu = Escape THEN Root ELSE menu
<1>1. Ready /\ Runs(vm)
  BY ReadyRuns DEF MenuCall
<1>2. Runs(v) /\ v.vtsi \in {0, v.vtsN}
  BY <1>1, CopyPlays
<1>3. \/ BeginCopy(v, Due("LinkRSM"), After("resume"))
      \/ HasMenu(v, id) /\ BeginCopy(AtMenu(v, id), PlayPgc, After("try"))
  BY DEF MenuCall
<1>4. id \in {Root, Title}
  OBVIOUS
<1> HIDE DEF v, id
<1>5. v \in Machine /\ InChain(v) /\ RsmOK(v) /\ ~v.stopped /\ Plays(v)
  BY <1>2 DEF Runs
<1>6. CASE BeginCopy(v, Due("LinkRSM"), After("resume"))
  <2> DEFINE l == Due("LinkRSM")
  <2>1. l \in LinkType /\ l.cmd = "LinkRSM"
    BY DEF Due, Link, LinkType, LinkCmds, PlayCmds
  <2>2. BeginCopy(v, l, After("resume"))
    BY <1>6
  <2> HIDE DEF l
  <2>3. LinkFits(v, l)
    BY <1>5, <2>1 DEF LinkFits, Anywhere, CallLinks, MenuCalls
  <2>4. Goes(v, l, "resume")
    BY <1>2, <1>5, <2>1, <2>3 DEF Goes, Sound
  <2> QED BY <1>1, <2>2, <2>4, BeginCopyKeeps DEF Tries
<1>7. CASE HasMenu(v, id) /\ BeginCopy(AtMenu(v, id), PlayPgc, After("try"))
  <2>1. v.cellN <= Cells(v)
    BY <1>5, PlaysIn, ChainOf
  <2>2. Goes(AtMenu(v, id), PlayPgc, "try")
    BY <1>2, <1>4, <1>5, <1>7, <2>1, AtMenuGoes
  <2> QED BY <1>1, <1>7, <2>2, BeginCopyKeeps DEF Tries
<1> QED BY <1>3, <1>6, <1>7
-----------------------------------------------------------------------------
(* The invariant *)

(* A new machine is not started: nothing is due, and there is no place to  *)
(* resume at.                                                              *)
LEMMA InitHolds == ASSUME Init PROVE IInv
<1>1. 0 \in Blocks /\ 0 \in 0..Len(Titles) /\ 0 \in Parts
  <2>1. Len(Titles) \in Nat
    BY TableAssumption
  <2> QED BY <2>1, BlockAssumption DEF Blocks, Parts
<1> DEFINE r == [ttn |-> 0, vts_ttn |-> 0, tt_pgcn |-> 0, pttn |-> 0, btn |-> 0]
           m == [vtsN |-> 0, pgcN |-> 0, cellN |-> 0, blockN |-> 0, regs |-> r]
<1>2. r \in Regs
  BY <1>1 DEF Regs
<1>3. m \in Rsm /\ m.vtsN = 0
  BY <1>1, <1>2 DEF Rsm
<1>4. vm = [domain |-> "fp", vtsN |-> -1, vtsi |-> 0, pgc |-> <<FP, 0>>, pgcN |-> 0, pgN |-> 0,
            cellN |-> 0, blockN |-> 0, regs |-> FirstRegs, stopped |-> FALSE, rsm |-> m]
  BY DEF Init
<1> HIDE DEF m
<1>5. <<FP, 0>> \in (DOMAIN Pgcit) \X Nat
  BY DiscAssumption
<1> DEFINE q == <<FP, 0>>
<1>6. vm = [domain |-> "fp", vtsN |-> -1, vtsi |-> 0, pgc |-> q, pgcN |-> 0, pgN |-> 0,
            cellN |-> 0, blockN |-> 0, regs |-> FirstRegs, stopped |-> FALSE, rsm |-> m]
  BY <1>4
<1>7. q \in (DOMAIN Pgcit) \X Nat
  BY <1>5
<1> HIDE DEF q
<1>8. vm \in Machine /\ vm.rsm.vtsN = 0
  BY <1>1, <1>3, <1>6, <1>7, FirstRegsFit DEF Machine, Domains
<1>9. Idle \in LinkType
  BY DEF Idle, Due, Link, LinkType
<1>10. TypeOK
  BY <1>8, <1>9, PlainTodo DEF Init, TypeOK
<1> QED BY <1>8, <1>10, PlainTodo DEF Init, IInv, RsmOK, Ready

(* Every step of process_command keeps the invariant ... *)
LEMMA StepsKeep == ASSUME IInv, Steps PROVE IInv'
<1>1. CASE PlayPGC \/ PlayPGCPost \/ PlayPG \/ PlayCell \/ PlayCellPost
  BY <1>1, PlayPGCKeeps, PlayPGCPostKeeps, PlayPGKeeps, PlayCellKeeps, PlayCellPostKeeps
<1>2. CASE LinkC \/ LinkPG \/ LinkTopPGC \/ LinkPGC \/ LinkTailPGC \/ LinkRSM
  BY <1>2, LinkCKeeps, LinkPGKeeps, LinkTopPGCKeeps, LinkPGCKeeps, LinkTailPGCKeeps, LinkRSMKeeps
<1>3. CASE LinkPGCN \/ LinkPGN \/ LinkCN \/ LinkPTTN
  BY <1>3, LinkPGCNKeeps, LinkPGNKeeps, LinkCNKeeps, LinkPTTNKeeps
<1>4. CASE JumpTT \/ JumpVTS_TT \/ JumpVTS_PTT
  BY <1>4, JumpTTKeeps, JumpVTS_TTKeeps, JumpVTS_PTTKeeps
<1>5. CASE JumpSS_FP \/ JumpSS_VMGM_MENU \/ JumpSS_VMGM_PGC \/ JumpSS_VTSM
  BY <1>5, JumpSS_FPKeeps, JumpVmgmKeeps, JumpSS_VTSMKeeps
<1>6. CASE CallSS_FP \/ CallSS_VMGM_MENU \/ CallSS_VMGM_PGC \/ CallSS_VTSM
  BY <1>6, CallSS_FPKeeps, CallMenusKeeps
<1>7. CASE Finish \/ FinishBlock \/ FinishPrevPgc \/ PlayAnyway
  BY <1>7, FinishKeeps, FinishBlockKeeps, FinishPrevPgcKeeps, PlayAnywayKeeps
<1>8. CASE FinishTry \/ FinishNextPg \/ FinishResume
  BY <1>8, FinishTryKeeps, FinishNextPgKeeps, FinishResumeKeeps
<1> QED BY <1>1, <1>2, <1>3, <1>4, <1>5, <1>6, <1>7, <1>8 DEF Steps

(* ... every call begins in it ... *)
LEMMA CallsKeep == ASSUME IInv, Calls PROVE IInv'
<1>1. CASE Start \/ Reset \/ Stop
  BY <1>1, StartKeeps, ResetKeeps, StopKeeps
<1>2. CASE \E b \in Blocks : ReadOn(b)
  BY <1>2, ReadOnKeeps
<1>3. CASE NextCell \/ ExecCmd \/ JumpTopPg \/ JumpPrevPg \/ JumpUp \/ JumpNextPg
  BY <1>3, NextCellKeeps, ExecCmdKeeps, JumpTopPgKeeps, JumpPrevPgKeeps, JumpUpKeeps, JumpNextPgKeeps
<1>4. CASE JumpCellBlock
  BY <1>4, JumpCellBlockKeeps
<1>5. CASE \E title \in DOMAIN Titles :
             \E part \in DOMAIN Ptts[Titles[title].vts][Titles[title].ttn] : JumpTitlePart(title, part)
  BY <1>5, JumpTitlePartKeeps
<1>6. CASE \E p \in Programs : JumpTitleProgram(p[1], p[2], p[3])
  BY <1>6, JumpTitleProgramKeeps
<1>7. CASE \E menu \in {Escape, Root, Title} : MenuCall(menu)
  BY <1>7, MenuCallKeeps
<1> QED BY <1>1, <1>2, <1>3, <1>4, <1>5, <1>6, <1>7 DEF Calls

(* ... and nothing else matters to it. *)
LEMMA StutterKeeps == ASSUME IInv, UNCHANGED vars PROVE IInv'
<1>1. vm' = vm /\ link' = link /\ todo' = todo /\ orig' = orig /\ started' = started
  BY DEF vars
<1> QED BY <1>1 DEF IInv, TypeOK, Ready

(* The invariant is inductive. *)
LEMMA StepKeeps == ASSUME IInv, [Next]_vars PROVE IInv'
BY StepsKeep, CallsKeep, StutterKeeps DEF Next

(* A link is only ever due where it fits: the chain is the one remembered  *)
(* for the domain, programs and cells are those of the chain, commands     *)
(* come from where they may come from, and the place to resume at exists.  *)
(* Calls on a copy leave the machine they may return to playing.           *)
THEOREM Invariance == Spec => []IInv
<1>1. Init => IInv
  BY InitHolds
<1>2. IInv /\ [Next]_vars => IInv'
  BY StepKeeps
<1> QED BY <1>1, <1>2, PTL DEF Spec

(* The variables keep their types: domains, numbers and registers are      *)
(* those of the disc.                                                      *)
THEOREM TypeCorrect == Spec => []TypeOK
<1>1. IInv => TypeOK
  BY DEF IInv
<1> QED BY <1>1, Invariance, PTL

(* Whenever a call has returned and the machine is not stopped, it is in a *)
(* cell that the player can play (vm_get_next_cell and the jumps of vm.c   *)
(* leave it there).                                                        *)
THEOREM CellPlays == Spec => []InCell
<1>1. IInv => InCell
  BY DEF IInv, InCell, Runs
<1> QED BY <1>1, Invariance, PTL

(* The assertions of the play_* functions. *)
LEMMA PlayAssertsHold ==
  ASSUME IInv, link # Idle
  PROVE  /\ link.cmd = "play_PG" => vm.pgN \in 1..(NrOfPrograms(vm) + 1)
         /\ link.cmd = "play_Cell" =>
              /\ vm.cellN \in 1..(Cells(vm) + 1)
              /\ vm.cellN <= Cells(vm) => \A agl \in Angles : HasPgn(Angled(vm, agl))
         /\ link.cmd = "play_Cell_post" => vm.cellN \in 1..Cells(vm)
<1>1. /\ Goes(vm, link, todo.op) /\ vm \in Machine /\ (link.cmd # "Exit" => InChain(vm))
  BY UnderWay
<1>2. link.cmd = "play_PG" => vm.pgN \in 1..(NrOfPrograms(vm) + 1)
  BY <1>1 DEF Goes, Sound
<1>3. link.cmd = "play_Cell" => vm.cellN \in 1..(Cells(vm) + 1)
  BY <1>1 DEF Goes, Sound
<1>4. link.cmd = "play_Cell_post" => vm.cellN \in 1..Cells(vm)
  BY <1>1 DEF Goes, Sound, Plays
<1>5. ASSUME link.cmd = "play_Cell", vm.cellN <= Cells(vm), NEW agl \in Angles
      PROVE  HasPgn(Angled(vm, agl))
  <2> DEFINE w == Angled(vm, agl)
  <2>1. vm.cellN \in 1..Cells(vm) /\ InChain(vm)
    BY <1>1, <1>3, <1>5, ChainOf
  <2>2. Moved(vm, w) /\ w.cellN \in 1..Cells(vm)
    BY <1>1, <2>1, AngledMoves
  <2> HIDE DEF w
  <2>3. w \in Machine /\ Cells(w) = Cells(vm) /\ Cells(vm) \in Nat
    BY <1>1, <2>1, <2>2, MovedKeeps, ChainOf DEF Moved
  <2>4. w.regs.ttn <= Len(Titles)
    BY <2>3, MachineFields, TableAssumption
  <2>5. HasPgn(w)
    BY <2>2, <2>3, <2>4 DEF HasPgn
  <2> QED BY <2>5 DEF w
<1> QED BY <1>2, <1>3, <1>4, <1>5

(* The assertions of process_command about domains, programs and cells. *)
LEMMA LinkAssertsHold ==
  ASSUME IInv, link # Idle, todo.op # "anyway"
  PROVE  /\ link.cmd \in DOMAIN From => vm.domain \in From[link.cmd]
         /\ link.cmd = "JumpSS_VTSM" => vm.domain \in FromForVtsm
         /\ link.cmd = "LinkPrevC" => vm.cellN > 1
         /\ link.cmd = "LinkPrevPG" => vm.pgN > 1
         /\ link.cmd = "LinkPGCN" => HasPgcn(vm, link.d1)
         /\ link.cmd = "LinkNextPGC" => Pgc(vm).next # 0
         /\ link.cmd = "LinkPrevPGC" => Pgc(vm).prev # 0
         /\ link.cmd = "LinkGoUpPGC" => Pgc(vm).goup # 0
         /\ link.cmd = "JumpTT" => link.d1 \in DOMAIN Titles
<1>1. /\ Goes(vm, link, todo.op) /\ vm \in Machine /\ (link.cmd # "Exit" => InChain(vm))
  BY UnderWay
<1>2. LinkFits(vm, link)
  BY <1>1 DEF Goes, Sound
<1>3. ASSUME link.cmd \in Anywhere, link.cmd # "Exit"
      PROVE  /\ Fits(vm.pgc[1], Pgc(vm), link) /\ vm.pgc[1][1] = vm.domain
             /\ vm.domain = "fp" => vm.pgc[1] = FP
             /\ vm.domain # "fp" => vm.pgc[1] = Table(vm) /\ HasTable(vm)
  BY <1>1, <1>2, <1>3, ChainOf DEF LinkFits
<1>4. vm.domain \in Domains
  BY <1>1, MachineFields
<1>5. ASSUME link.cmd \in DOMAIN From PROVE vm.domain \in From[link.cmd]
  <2>1. link.cmd \in {"LinkPTTN", "JumpTT", "JumpVTS_TT", "JumpVTS_PTT", "JumpSS_FP",
                      "JumpSS_VMGM_MENU", "JumpSS_VMGM_PGC", "CallSS_FP", "CallSS_VMGM_MENU",
                      "CallSS_VMGM_PGC", "CallSS_VTSM"}
    BY <1>5 DEF From
  <2>2. Fits(vm.pgc[1], Pgc(vm), link) /\ vm.pgc[1][1] = vm.domain
    BY <1>3, <2>1 DEF Anywhere
  <2> QED BY <1>4, <2>1, <2>2 DEF Fits, From, Domains
<1>6. ASSUME link.cmd = "JumpSS_VTSM" PROVE vm.domain \in FromForVtsm
  <2>1. Fits(vm.pgc[1], Pgc(vm), link) /\ vm.pgc[1][1] = vm.domain
        /\ (vm.domain # "fp" => vm.pgc[1] = Table(vm)) /\ InChain(vm)
    BY <1>1, <1>3, <1>6 DEF Anywhere
  <2>2. vm.domain # "title"
    BY <1>6, <2>1 DEF Fits
  <2>3. \/ link.d1 = 0 /\ vm.domain = "vtsm"
        \/ link.d1 # 0 /\ (vm.domain = "vtsm" => link.d1 = vm.pgc[1][2])
    BY <1>6, <2>1, VtsAreNumbers DEF Fits
  <2>4. vm.domain = "vtsm" => vm.pgc[1][2] = vm.vtsN
    BY <2>1 DEF InChain, Table
  <2> QED BY <1>4, <2>2, <2>3, <2>4 DEF FromForVtsm, Domains
<1>7. link.cmd = "LinkPGCN" => HasPgcn(vm, link.d1)
  <2>1. ASSUME link.cmd = "LinkPGCN" PROVE HasPgcn(vm, link.d1)
    <3>1. /\ Fits(vm.pgc[1], Pgc(vm), link)
          /\ vm.domain = "fp" => vm.pgc[1] = FP
          /\ vm.domain # "fp" => vm.pgc[1] = Table(vm) /\ HasTable(vm)
      BY <1>3, <2>1 DEF Anywhere
    <3> QED BY <2>1, <3>1 DEF Fits, HasPgcn
  <2> QED BY <2>1
<1>8. (link.cmd = "LinkPrevC" => vm.cellN > 1) /\ (link.cmd = "LinkPrevPG" => vm.pgN > 1)
  BY <1>2 DEF LinkFits
<1>9. /\ link.cmd = "LinkNextPGC" => Pgc(vm).next # 0
      /\ link.cmd = "LinkPrevPGC" => Pgc(vm).prev # 0
      /\ link.cmd = "LinkGoUpPGC" => Pgc(vm).goup # 0
      /\ link.cmd = "JumpTT" => link.d1 \in DOMAIN Titles
  BY <1>3 DEF Fits, Anywhere
<1> QED BY <1>5, <1>6, <1>7, <1>8, <1>9

(* The menu of a VTS that a command names, or of the one of the menu. *)
LEMMA VtsmAssertsHold ==
  ASSUME IInv, link # Idle, todo.op # "anyway", link.cmd = "JumpSS_VTSM"
  PROVE  LET v == MenusOf(vm, link.d1)
         IN  (link.d1 = 0 => HasTable(v)) /\ (HasTable(v) => MenuId(v, link.d3) # 0)
<1>1. /\ Goes(vm, link, todo.op) /\ vm \in Machine /\ InChain(vm)
  BY UnderWay
<1>2. Fits(vm.pgc[1], Pgc(vm), link)
  BY <1>1 DEF Goes, Sound, LinkFits, Anywhere
<1> DEFINE u == IF link.d1 # 0 THEN OpenVtsi(vm, link.d1) ELSE vm
           v == MenusOf(vm, link.d1)
<1>3. \/ link.d1 = 0 /\ vm.domain = "vtsm" /\ vm.pgc[1] = Table(vm) /\ HasTable(vm)
      \/ link.d1 # 0 /\ link.d1 \in Vts
  BY <1>1, <1>2, ChainOf, VtsAreNumbers DEF Fits
<1>4. u \in Machine /\ (link.d1 = 0 => u = vm) /\ (link.d1 # 0 => u.vtsi = link.d1)
  BY <1>1, <1>3, OpenKeeps
<1>5. v = In(u, "vtsm")
  BY DEF MenusOf
<1> HIDE DEF u, v
<1>6. v.domain = "vtsm" /\ v.vtsi = u.vtsi
  BY <1>4, <1>5, InKeeps DEF Domains
<1>7. Table(v) = <<"vtsm", IF link.d1 # 0 THEN link.d1 ELSE vm.pgc[1][2]>>
  BY <1>3, <1>4, <1>6 DEF Table
<1>8. link.d1 = 0 => HasTable(v)
  BY <1>3, <1>7 DEF HasTable, Table
<1>9. ASSUME HasTable(v) PROVE MenuId(v, link.d3) # 0
  <2>1. HasId(Table(v), link.d3)
    BY <1>2, <1>7, <1>9 DEF Fits, HasTable
  <2> QED BY <1>9, <2>1, MenuFound
<1> QED BY <1>8, <1>9 DEF v

(* The chain is found where its number is looked for. *)
LEMMA NumberAssertHolds ==
  ASSUME IInv, Ready \/ (link # Idle /\ link.cmd # "Exit"), vm.pgc[1] = Table(vm)
  PROVE  vm.pgcN = vm.pgc[2]
<1>1. InChain(vm) /\ vm \in Machine
  BY UnderWay, ReadyRuns
<1>2. vm.domain = "fp" => FALSE
  BY <1>1 DEF InChain, Table, FP
<1> QED BY <1>1, <1>2 DEF InChain

(* The assertions about menus and resuming. *)
LEMMA MenuAssertsHold ==
  ASSUME IInv, link # Idle, todo.op # "anyway"
  PROVE  /\ link.cmd \in {"JumpSS_VMGM_MENU", "CallSS_VMGM_MENU"} /\ HasTable(In(vm, "vmgm")) =>
              MenuId(In(vm, "vmgm"), link.d1) # 0
         /\ link.cmd \in {"JumpSS_VMGM_PGC", "CallSS_VMGM_PGC"} /\ HasTable(In(vm, "vmgm")) =>
              HasPgcn(In(vm, "vmgm"), link.d1)
         /\ link.cmd = "CallSS_VTSM" /\ HasTable(In(vm, "vtsm")) =>
              MenuId(In(vm, "vtsm"), link.d1) # 0
         /\ link.cmd = "LinkRSM" /\ vm.rsm.vtsN # 0 =>
              IF vm.rsm.cellN = 0 THEN vm.cellN # 0
              ELSE vm.rsm.cellN <= Len(Pgcit[<<"title", vm.rsm.vtsN>>][vm.rsm.pgcN].cells)
<1>1. /\ Goes(vm, link, todo.op) /\ vm \in Machine /\ (link.cmd # "Exit" => InChain(vm))
  BY UnderWay
<1>2. LinkFits(vm, link)
  BY <1>1 DEF Goes, Sound
<1>3. In(vm, "vmgm").domain = "vmgm" /\ In(vm, "vtsm").domain = "vtsm" /\ In(vm, "vtsm").vtsi = vm.vtsi
  BY <1>1, InKeeps DEF Domains
<1>4. Table(In(vm, "vmgm")) = VmgmTable /\ Table(In(vm, "vtsm")) = <<"vtsm", vm.vtsi>>
  BY <1>3 DEF Table, VmgmTable
<1>5. ASSUME link.cmd \in {"JumpSS_VMGM_MENU", "CallSS_VMGM_MENU"}, HasTable(In(vm, "vmgm"))
      PROVE  MenuId(In(vm, "vmgm"), link.d1) # 0
  <2>1. Fits(vm.pgc[1], Pgc(vm), link)
    BY <1>2, <1>5 DEF LinkFits, Anywhere
  <2>2. HasId(Table(In(vm, "vmgm")), link.d1)
    BY <1>4, <1>5, <2>1 DEF Fits, HasTable
  <2> QED BY <1>5, <2>2, MenuFound
<1>6. ASSUME link.cmd \in {"JumpSS_VMGM_PGC", "CallSS_VMGM_PGC"}, HasTable(In(vm, "vmgm"))
      PROVE  HasPgcn(In(vm, "vmgm"), link.d1)
  <2>1. Fits(vm.pgc[1], Pgc(vm), link)
    BY <1>2, <1>6 DEF LinkFits, Anywhere
  <2> QED BY <1>4, <1>6, <2>1 DEF Fits, HasTable, HasPgcn
<1>7. ASSUME link.cmd = "CallSS_VTSM", HasTable(In(vm, "vtsm"))
      PROVE  MenuId(In(vm, "vtsm"), link.d1) # 0
  <2>1. Fits(vm.pgc[1], Pgc(vm), link)
    BY <1>2, <1>7 DEF LinkFits, Anywhere
  <2>2. vm.domain = "title" /\ vm.pgc[1] = Table(vm)
    BY <1>1, <1>7, <2>1, ChainOf DEF Fits
  <2>3. vm.pgc[1][2] = vm.vtsi
    BY <2>2 DEF Table
  <2>4. HasId(Table(In(vm, "vtsm")), link.d1)
    BY <1>4, <1>7, <2>1, <2>3 DEF Fits, HasTable
  <2> QED BY <1>7, <2>4, MenuFound
<1>8. ASSUME link.cmd = "LinkRSM", vm.rsm.vtsN # 0
      PROVE  IF vm.rsm.cellN = 0 THEN vm.cellN # 0
             ELSE vm.rsm.cellN <= Len(Pgcit[<<"title", vm.rsm.vtsN>>][vm.rsm.pgcN].cells)
  <2>1. ~vm.stopped /\ Plays(vm)
    BY <1>2, <1>8 DEF LinkFits, WhilePlaying
  <2>2. RsmOK(vm)
    BY <1>1, <2>1 DEF Goes
  <2>3. vm.cellN # 0
    BY <1>1, <1>8, <2>1, PlaysIn, ChainOf
  <2> QED BY <1>8, <2>2, <2>3 DEF RsmOK
<1> QED BY <1>5, <1>6, <1>7, <1>8

(* The assertions of vm.c that AssertsHold lists never fail, whatever the  *)
(* disc within the assumptions and in whatever order links and calls come. *)
THEOREM AssertionsHold == Spec => []AssertsHold
<1>1. ASSUME IInv PROVE AssertsHold
  <2>1. CASE link = Idle
    <3>1. link.cmd = "idle"
      BY <2>1 DEF Idle, Due, Link
    <3>2. link.cmd \notin DOMAIN From
      BY <3>1 DEF From
    <3> QED BY <1>1, <2>1, <3>1, <3>2, NumberAssertHolds DEF AssertsHold
  <2>2. CASE link # Idle
    BY <1>1, <2>2, PlayAssertsHold, LinkAssertsHold, VtsmAssertsHold, MenuAssertsHold, NumberAssertHolds DEF AssertsHold
  <2> QED BY <2>1, <2>2
<1> QED BY <1>1, Invariance, PTL

(* Steps other than those that end a call on a copy keep it.               *)
LEMMA CopyKept ==
  ASSUME IInv, Next, orig # NoVM, orig' = NoVM
  PROVE  todo.op \in Tries /\ link # Idle /\ (FinishTry \/ FinishNextPg \/ FinishResume)
<1>1. todo.op \in Tries
  BY DEF IInv
<1>2. link # Idle
  BY <1>1, PlainTodo DEF IInv
<1>3. ~Calls
  BY <1>2 DEF Calls, Start, Reset, Stop, Ready, ReadOn, NextCell, ExecCmd, JumpTopPg, JumpPrevPg,
              JumpUp, JumpNextPg, JumpCellBlock, JumpTitlePart, JumpTitleProgram, MenuCall
<1>4. \A w, l : Then(w, l) => orig' = orig
  BY DEF Then
<1>5. ~(PlayPGC \/ PlayPGCPost \/ PlayPG \/ PlayCell \/ PlayCellPost)
  BY <1>4 DEF PlayPGC, PlayPGCPost, PlayPG, PlayCell, PlayCellPost, ToChain
<1>6. ~(LinkC \/ LinkPG \/ LinkTopPGC \/ LinkPGC \/ LinkTailPGC \/ LinkRSM \/ LinkPGCN \/ LinkPGN \/ LinkCN)
  BY <1>4 DEF LinkC, LinkPG, LinkTopPGC, LinkPGC, LinkTailPGC, LinkRSM, LinkPGCN, LinkPGN, LinkCN, ToChain, MustChain
<1>7. ~(LinkPTTN \/ JumpTT \/ JumpVTS_TT \/ JumpVTS_PTT)
  BY <1>4 DEF LinkPTTN, JumpTT, JumpVTS_TT, JumpVTS_PTT, ToPart
<1>8. ~(JumpSS_FP \/ JumpSS_VMGM_MENU \/ JumpSS_VMGM_PGC \/ JumpSS_VTSM)
  BY <1>4 DEF JumpSS_FP, JumpSS_VMGM_MENU, JumpSS_VMGM_PGC, JumpSS_VTSM, ToMenu, ToMenuPgc, MustChain, NoMenus
<1>9. ~(CallSS_FP \/ CallSS_VMGM_MENU \/ CallSS_VMGM_PGC \/ CallSS_VTSM)
  BY <1>4 DEF CallSS_FP, CallSS_VMGM_MENU, CallSS_VMGM_PGC, CallSS_VTSM, ToMenu, ToMenuPgc, MustChain, NoMenus
<1>10. ~(Finish \/ FinishBlock \/ FinishPrevPgc \/ PlayAnyway)
  BY <1>1 DEF Tries, Finish, FinishBlock, FinishPrevPgc, PlayAnyway, Ended
<1> QED BY <1>1, <1>2, <1>3, <1>5, <1>6, <1>7, <1>8, <1>9, <1>10 DEF Next, Steps

(* dvdnav_menu_call and dvdnav_next_pg_search never stop playback: when    *)
(* they are done the machine plays, be it the copy or the one they began   *)
(* with.                                                                   *)
THEOREM TriesAreSafe == Spec => TriesSafely
<1>1. ASSUME IInv, [Next]_vars, orig # NoVM, orig' = NoVM
      PROVE  ~vm'.stopped /\ Plays(vm')
  <2>1. Next
    BY <1>1 DEF vars
  <2>2. todo.op \in Tries /\ link # Idle /\ (FinishTry \/ FinishNextPg \/ FinishResume)
    BY <1>1, <2>1, CopyKept
  <2>3. Runs(orig)
    BY <1>1, <2>2 DEF IInv
  <2>4. /\ link.cmd \in {"PlayThis", "LinkNoLink", "Exit"}
        /\ (FinishTry => todo.op = "try") /\ (FinishNextPg => todo.op = "next_pg")
        /\ FinishResume => todo.op = "resume"
    BY <2>2, EndedNotIdle DEF FinishTry, FinishNextPg, FinishResume
  <2>5. ~Result.stopped => Runs(Result)
    BY <1>1, <2>2, <2>4, ResultRuns DEF Tries
  <2>6. CASE Discard
    BY <2>3, <2>6 DEF Discard, Runs
  <2>7. CASE ~Result.stopped /\ Return(Result)
    BY <2>5, <2>7 DEF Return, Runs
  <2>8. CASE link.cmd = "PlayThis" /\ Return(Result) /\ FinishResume
    <3>1. ~vm.stopped
      BY <1>1, <2>2, <2>4, <2>8, UnderWay
    <3>2. ~Result.stopped
      <4>1. Goes(vm, link, todo.op) /\ vm \in Machine /\ link \in LinkType
        BY <1>1, <2>2, UnderWay
      <4>2. Result.stopped = (link.cmd = "Exit" \/ vm.stopped)
        BY <4>1, ResultKeeps DEF Goes
      <4> QED BY <2>8, <3>1, <4>2
    <3> QED BY <2>7, <2>8, <3>2
  <2>9. ASSUME NEW w, NEW l, NEW next, GoOn(w, l, next) PROVE FALSE
    BY <1>1, <2>9 DEF GoOn
  <2> QED BY <2>2, <2>6, <2>7, <2>8, <2>9 DEF FinishTry, FinishNextPg, FinishResume
<1>2. IInv /\ [Next]_vars => (orig # NoVM /\ orig' = NoVM => ~vm'.stopped /\ Plays(vm'))
  BY <1>1
<1> QED BY <1>2, Invariance, PTL DEF Spec, TriesSafely
-----------------------------------------------------------------------------
(* Where a menu resumes *)

(* A step within a title, or one that stays out of titles with what was    *)
(* saved, or that starts over, leaves nothing new to resume.               *)
Carries(v, w) ==
  /\ w.stopped = v.stopped
  /\ w.domain = "title" \/ (v.domain # "title" /\ w.rsm = v.rsm) \/ w.rsm.vtsN = 0

(* Links that nothing is asked of. *)
Unasked == CallLinks \cup {"play_Cell_post", "LinkNoLink", "idle"}

(* A step of process_command to a link that nothing is asked of. *)
LEMMA StepCarries ==
  ASSUME ResumeInv, link # Idle, NEW w, NEW l, Then(w, l), Carries(vm, w), l.cmd \notin Unasked
  PROVE  ResumeInv'
<1>1. vm' = w /\ link' = l /\ todo' = todo /\ orig' = orig /\ started' = started /\ left' = left
  BY DEF Then
<1>2. ~w.stopped => Resumes(w)
  BY DEF ResumeInv, Resumes, Carries
<1>3. link' # Idle /\ link'.cmd \notin Unasked
  BY <1>1 DEF Unasked, Idle, Due, Link
<1>4. started
  BY DEF ResumeInv
<1>5. (~vm.stopped => Resumes(vm))'
  BY <1>1, <1>2 DEF Resumes, ResumesAt
<1>6. (todo.op \in Tries => Resumes(orig) /\ Left(orig))'
  BY <1>1 DEF ResumeInv, Resumes, ResumesAt, Left
<1> QED BY <1>1, <1>3, <1>4, <1>5, <1>6 DEF ResumeInv, Unasked, Ready

(* A step to a command of the chain. *)
LEMMA CommandCarries ==
  ASSUME ResumeInv, link # Idle, NEW w, NEW l, Then(w, l), Carries(vm, w),
         l.cmd \notin {"idle", "play_Cell_post"}, l.cmd = "LinkNoLink" => todo.op # "resume",
         l \in Commands(Pgc(w)),
         l.cmd \in CallLinks /\ SavedCell(l) = 0 => Left(w) \/ (w.cellN = 0 /\ ByPre(Pgc(w)))
  PROVE  ResumeInv'
<1>1. vm' = w /\ link' = l /\ todo' = todo /\ orig' = orig /\ started' = started /\ left' = left
  BY DEF Then
<1>2. ~w.stopped => Resumes(w)
  BY DEF ResumeInv, Resumes, Carries
<1>3. link' # Idle
  BY <1>1 DEF Idle, Due, Link
<1>4. started
  BY DEF ResumeInv
<1>5. (~vm.stopped => Resumes(vm))'
  BY <1>1, <1>2 DEF Resumes, ResumesAt
<1>6. (todo.op \in Tries => Resumes(orig) /\ Left(orig))'
  BY <1>1 DEF ResumeInv, Resumes, ResumesAt, Left
<1>7. Left(w) => Left(vm)'
  BY <1>1 DEF Left, Place
<1>8. Pgc(vm)' = Pgc(w)
  BY <1>1 DEF Pgc
<1>9. (link.cmd \in CallLinks /\ todo.op # "anyway" =>
       /\ link \in Commands(Pgc(vm))
       /\ SavedCell(link) = 0 => Left(vm) \/ (vm.cellN = 0 /\ ByPre(Pgc(vm))))'
  BY <1>1, <1>7, <1>8 
<1> QED BY <1>1, <1>3, <1>4, <1>5, <1>6, <1>9 DEF ResumeInv, Ready

(* Another chain of the table, or the end of playback. *)
LEMMA SetPgcnCarries ==
  ASSUME NEW v \in Machine, NEW n
  PROVE  LET w == SetPgcn(v, n)
         IN  /\ w.domain = v.domain /\ w.rsm = v.rsm /\ w.stopped = v.stopped
             /\ w.vtsN = v.vtsN /\ w.cellN = v.cellN /\ w.blockN = v.blockN
BY DEF Machine, SetPgcn

(* Another chain of the same table carries what is saved ... *)
LEMMA ToChainCarries ==
  ASSUME ResumeInv, link # Idle, NEW v \in Machine, NEW n, ToChain(v, n), Carries(vm, v)
  PROVE  ResumeInv'
<1>1. Carries(vm, SetPgcn(v, n))
  BY SetPgcnCarries DEF Carries
<1>2. PlayPgc.cmd \notin Unasked /\ Exit.cmd \notin Unasked
  BY DEF PlayPgc, Exit, Due, Link, Unasked, CallLinks, MenuCalls
<1> QED BY <1>1, <1>2, StepCarries DEF ToChain

(* A move within a chain. *)
LEMMA MovedCarries ==
  ASSUME NEW v, NEW w, Moved(v, w)
  PROVE  Carries(v, w)
BY DEF Moved, SameChain, Carries

(* The play_* functions ask for no resume. *)
LEMMA DueUnasked ==
  ASSUME NEW c \in {"play_PGC", "play_PGC_PG", "play_PGC_post", "play_PG", "play_Cell"}
  PROVE  Due(c).cmd \notin Unasked
BY DEF Due, Link, Unasked, CallLinks, MenuCalls

(* The play_* functions. *)
LEMMA PlayPGCCarries == ASSUME IInv, ResumeInv, PlayPGC PROVE ResumeInv'
<1>1. vm \in Machine /\ InChain(vm) /\ link # Idle
  BY UnderWay DEF PlayPGC, Idle, Due, Link
<1> DEFINE w == [vm EXCEPT !.pgN = IF link.cmd = "play_PGC" THEN 1 ELSE @,
                           !.cellN = 0, !.blockN = 0]
<1>2. Carries(vm, w) /\ w.cellN = 0 /\ Pgc(w) = Pgc(vm)
  BY <1>1 DEF Machine, Carries, Pgc
<1>3. PICK l \in Eval(Pgc(vm).pre, Due("play_PG")) : Then(w, l)
  BY DEF PlayPGC
<1> HIDE DEF w
<1>4. CASE l = Due("play_PG")
  BY <1>1, <1>2, <1>3, <1>4, DueUnasked, StepCarries
<1>5. CASE l # Due("play_PG")
  <2>1. l \in Pgc(w).pre /\ l # NoJump /\ l \in Commands(Pgc(w)) /\ ByPre(Pgc(w))
    BY <1>2, <1>3, <1>5 DEF Eval, Commands, ByPre
  <2>2. l.cmd \in Anywhere
    BY <1>1, <1>2, <2>1, ChainOf DEF CommandsFit
  <2> QED BY <1>1, <1>2, <1>3, <2>1, <2>2, CommandCarries DEF Anywhere
<1> QED BY <1>4, <1>5

(* ... play_PGC_post: the post commands name their cell, ... *)
LEMMA PlayPGCPostCarries == ASSUME IInv, ResumeInv, PlayPGCPost PROVE ResumeInv'
<1>1. vm \in Machine /\ InChain(vm) /\ link # Idle
  BY UnderWay DEF PlayPGCPost, Idle, Due, Link
<1>2. Carries(vm, vm)
  BY DEF Carries
<1>3. CASE NoJump \in Pgc(vm).post /\ ToChain(vm, Pgc(vm).next)
  BY <1>1, <1>2, <1>3, ToChainCarries
<1>4. ASSUME NEW l \in Pgc(vm).post \ {NoJump}, Then(vm, l) PROVE ResumeInv'
  <2>1. CommandsFit(vm.pgc[1], Pgc(vm)) /\ l \in Commands(Pgc(vm))
    BY <1>1, ChainOf DEF Commands
  <2>2. l.cmd \in Anywhere /\ (l.cmd \in CallLinks => SavedCell(l) # 0)
    BY <2>1 DEF CommandsFit
  <2> QED BY <1>1, <1>2, <1>4, <2>1, <2>2, CommandCarries DEF Anywhere
<1> QED BY <1>3, <1>4 DEF PlayPGCPost

(* ... play_PG, ... *)
LEMMA PlayPGCarries == ASSUME IInv, ResumeInv, PlayPG PROVE ResumeInv'
<1>1. vm \in Machine /\ link # Idle
  BY UnderWay DEF PlayPG, Idle, Due, Link
<1>2. Carries(vm, vm) /\ Carries(vm, [vm EXCEPT !.cellN = Pgc(vm).map[vm.pgN]])
  BY <1>1 DEF Carries, Machine
<1> QED BY <1>1, <1>2, DueUnasked, StepCarries DEF PlayPG

(* ... play_Cell, ... *)
LEMMA PlayCellCarries == ASSUME IInv, ResumeInv, PlayCell PROVE ResumeInv'
<1>1. Goes(vm, link, todo.op) /\ vm \in Machine /\ InChain(vm) /\ link # Idle
  BY UnderWay DEF PlayCell, Idle, Due, Link
<1>2. CASE vm.cellN > Cells(vm)
  BY <1>1, <1>2, DueUnasked, StepCarries DEF PlayCell, Carries
<1>3. CASE ~(vm.cellN > Cells(vm))
  <2>1. PICK agl \in Angles : Then([SetPgn(Angled(vm, agl)) EXCEPT !.blockN = 0], PlayThis)
    BY <1>3 DEF PlayCell
  <2>2. vm.cellN \in 1..Cells(vm)
    BY <1>1, <1>3, ChainOf DEF Goes, Sound, PlayCell
  <2>3. Moved(vm, Angled(vm, agl))
    BY <1>1, <2>2, AngledMoves
  <2>4. Moved(Angled(vm, agl), SetPgn(Angled(vm, agl)))
    BY <1>1, <2>3, MovedKeeps, SetPgnMoves DEF Moved
  <2> DEFINE v == SetPgn(Angled(vm, agl))
             w == [v EXCEPT !.blockN = 0]
  <2>5. v \in Machine /\ v.domain = vm.domain /\ v.rsm = vm.rsm /\ v.stopped = vm.stopped
    BY <2>3, <2>4 DEF Moved, SameChain
  <2> HIDE DEF v
  <2>6. Carries(vm, w)
    BY <2>5 DEF Carries, Machine
  <2>7. PlayThis.cmd \notin Unasked
    BY DEF PlayThis, Due, Link, Unasked, CallLinks, MenuCalls
  <2> QED BY <1>1, <2>1, <2>6, <2>7, StepCarries DEF v
<1> QED BY <1>2, <1>3

(* ... and play_Cell_post: the cell command calls from the cell that       *)
(* played.                                                                 *)
LEMMA PlayCellPostCarries == ASSUME IInv, ResumeInv, PlayCellPost PROVE ResumeInv'
<1>1. Goes(vm, link, todo.op) /\ vm \in Machine /\ InChain(vm) /\ link # Idle
  BY UnderWay DEF PlayCellPost, Idle, Due, Link
<1>2. Left(vm) /\ todo.op # "resume" /\ vm.cellN \in DOMAIN Pgc(vm).cells
  <2>1. Plays(vm)
    BY <1>1 DEF Goes, Sound, PlayCellPost
  <2>2. vm.cellN \in 1..Cells(vm) /\ DOMAIN Pgc(vm).cells = 1..Cells(vm)
    BY <1>1, <2>1, ChainOf, ChainFields DEF Plays, Cells
  <2> QED BY <2>2 DEF ResumeInv, PlayCellPost
<1> DEFINE v == [vm EXCEPT !.cellN = Behind(vm)]
<1>3. Carries(vm, vm) /\ Carries(vm, v) /\ Moved(vm, v)
  <2>1. Behind(vm) \in Nat
    BY <1>1, BehindIn, ChainOf DEF Goes, Sound, PlayCellPost, Plays
  <2>2. Moved(vm, v)
    BY <1>1, <2>1 DEF Moved, SameChain, Machine
  <2> QED BY <2>2, MovedCarries DEF Carries
<1>4. \/ Then(SetPgn(v), Due("play_Cell"))
      \/ Then(v, Due("play_PGC_post"))
      \/ \E l \in Pgc(vm).cells[vm.cellN].cmd \ {NoJump} : Then(vm, l)
  BY DEF PlayCellPost
<1> HIDE DEF v
<1>5. CASE Then(SetPgn(v), Due("play_Cell"))
  <2>1. Moved(v, SetPgn(v))
    BY <1>1, <1>3, MovedKeeps, SetPgnMoves DEF Moved
  <2>2. Carries(vm, SetPgn(v))
    BY <1>3, <2>1 DEF Carries, Moved, SameChain
  <2> QED BY <1>1, <1>5, <2>2, DueUnasked, StepCarries
<1>6. CASE Then(v, Due("play_PGC_post"))
  BY <1>1, <1>3, <1>6, DueUnasked, StepCarries
<1>7. ASSUME NEW l \in Pgc(vm).cells[vm.cellN].cmd \ {NoJump}, Then(vm, l) PROVE ResumeInv'
  <2>1. l \in Commands(Pgc(vm)) /\ CommandsFit(vm.pgc[1], Pgc(vm))
    BY <1>1, <1>2, ChainOf DEF Commands
  <2>2. l.cmd \in Anywhere \cup WhilePlaying \cup Back
    BY <1>2, <2>1 DEF CommandsFit, Back
  <2>3. l.cmd \notin {"idle", "play_Cell_post"}
    BY <2>2 DEF Anywhere, WhilePlaying, Back
  <2> QED BY <1>1, <1>2, <1>3, <1>7, <2>1, <2>3, CommandCarries
<1> QED BY <1>4, <1>5, <1>6, <1>7

(* The links of a program chain. *)
LEMMA LinkIsDue ==
  ASSUME IInv, todo.op # "anyway", link.cmd \in (Anywhere \ {"Exit"}) \cup WhilePlaying \cup Back
  PROVE  /\ vm \in Machine /\ InChain(vm) /\ link # Idle
         /\ \A b \in {link.d1, link.d2} : /\ Carries(vm, Select(vm, b)) /\ Select(vm, b) \in Machine
                                          /\ Select(vm, b).cellN \in Nat /\ Select(vm, b).pgN \in Nat
<1>1. vm \in Machine /\ InChain(vm) /\ link # Idle /\ link.d1 \in Nat /\ link.d2 \in Nat
  BY LinkUnderWay
<1>2. \A b \in Nat : Same(vm, Select(vm, b))
  BY <1>1, SelectKeeps
<1>3. \A b \in Nat : Carries(vm, Select(vm, b)) /\ Select(vm, b) \in Machine
  BY <1>2, MovedCarries DEF Same, Moved
<1> QED BY <1>1, <1>3, MachineFields

(* Links to cells and programs of the chain, ... *)
LEMMA ChainLinkCarries ==
  ASSUME IInv, ResumeInv, LinkC \/ LinkPG \/ LinkTopPGC \/ LinkTailPGC \/ LinkPGN \/ LinkCN
  PROVE  ResumeInv'
<1>1. todo.op # "anyway" /\ link.cmd \in (Anywhere \ {"Exit"}) \cup WhilePlaying \cup Back
  BY DEF LinkC, LinkPG, LinkTopPGC, LinkTailPGC, LinkPGN, LinkCN, At, Anywhere, WhilePlaying, Back
<1>2. /\ vm \in Machine /\ link # Idle
      /\ \A b \in {link.d1, link.d2} : Carries(vm, Select(vm, b)) /\ Select(vm, b) \in Machine
  BY <1>1, LinkIsDue
<1>3. \A u \in Machine : \A n : /\ Carries(u, [u EXCEPT !.cellN = n]) /\ Carries(u, [u EXCEPT !.pgN = n])
                                /\ [u EXCEPT !.cellN = n].domain = u.domain /\ [u EXCEPT !.cellN = n].rsm = u.rsm
                                /\ [u EXCEPT !.pgN = n].domain = u.domain /\ [u EXCEPT !.pgN = n].rsm = u.rsm
  BY DEF Machine, Carries
<1>4. \A b \in {link.d1, link.d2} : \A n : /\ Carries(vm, [Select(vm, b) EXCEPT !.cellN = n])
                                           /\ Carries(vm, [Select(vm, b) EXCEPT !.pgN = n])
  BY <1>2, <1>3 DEF Carries
<1>5. CASE LinkC \/ LinkCN
  BY <1>2, <1>4, <1>5, DueUnasked, StepCarries DEF LinkC, LinkCN
<1>6. CASE LinkPG \/ LinkPGN
  BY <1>2, <1>4, <1>6, DueUnasked, StepCarries DEF LinkPG, LinkPGN
<1>7. CASE LinkTopPGC \/ LinkTailPGC
  BY <1>2, <1>7, DueUnasked, StepCarries DEF LinkTopPGC, LinkTailPGC, PlayPgc
<1> QED BY <1>5, <1>6, <1>7

(* ... and links to other chains of the table. *)
LEMMA OtherChainCarries == ASSUME IInv, ResumeInv, LinkPGC \/ LinkPGCN PROVE ResumeInv'
<1>1. todo.op # "anyway" /\ link.cmd \in (Anywhere \ {"Exit"}) \cup WhilePlaying \cup Back
  BY DEF LinkPGC, LinkPGCN, At, Anywhere
<1>2. /\ vm \in Machine /\ link # Idle /\ Carries(vm, vm)
      /\ Carries(vm, Select(vm, link.d1)) /\ Select(vm, link.d1) \in Machine
  BY <1>1, LinkIsDue DEF Carries
<1>3. \/ \E n : ToChain(Select(vm, link.d1), n)
      \/ ToChain(vm, link.d1)
  BY MustIsTo DEF LinkPGC, LinkPGCN
<1> QED BY <1>2, <1>3, ToChainCarries

(* A resume plays in a title. *)
LEMMA LinkRSMCarries == ASSUME IInv, ResumeInv, LinkRSM PROVE ResumeInv'
<1>1. todo.op # "anyway" /\ link.cmd \in WhilePlaying
  BY DEF LinkRSM, At, WhilePlaying
<1>2. vm \in Machine /\ link # Idle /\ link.d1 \in Nat /\ Sane(vm, todo.op) /\ LinkFits(vm, link)
  BY <1>1, LinkUnderWay
<1> DEFINE w == Select(Resumed, link.d1)
<1>3. \/ Then(vm, Exit)
      \/ /\ vm.rsm.vtsN # 0
         /\ \/ Then([w EXCEPT !.pgN = 1], Due("play_PG"))
            \/ Then(SetPgn([w EXCEPT !.cellN = vm.rsm.cellN]), Link("PlayThis", vm.rsm.blockN, 0, 0))
  BY DEF LinkRSM, Resumed
<1>4. CASE Then(vm, Exit)
  BY <1>2, <1>4, StepCarries DEF Carries, Exit, Due, Link, Unasked, CallLinks, MenuCalls
<1>5. CASE /\ vm.rsm.vtsN # 0
           /\ \/ Then([w EXCEPT !.pgN = 1], Due("play_PG"))
              \/ Then(SetPgn([w EXCEPT !.cellN = vm.rsm.cellN]), Link("PlayThis", vm.rsm.blockN, 0, 0))
  <2>1. RsmOK(vm)
    BY <1>1, <1>2 DEF Sane, LinkFits
  <2>2. w \in Machine /\ InChain(w) /\ w.domain = "title" /\ w.stopped = vm.stopped /\ vm.rsm.cellN \in Nat
    BY <1>2, <1>5, <2>1, ResumedInTitle, MachineFields
  <2> HIDE DEF w
  <2> DEFINE x == [w EXCEPT !.cellN = vm.rsm.cellN]
             y == [w EXCEPT !.pgN = 1]
  <2>3. Moved(w, x) /\ Moved(w, y)
    BY <2>2 DEF Machine, Moved, SameChain
  <2> HIDE DEF x, y
  <2>4. Moved(x, SetPgn(x))
    BY <2>2, <2>3, MovedKeeps, SetPgnMoves DEF Moved
  <2>5. Carries(vm, SetPgn(x)) /\ Carries(vm, y)
    BY <2>2, <2>3, <2>4 DEF Carries, Moved, SameChain
  <2>6. Link("PlayThis", vm.rsm.blockN, 0, 0).cmd \notin Unasked
    BY DEF Link, Unasked, CallLinks, MenuCalls
  <2> QED BY <1>2, <1>5, <2>5, <2>6, DueUnasked, StepCarries DEF x, y
<1> QED BY <1>3, <1>4, <1>5

(* To a part of a title. *)
LEMMA ToPartCarries ==
  ASSUME ResumeInv, link # Idle, NEW v \in Machine, v.stopped = vm.stopped, NEW vts, NEW ttn, NEW part,
         NEW play \in {"play_PG", "play_PGC", "play_PGC_PG"}, ToPart(v, vts, ttn, part, play)
  PROVE  ResumeInv'
<1>1. CASE HasPart(vts, ttn, part)
  <2>1. Carries(vm, SetVtsPtt(v, vts, ttn, part))
    BY <1>1, SetVtsPttEnters DEF Carries
  <2> QED BY <1>1, <2>1, DueUnasked, StepCarries DEF ToPart
<1>2. CASE ~HasPart(vts, ttn, part)
  <2> DEFINE w == [OpenVtsi(v, vts) EXCEPT !.domain = "title"]
  <2>1. Carries(vm, w)
    BY DEF Carries, Machine, OpenVtsi
  <2>2. Then(w, Exit)
    BY <1>2 DEF ToPart
  <2> HIDE DEF w
  <2> QED BY <2>1, <2>2, StepCarries DEF Exit, Due, Link, Unasked, CallLinks, MenuCalls
<1> QED BY <1>1, <1>2

(* Links and jumps to parts. *)
LEMMA PartLinkCarries ==
  ASSUME IInv, ResumeInv, LinkPTTN \/ JumpTT \/ JumpVTS_TT \/ JumpVTS_PTT
  PROVE  ResumeInv'
<1>1. todo.op # "anyway" /\ link.cmd \in (Anywhere \ {"Exit"}) \cup WhilePlaying \cup Back
  BY DEF LinkPTTN, JumpTT, JumpVTS_TT, JumpVTS_PTT, At, Anywhere
<1>2. /\ vm \in Machine /\ link # Idle
      /\ Select(vm, link.d2) \in Machine /\ Select(vm, link.d2).stopped = vm.stopped
  BY <1>1, LinkIsDue DEF Carries
<1> QED BY <1>2, ToPartCarries DEF LinkPTTN, JumpTT, JumpVTS_TT, JumpVTS_PTT

(* To a menu, from a machine that saved nothing that it should not. *)
LEMMA ToMenusCarry ==
  ASSUME ResumeInv, link # Idle, vm \in Machine, NEW v \in Machine, v.domain # "title", v.stopped = vm.stopped,
         ~v.stopped => Resumes(v), NEW n, IF HasTable(v) THEN MustChain(v, n) ELSE NoMenus(v)
  PROVE  ResumeInv'
<1>1. ASSUME NEW w, NEW l, Then(w, l), w.stopped = v.stopped, ~w.stopped => Resumes(w), l.cmd \notin Unasked
      PROVE  ResumeInv'
  <2>1. vm' = w /\ link' = l /\ todo' = todo /\ orig' = orig /\ started' = started /\ left' = left
    BY <1>1 DEF Then
  <2>2. link' # Idle /\ link'.cmd \notin Unasked
    BY <1>1, <2>1 DEF Unasked, Idle, Due, Link
  <2>3. (~vm.stopped => Resumes(vm))'
    BY <1>1, <2>1 DEF Resumes, ResumesAt
  <2>4. (todo.op \in Tries => Resumes(orig) /\ Left(orig))'
    BY <2>1 DEF ResumeInv, Resumes, ResumesAt, Left
  <2> QED BY <2>1, <2>2, <2>3, <2>4 DEF ResumeInv, Unasked, Ready
<1>2. PlayPgc.cmd \notin Unasked /\ Exit.cmd \notin Unasked
  BY DEF PlayPgc, Exit, Due, Link, Unasked, CallLinks, MenuCalls
<1>3. CASE HasTable(v) /\ MustChain(v, n)
  <2>1. SetPgcn(v, n).stopped = v.stopped /\ (~v.stopped => Resumes(SetPgcn(v, n)))
    BY SetPgcnCarries DEF Resumes
  <2> QED BY <1>1, <1>2, <1>3, <2>1 DEF MustChain
<1>4. CASE NoMenus(v)
  <2> DEFINE w == [vm EXCEPT !.vtsN = v.vtsN, !.vtsi = v.vtsi]
  <2>1. w.stopped = vm.stopped /\ w.domain = vm.domain /\ w.rsm = vm.rsm
    BY DEF Machine
  <2>2. Then(w, Exit)
    BY <1>4 DEF NoMenus
  <2> HIDE DEF w
  <2>3. ~w.stopped => Resumes(w)
    BY <2>1 DEF ResumeInv, Resumes
  <2> QED BY <1>1, <1>2, <2>1, <2>2, <2>3
<1> QED BY <1>3, <1>4

(* Jumps to menus, which leave what is saved alone. *)
LEMMA JumpSSCarries ==
  ASSUME IInv, ResumeInv, JumpSS_FP \/ JumpSS_VMGM_MENU \/ JumpSS_VMGM_PGC \/ JumpSS_VTSM
  PROVE  ResumeInv'
<1>1. /\ todo.op # "anyway"
      /\ link.cmd \in {"JumpSS_FP", "JumpSS_VMGM_MENU", "JumpSS_VMGM_PGC", "JumpSS_VTSM"}
  BY DEF JumpSS_FP, JumpSS_VMGM_MENU, JumpSS_VMGM_PGC, JumpSS_VTSM, At
<1>2. vm \in Machine /\ InChain(vm) /\ link # Idle /\ Fits(vm.pgc[1], Pgc(vm), link) /\ link.d2 \in Nat
  BY <1>1, LinkUnderWay DEF Anywhere
<1>3. vm.domain # "title" /\ (~vm.stopped => Resumes(vm))
  BY <1>1, <1>2, ChainOf DEF Fits, ResumeInv
<1>4. CASE JumpSS_FP
  <2>1. Carries(vm, SetFp(vm))
    BY <1>2, <1>3, SetFpEnters DEF Carries
  <2> QED BY <1>2, <1>4, <2>1, DueUnasked, StepCarries DEF JumpSS_FP, PlayPgc
<1>5. CASE JumpSS_VMGM_MENU \/ JumpSS_VMGM_PGC
  <2> DEFINE v == In(vm, "vmgm")
  <2>1. v \in Machine /\ v.domain # "title" /\ v.stopped = vm.stopped /\ v.rsm = vm.rsm
    BY <1>2, InKeeps DEF Domains
  <2>2. \E n : IF HasTable(v) THEN MustChain(v, n) ELSE NoMenus(v)
    BY <1>5 DEF JumpSS_VMGM_MENU, JumpSS_VMGM_PGC, ToMenu, ToMenuPgc
  <2> HIDE DEF v
  <2>3. ~v.stopped => Resumes(v)
    BY <1>3, <2>1 DEF Resumes
  <2> QED BY <1>2, <2>1, <2>2, <2>3, ToMenusCarry
<1>6. CASE JumpSS_VTSM
  <2> DEFINE w == ToVtsm
  <2>1. (link.d1 = 0 => vm.domain = "vtsm") /\ (link.d1 # 0 => link.d1 \in Vts)
    BY <1>2, <1>6, ChainOf, VtsAreNumbers DEF Fits, JumpSS_VTSM, At
  <2>2. w \in Machine /\ w.domain = "vtsm" /\ w.rsm = vm.rsm /\ w.stopped = vm.stopped
    BY <1>2, <2>1, ChainOf, VtsmOpened
  <2>3. ToMenu(w, link.d3)
    BY <1>6 DEF JumpSS_VTSM, ToVtsm
  <2> HIDE DEF w
  <2>4. ~w.stopped => Resumes(w)
    BY <1>3, <2>2 DEF Resumes
  <2> QED BY <1>2, <2>2, <2>3, <2>4, ToMenusCarry DEF ToMenu
<1> QED BY <1>4, <1>5, <1>6

(* What vm_jump_menu and the calls of a title save is the place where the  *)
(* title is left, or what a command of its chain names.                    *)
LEMMA SavesPlace ==
  ASSUME NEW v \in Machine, InChain(v), v.domain = "title", NEW cell \in Nat, NEW block,
         \/ cell # 0 /\ cell \in Named(Pgc(v)) /\ block = 0
         \/ cell = 0 /\ left = Place(v) /\ block \in {0, v.blockN}
         \/ cell = 0 /\ 0 \in Named(Pgc(v)) /\ v.cellN = 0 /\ ByPre(Pgc(v))
  PROVE  ResumesAt(SetRsm(v, cell, block).rsm)
<1> DEFINE r == [vtsN |-> v.vtsN, pgcN |-> GetPgcn(v), blockN |-> block,
                 cellN |-> IF cell # 0 THEN cell ELSE v.cellN, regs |-> v.regs]
<1>1. SetRsm(v, cell, block).rsm = r
  BY DEF SetRsm, Machine
<1>2. GetPgcn(v) = v.pgcN /\ v.pgc[1] = <<"title", v.vtsN>> /\ v.pgc[2] = v.pgcN
  BY ChainOf
<1>3. Pgcit[<<"title", v.vtsN>>][v.pgcN] = Pgc(v)
  BY <1>2 DEF Pgc
<1>4. CASE cell = 0 /\ left = Place(v) /\ block \in {0, v.blockN}
  BY <1>1, <1>2, <1>4 DEF ResumesAt, Place
<1>5. CASE cell # 0 /\ cell \in Named(Pgc(v)) /\ block = 0
  BY <1>1, <1>2, <1>3, <1>5 DEF ResumesAt
<1>6. CASE cell = 0 /\ 0 \in Named(Pgc(v)) /\ v.cellN = 0 /\ ByPre(Pgc(v))
  BY <1>1, <1>2, <1>3, <1>6 DEF ResumesAt
<1> QED BY <1>4, <1>5, <1>6

(* A call saves the cell it names, or the one that plays. *)
LEMMA CallSavesPlace ==
  ASSUME IInv, ResumeInv, todo.op # "anyway", link.cmd \in CallLinks
  PROVE  ResumesAt(SetRsm(vm, SavedCell(link), 0).rsm)
<1>1. vm \in Machine /\ InChain(vm) /\ vm.domain = "title" /\ link # Idle
  BY CallSaves
<1>2. link \in LinkType
  BY <1>1, UnderWay
<1>3. SavedCell(link) \in Nat
  BY <1>2 DEF SavedCell, LinkType
<1>4. link \in Commands(Pgc(vm))
  BY DEF ResumeInv
<1>5. SavedCell(link) \in Named(Pgc(vm))
  BY <1>4 DEF Named, CallLinks, SavedCell, MenuCalls
<1>6. SavedCell(link) = 0 => left = Place(vm) \/ (vm.cellN = 0 /\ ByPre(Pgc(vm)))
  BY <1>1 DEF ResumeInv, Left
<1> QED BY <1>1, <1>3, <1>5, <1>6, SavesPlace

(* Calls of menus save the place in the title. *)
LEMMA CallSSCarries ==
  ASSUME IInv, ResumeInv, CallSS_FP \/ CallSS_VMGM_MENU \/ CallSS_VMGM_PGC \/ CallSS_VTSM
  PROVE  ResumeInv'
<1>1. link.cmd \in CallLinks /\ todo.op # "anyway"
  BY DEF CallSS_FP, CallSS_VMGM_MENU, CallSS_VMGM_PGC, CallSS_VTSM, At, MenuCalls, CallLinks
<1> DEFINE u == SetRsm(vm, SavedCell(link), 0)
<1>2. link # Idle /\ vm \in Machine /\ u \in Machine
  BY <1>1, CallSaves
<1>3. u.stopped = vm.stopped
  BY <1>2 DEF Machine, SetRsm
<1>4. ResumesAt(u.rsm)
  BY <1>1, CallSavesPlace
<1>5. \/ \E d \in {"vmgm", "vtsm"} : \E n :
            IF HasTable(In(u, d)) THEN MustChain(In(u, d), n) ELSE NoMenus(In(u, d))
      \/ Then(SetFp(u), PlayPgc)
  BY <1>1 DEF CallSS_FP, CallSS_VMGM_MENU, CallSS_VMGM_PGC, CallSS_VTSM, ToMenu, ToMenuPgc, SavedCell, At
<1> HIDE DEF u
<1>6. CASE \E d \in {"vmgm", "vtsm"} : \E n :
             IF HasTable(In(u, d)) THEN MustChain(In(u, d), n) ELSE NoMenus(In(u, d))
  <2>1. PICK d \in {"vmgm", "vtsm"} : \E n :
          IF HasTable(In(u, d)) THEN MustChain(In(u, d), n) ELSE NoMenus(In(u, d))
    BY <1>6
  <2> DEFINE v == In(u, d)
  <2>2. v \in Machine /\ v.domain # "title" /\ v.stopped = vm.stopped /\ v.rsm = u.rsm
    BY <1>2, <1>3, InKeeps DEF Domains
  <2>3. \E n : IF HasTable(v) THEN MustChain(v, n) ELSE NoMenus(v)
    BY <2>1
  <2> HIDE DEF v
  <2>4. Resumes(v)
    BY <1>4, <2>2 DEF Resumes
  <2> QED BY <1>2, <2>2, <2>3, <2>4, ToMenusCarry
<1>7. CASE Then(SetFp(u), PlayPgc)
  <2> DEFINE w == SetFp(u)
  <2>1. w.rsm = u.rsm /\ w.stopped = vm.stopped
    BY <1>2, <1>3, SetFpEnters
  <2>2. vm' = w /\ link' = PlayPgc /\ todo' = todo /\ orig' = orig /\ started' = started /\ left' = left
    BY <1>7 DEF Then
  <2> HIDE DEF w
  <2>3. PlayPgc.cmd \notin Unasked
    BY DEF PlayPgc, Due, Link, Unasked, CallLinks, MenuCalls
  <2>4. link' # Idle /\ link'.cmd \notin Unasked
    BY <2>2, <2>3 DEF Unasked, Idle, Due, Link
  <2>5. (~vm.stopped => Resumes(vm))'
    BY <1>4, <2>1, <2>2 DEF Resumes, ResumesAt
  <2>6. (todo.op \in Tries => Resumes(orig) /\ Left(orig))'
    BY <2>2 DEF ResumeInv, Resumes, ResumesAt, Left
  <2> QED BY <1>2, <2>2, <2>4, <2>5, <2>6 DEF ResumeInv, Unasked, Ready
<1> QED BY <1>5, <1>6, <1>7

(* The end of a call: in a title, this is the place it is left at. *)
LEMMA ReturnCarries ==
  ASSUME IInv, ResumeInv, link # Idle, NEW w, Return(w), Carries(vm, w) \/ w.stopped
  PROVE  ResumeInv'
<1>1. vm' = w /\ link' = Idle /\ todo' = Plain /\ orig' = NoVM /\ started' = started
      /\ left' = (IF w.domain = "title" /\ ~w.stopped THEN Place(w) ELSE left)
  BY DEF Return
<1>2. Idle.cmd \notin CallLinks \cup {"play_Cell_post"} /\ Plain.op \notin Tries /\ Plain.op # "resume"
  BY PlainTodo DEF Idle, Due, Link, CallLinks, MenuCalls, Plain
<1>3. started
  BY DEF ResumeInv
<1>4. (~vm.stopped => Resumes(vm))'
  <2>1. CASE w.domain = "title" \/ w.stopped \/ w.rsm.vtsN = 0
    BY <1>1, <2>1 DEF Resumes
  <2>2. CASE ~w.stopped /\ ~vm.stopped /\ vm.domain # "title" /\ w.rsm = vm.rsm /\ w.domain # "title"
    BY <1>1, <2>2 DEF ResumeInv, Resumes, ResumesAt
  <2> QED BY <2>1, <2>2 DEF Carries
<1>5. (Ready => Left(vm))'
  BY <1>1 DEF Ready, Left, Place
<1> QED BY <1>1, <1>2, <1>3, <1>4, <1>5 DEF ResumeInv

(* A copy thrown away. *)
LEMMA DiscardCarries ==
  ASSUME IInv, ResumeInv, link # Idle, todo.op \in Tries, Discard
  PROVE  ResumeInv'
<1>1. vm' = orig /\ link' = Idle /\ todo' = Plain /\ orig' = NoVM /\ started' = started /\ left' = left
  BY DEF Discard
<1>2. Idle.cmd \notin CallLinks \cup {"play_Cell_post"} /\ Plain.op \notin Tries /\ Plain.op # "resume"
  BY PlainTodo DEF Idle, Due, Link, CallLinks, MenuCalls, Plain
<1>3. (Resumes(vm) /\ Left(vm))'
  BY <1>1 DEF ResumeInv, Resumes, ResumesAt, Left
<1> QED BY <1>1, <1>2, <1>3 DEF ResumeInv

(* What a call ends with resumes where the machine did. *)
LEMMA ResultCarries ==
  ASSUME IInv, link # Idle
  PROVE  Carries(vm, Result) \/ Result.stopped
<1>1. vm \in Machine /\ link \in LinkType /\ (link.cmd = "PlayThis" => link.d1 \in Blocks)
  BY UnderWay DEF Goes
<1>2. /\ SameChain(vm, Result) /\ Result.rsm = vm.rsm /\ vm.stopped \in BOOLEAN
      /\ Result.stopped = (link.cmd = "Exit" \/ vm.stopped)
  BY <1>1, ResultKeeps, MachineFields
<1> QED BY <1>2 DEF SameChain, Carries

(* A vm_* function goes on, or begins, with one of the play_* functions. *)
LEMMA GoOnCarries ==
  ASSUME ResumeInv, started, NEW w, NEW l, NEW next, GoOn(w, l, next), ~w.stopped => Resumes(w),
         l.cmd \notin Unasked \/ (l.cmd = "play_Cell_post" /\ Left(w) /\ next.op # "resume"),
         next.op \in Tries => todo.op \in Tries
  PROVE  ResumeInv'
<1>1. vm' = w /\ link' = l /\ todo' = next /\ orig' = orig /\ started' = started /\ left' = left
  BY DEF GoOn
<1>2. link' # Idle /\ link'.cmd \notin CallLinks \cup {"LinkNoLink"}
  BY <1>1 DEF Unasked, Idle, Due, Link, CallLinks, MenuCalls
<1>3. (~vm.stopped => Resumes(vm))'
  BY <1>1 DEF Resumes, ResumesAt
<1>4. (todo.op \in Tries => Resumes(orig) /\ Left(orig))'
  BY <1>1 DEF ResumeInv, Resumes, ResumesAt, Left
<1>5. (link.cmd = "play_Cell_post" => Left(vm) /\ todo.op # "resume")'
  BY <1>1 DEF Unasked, Left, Place
<1> QED BY <1>1, <1>2, <1>3, <1>4, <1>5 DEF ResumeInv, Ready

(* What carries the place resumes there. *)
LEMMA CarriedResumes ==
  ASSUME ResumeInv, ~vm.stopped, NEW w, Carries(vm, w)
  PROVE  Resumes(w)
BY DEF ResumeInv, Resumes, Carries

(* A copy carries the place. *)
LEMMA CopyCarries ==
  ASSUME NEW v, Runs(v)
  PROVE  Carries(v, Copy(v)) /\ Place(Copy(v)) = Place(v) /\ (Resumes(v) => Resumes(Copy(v)))
         /\ (Left(v) => Left(Copy(v)))
<1>1. Runs(Copy(v)) /\ Copy(v).domain = v.domain /\ Copy(v).cellN = v.cellN /\ Copy(v).vtsN = v.vtsN
      /\ Copy(v).pgcN = v.pgcN /\ Copy(v).rsm = v.rsm /\ Copy(v).blockN = v.blockN
  BY CopyPlays
<1>2. ~v.stopped /\ ~Copy(v).stopped
  BY <1>1 DEF Runs
<1>3. v.stopped \in BOOLEAN /\ Copy(v).stopped \in BOOLEAN
  BY <1>1, MachineFields DEF Runs
<1> QED BY <1>1, <1>2, <1>3 DEF Carries, Place, Resumes, Left

(* The end of calls on the machine itself ... *)
LEMMA FinishCarries ==
  ASSUME IInv, ResumeInv, Finish \/ FinishBlock \/ FinishPrevPgc \/ PlayAnyway
  PROVE  ResumeInv'
<1>1. link # Idle /\ started
  BY PlainTodo DEF Finish, FinishBlock, FinishPrevPgc, PlayAnyway, Ended, Idle, Due, Link, IInv, ResumeInv
<1>2. vm \in Machine /\ link \in LinkType /\ (link.cmd = "PlayThis" => link.d1 \in Blocks)
  BY <1>1, UnderWay DEF Goes
<1>3. Result \in Machine /\ (Carries(vm, Result) \/ Result.stopped)
  BY <1>1, <1>2, ResultKeeps, ResultCarries
<1>4. CASE Finish
  BY <1>1, <1>3, <1>4, ReturnCarries DEF Finish
<1>5. CASE FinishBlock
  <2> DEFINE w == IF Result.cellN = todo.cell THEN [Result EXCEPT !.blockN = todo.block] ELSE Result
  <2>1. w.stopped = Result.stopped /\ w.domain = Result.domain /\ w.rsm = Result.rsm
    BY <1>3 DEF Machine
  <2>2. Return(w)
    BY <1>5 DEF FinishBlock
  <2> HIDE DEF w
  <2> QED BY <1>1, <1>3, <2>1, <2>2, ReturnCarries DEF Carries
<1>6. CASE FinishPrevPgc
  <2> DEFINE w == [Result EXCEPT !.pgN = NrOfPrograms(vm)]
  <2>1. w.stopped = Result.stopped /\ w.domain = Result.domain /\ w.rsm = Result.rsm
    BY <1>3 DEF Machine
  <2>2. GoOn(w, Due("play_PG"), Plain)
    BY <1>6 DEF FinishPrevPgc
  <2> HIDE DEF w
  <2>3. ~w.stopped => Resumes(w)
    BY <1>3, <2>1, CarriedResumes DEF Carries
  <2> QED BY <1>1, <2>2, <2>3, DueUnasked, PlainTodo, GoOnCarries
<1>7. CASE PlayAnyway
  <2>1. CASE Return(Result)
    BY <1>1, <1>3, <2>1, ReturnCarries
  <2>2. CASE GoOn(vm, Due("play_PG"), [todo EXCEPT !.op = "plain"])
    <3>1. [todo EXCEPT !.op = "plain"].op = "plain"
      BY DEF IInv, TypeOK
    <3>2. ~vm.stopped => Resumes(vm)
      BY DEF ResumeInv
    <3> QED BY <1>1, <2>2, <3>1, <3>2, DueUnasked, GoOnCarries DEF Tries
  <2> QED BY <1>7, <2>1, <2>2 DEF PlayAnyway
<1> QED BY <1>4, <1>5, <1>6, <1>7

(* ... and of calls on a copy. *)
LEMMA FinishTryCarries ==
  ASSUME IInv, ResumeInv, FinishTry \/ FinishNextPg \/ FinishResume
  PROVE  ResumeInv'
<1>1. link # Idle /\ started /\ todo.op \in Tries
  BY PlainTodo DEF FinishTry, FinishNextPg, FinishResume, Ended, Idle, Due, Link, IInv, ResumeInv, Tries
<1>2. Goes(vm, link, todo.op) /\ vm \in Machine /\ link \in LinkType
  BY <1>1, UnderWay
<1>3. Carries(vm, Result) \/ Result.stopped
  BY <1>1, ResultCarries
<1>4. CASE FinishTry
  BY <1>1, <1>3, <1>4, ReturnCarries, DiscardCarries DEF FinishTry
<1>5. CASE FinishNextPg
  <2>1. CASE Return(Result)
    BY <1>1, <1>3, <2>1, ReturnCarries
  <2>2. CASE GoOn(Copy(orig), Due("play_Cell_post"), After("try"))
    <3>1. Runs(orig) /\ Resumes(orig) /\ Left(orig)
      BY <1>1 DEF IInv, ResumeInv
    <3>2. Resumes(Copy(orig)) /\ Left(Copy(orig))
      BY <3>1, CopyCarries
    <3>3. Due("play_Cell_post").cmd = "play_Cell_post" /\ After("try").op = "try"
      BY PlainTodo DEF Due, Link
    <3> QED BY <1>1, <2>2, <3>2, <3>3, GoOnCarries
  <2> QED BY <1>5, <2>1, <2>2 DEF FinishNextPg
<1>6. CASE FinishResume
  <2>1. CASE Return(Result) \/ Discard
    BY <1>1, <1>3, <2>1, ReturnCarries, DiscardCarries
  <2>2. CASE link.cmd # "PlayThis" /\ HasMenu(Result, Root) /\ GoOn(AtMenu(Result, Root), PlayPgc, After("try"))
    <3>1. link.cmd = "Exit"
      BY <1>6, <2>2 DEF FinishResume, Ended, ResumeInv
    <3>2. Result \in Machine /\ SameChain(vm, Result) /\ Result.stopped
      BY <1>2, <3>1, ResultKeeps
    <3>3. Result.vtsi \in {0, Result.vtsN} /\ HasMenu(Result, Root)
      BY <1>1, <1>2, <2>2, <3>2 DEF Goes, SameChain
    <3>4. ASSUME Result.domain = "title" PROVE InChain(Result)
      <4>1. InChain(vm) /\ Table(Result) = Table(vm)
        BY <1>2, <3>1, <3>2, <3>4 DEF Goes, Sound, SameChain, Table
      <4> QED BY <3>2, <4>1 DEF InChain, SameChain, HasPgcn, HasTable
    <3>5. AtMenu(Result, Root).stopped
      BY <3>2, <3>3, <3>4, AtMenuEnters
    <3> QED BY <1>1, <2>2, <3>5, DueUnasked, PlainTodo, GoOnCarries DEF PlayPgc
  <2> QED BY <1>6, <2>1, <2>2 DEF FinishResume
<1> QED BY <1>4, <1>5, <1>6

(* The calls.  A machine between calls is, in a title, where it was left.  *)
LEMMA ReadyCarries ==
  ASSUME IInv, ResumeInv, Ready
  PROVE  /\ vm \in Machine /\ InChain(vm) /\ ~vm.stopped /\ started /\ Runs(vm)
         /\ Resumes(vm) /\ Left(vm) /\ Carries(vm, vm)
         /\ todo.op \notin Tries /\ Plain.op = "plain" /\ Plain.op \notin Tries
         /\ \A op \in {"plain", "anyway", "block", "last_pg", "try", "next_pg", "resume"} : After(op).op = op
BY ReadyRuns, PlainTodo DEF ResumeInv, Carries, Ready

(* A call begins with nothing to be resumed. *)
LEMMA BeginCarries ==
  ASSUME IInv, ResumeInv, Ready, NEW w, NEW l, NEW next, GoOn(w, l, next), Carries(vm, w),
         l.cmd \notin Unasked, next.op \notin Tries
  PROVE  ResumeInv'
BY ReadyCarries, CarriedResumes, GoOnCarries

(* vm_start, vm_reset and vm_stop. *)
LEMMA RestartCarries == ASSUME IInv, ResumeInv, Start \/ Reset \/ Stop PROVE ResumeInv'
<1>1. vm \in Machine /\ link = Idle /\ todo = Plain /\ todo.op \notin Tries /\ todo.op # "resume"
  BY PlainTodo DEF Start, Reset, Stop, IInv, TypeOK, Ready, Plain
<1>2. Idle.cmd \notin CallLinks \cup {"play_Cell_post"} /\ PlayPgc.cmd \notin CallLinks \cup {"play_Cell_post"}
      /\ PlayPgc # Idle
  BY DEF Idle, PlayPgc, Due, Link, CallLinks, MenuCalls
<1>3. ResetVm(vm) \in Machine /\ ResetVm(vm).rsm.vtsN = 0 /\ ResetVm(vm).domain = "fp"
  BY <1>1, ResetVmEnters
<1>4. CASE Start
  <2> DEFINE v == IF vm.stopped THEN [ResetVm(vm) EXCEPT !.stopped = FALSE] ELSE vm
  <2>1. vm' = SetFp(v) /\ link' = PlayPgc /\ started' = TRUE
        /\ todo' = todo /\ orig' = orig /\ left' = left
    BY <1>4 DEF Start
  <2>2. CASE vm.stopped
    <3>1. v \in Machine /\ v.rsm = ResetVm(vm).rsm
      BY <1>3, <2>2 DEF Machine
    <3> HIDE DEF v
    <3>2. SetFp(v).rsm.vtsN = 0
      BY <1>3, <3>1, SetFpEnters
    <3>3. (~vm.stopped => Resumes(vm))'
      BY <2>1, <3>2 DEF Resumes
    <3> QED BY <1>1, <1>2, <2>1, <3>3 DEF ResumeInv, Ready
  <2>3. CASE ~vm.stopped
    <3>1. v = vm /\ vm.domain = "fp" /\ Resumes(vm)
      BY <1>4, <2>3 DEF Start, ResumeInv
    <3>2. SetFp(vm).rsm = vm.rsm /\ SetFp(vm).domain = "fp"
      BY <1>1, SetFpEnters
    <3>3. (~vm.stopped => Resumes(vm))'
      BY <2>1, <3>1, <3>2 DEF Resumes, ResumesAt
    <3> QED BY <1>1, <1>2, <2>1, <3>3 DEF ResumeInv, Ready
  <2> QED BY <2>2, <2>3
<1>5. CASE Reset
  <2>1. vm' = ResetVm(vm) /\ link' = link /\ todo' = todo /\ orig' = orig /\ left' = left /\ started' = FALSE
    BY <1>5 DEF Reset
  <2>2. (~vm.stopped => Resumes(vm))'
    BY <1>3, <2>1 DEF Resumes
  <2> QED BY <1>1, <1>2, <1>3, <2>1, <2>2 DEF ResumeInv, Ready
<1>6. CASE Stop
  <2>1. vm'.stopped /\ link' = link /\ todo' = todo /\ orig' = orig /\ left' = left /\ started' = started /\ started
    BY <1>1, <1>6 DEF Stop, Machine
  <2> QED BY <1>1, <1>2, <2>1 DEF ResumeInv, Ready
<1> QED BY <1>4, <1>5, <1>6

(* The player reads on: the block is where playback last was. *)
LEMMA ReadOnCarries == ASSUME IInv, ResumeInv, NEW b \in Blocks, ReadOn(b) PROVE ResumeInv'
<1>1. Ready /\ vm \in Machine /\ Resumes(vm) /\ Left(vm) /\ todo.op \notin Tries /\ started
  BY ReadyCarries DEF ReadOn
<1> DEFINE w == [vm EXCEPT !.blockN = b]
<1>2. w.domain = vm.domain /\ w.rsm = vm.rsm /\ w.stopped = vm.stopped /\ w.blockN = b /\ w.vtsN = vm.vtsN
      /\ w.pgcN = vm.pgcN /\ w.cellN = vm.cellN
  BY <1>1 DEF Machine
<1>3. vm' = w /\ link' = link /\ todo' = todo /\ orig' = orig /\ started' = started
      /\ left' = (IF vm.domain = "title" THEN [left EXCEPT !.block = b] ELSE left)
  BY DEF ReadOn
<1> HIDE DEF w
<1>4. Left(vm)'
  BY <1>1, <1>2, <1>3 DEF Left, Place
<1>5. Resumes(vm)'
  BY <1>1, <1>2, <1>3 DEF Resumes, ResumesAt
<1>6. link.cmd \notin CallLinks \cup {"play_Cell_post"} /\ todo.op # "resume"
  BY <1>1 DEF Ready, Idle, Due, Link, CallLinks, MenuCalls, Tries
<1> QED BY <1>1, <1>3, <1>4, <1>5, <1>6 DEF ResumeInv

(* Calls within the chain and to chains it leads to, ... *)
LEMMA PlayCallsCarry ==
  ASSUME IInv, ResumeInv, NextCell \/ ExecCmd \/ JumpTopPg \/ JumpPrevPg \/ JumpUp \/ JumpCellBlock
  PROVE  ResumeInv'
<1>1. Ready
  BY DEF NextCell, ExecCmd, JumpTopPg, JumpPrevPg, JumpUp, JumpCellBlock
<1>2. /\ vm \in Machine /\ InChain(vm) /\ ~vm.stopped /\ started
      /\ Resumes(vm) /\ Left(vm) /\ Carries(vm, vm)
      /\ todo.op \notin Tries /\ Plain.op = "plain" /\ Plain.op \notin Tries
      /\ After("last_pg").op \notin Tries
  BY <1>1, ReadyCarries DEF Tries
<1>3. CASE NextCell
  BY <1>2, <1>3, GoOnCarries DEF NextCell, Due, Link
<1>4. CASE ExecCmd
  <2>1. PICK l \in Pgc(vm).buttons \ {NoJump} : GoOn(vm, l, Plain)
    BY <1>4 DEF ExecCmd
  <2>2. vm' = vm /\ link' = l /\ todo' = Plain /\ orig' = orig /\ started' = started /\ left' = left
    BY <2>1 DEF GoOn
  <2>3. l \in Commands(Pgc(vm)) /\ l.cmd \in Anywhere \cup WhilePlaying
    BY <1>2, <2>1, ChainOf DEF Commands, CommandsFit
  <2>4. l # Idle /\ l.cmd # "play_Cell_post"
    BY <2>3 DEF Anywhere, WhilePlaying, Idle, Due, Link
  <2>5. Resumes(vm)' /\ Left(vm)' /\ Pgc(vm)' = Pgc(vm)
    BY <1>2, <2>2 DEF Resumes, ResumesAt, Left, Place, Pgc
  <2>6. (link.cmd \in CallLinks /\ todo.op # "anyway" =>
           /\ link \in Commands(Pgc(vm))
           /\ SavedCell(link) = 0 => Left(vm) \/ (vm.cellN = 0 /\ ByPre(Pgc(vm))))'
    BY <2>2, <2>3, <2>5
  <2> QED BY <1>2, <2>2, <2>4, <2>5, <2>6 DEF ResumeInv, Ready
<1>5. CASE JumpTopPg
  BY <1>1, <1>2, <1>5, DueUnasked, BeginCarries DEF JumpTopPg
<1>6. CASE JumpPrevPg \/ JumpUp
  <2>1. Carries(vm, [vm EXCEPT !.pgN = @ - 1])
    BY <1>2 DEF Machine, Carries
  <2>2. \A n : Carries(vm, SetPgcn(vm, n))
    BY <1>2, SetPgcnCarries DEF Carries
  <2> QED BY <1>1, <1>2, <1>6, <2>1, <2>2, DueUnasked, BeginCarries DEF JumpPrevPg, JumpUp, PlayPgc
<1>7. CASE JumpCellBlock
  <2>1. PICK c \in 1..Cells(vm), b \in Blocks :
          GoOn([vm EXCEPT !.cellN = c], Due("play_Cell"), [After("block") EXCEPT !.cell = c, !.block = b])
    BY <1>7 DEF JumpCellBlock
  <2>2. Carries(vm, [vm EXCEPT !.cellN = c])
    BY <1>2 DEF Machine, Carries
  <2>3. [After("block") EXCEPT !.cell = c, !.block = b].op \notin Tries
    BY DEF After, Plain, Tries
  <2> QED BY <1>1, <2>1, <2>2, <2>3, DueUnasked, BeginCarries
<1> QED BY <1>3, <1>4, <1>5, <1>6, <1>7

(* ... calls for a part or a program of a title, ... *)
LEMMA TitleCallsCarry ==
  ASSUME IInv, ResumeInv,
         \/ \E title, part : JumpTitlePart(title, part)
         \/ \E p \in Programs : JumpTitleProgram(p[1], p[2], p[3])
  PROVE  ResumeInv'
<1>1. Ready
  BY DEF JumpTitlePart, JumpTitleProgram
<1>2. vm \in Machine /\ After("anyway").op \notin Tries
  BY <1>1, ReadyCarries DEF Tries
<1>3. ASSUME NEW title, NEW part, JumpTitlePart(title, part) PROVE ResumeInv'
  <2> DEFINE w == SetVtsPtt(vm, Titles[title].vts, Titles[title].ttn, part)
  <2>1. HasPart(Titles[title].vts, Titles[title].ttn, part)
    BY <1>3 DEF JumpTitlePart
  <2>2. GoOn(w, Due("play_PGC_PG"), [After("anyway") EXCEPT !.title = title, !.part = part])
    BY <1>3 DEF JumpTitlePart
  <2>3. w.domain = "title" /\ w.stopped = vm.stopped
    BY <1>2, <2>1, SetVtsPttEnters
  <2> HIDE DEF w
  <2>4. [After("anyway") EXCEPT !.title = title, !.part = part].op \notin Tries
    BY DEF After, Plain, Tries
  <2> QED BY <1>1, <2>2, <2>3, <2>4, DueUnasked, BeginCarries DEF Carries
<1>4. ASSUME NEW p \in Programs, JumpTitleProgram(p[1], p[2], p[3]) PROVE ResumeInv'
  <2> DEFINE w == SetVtsProg(vm, Titles[p[1]].vts, Titles[p[1]].ttn, p[2], p[3])
  <2>1. Carries(vm, w)
    BY <1>2, <1>4, SetVtsProgEnters DEF Carries
  <2>2. GoOn(w, Due("play_PGC_PG"), After("anyway"))
    BY <1>4 DEF JumpTitleProgram
  <2> HIDE DEF w
  <2> QED BY <1>1, <1>2, <2>1, <2>2, DueUnasked, BeginCarries
<1> QED BY <1>3, <1>4

(* ... and calls that try on a copy. *)
LEMMA TryCallsCarry ==
  ASSUME IInv, ResumeInv, JumpNextPg \/ \E menu \in {Escape, Root, Title} : MenuCall(menu)
  PROVE  ResumeInv'
<1>1. Ready
  BY DEF JumpNextPg, MenuCall
<1>2. /\ vm \in Machine /\ InChain(vm) /\ ~vm.stopped /\ started /\ Runs(vm) /\ Resumes(vm) /\ Left(vm)
      /\ \A op \in Tries : After(op).op = op
  BY <1>1, ReadyCarries DEF Tries
<1> DEFINE v == Copy(vm)
<1>3. Runs(v) /\ Resumes(v) /\ Left(v) /\ v.vtsi \in {0, v.vtsN}
  BY <1>2, CopyCarries, CopyPlays
<1>4. ASSUME NEW w, NEW l, NEW op \in Tries, BeginCopy(w, l, After(op)), Resumes(w),
             l.cmd \notin Unasked
      PROVE  ResumeInv'
  <2>1. vm' = w /\ link' = l /\ todo' = After(op) /\ orig' = vm /\ started' = started /\ left' = left
    BY <1>4 DEF BeginCopy
  <2>2. link' # Idle /\ link'.cmd \notin Unasked
    BY <1>4, <2>1 DEF Unasked, Idle, Due, Link
  <2>3. Resumes(vm)' /\ Resumes(orig)' /\ Left(orig)'
    BY <1>2, <1>4, <2>1 DEF Resumes, ResumesAt, Left
  <2> QED BY <1>2, <2>1, <2>2, <2>3 DEF ResumeInv, Unasked, Ready
<1>5. CASE JumpNextPg
  <2>1. \/ BeginCopy(v, Due("play_PGC_post"), After("next_pg"))
        \/ BeginCopy([v EXCEPT !.pgN = @ + 1], Due("play_PG"), After("next_pg"))
    BY <1>5 DEF JumpNextPg
  <2> HIDE DEF v
  <2>2. [v EXCEPT !.pgN = @ + 1].domain = v.domain /\ [v EXCEPT !.pgN = @ + 1].rsm = v.rsm
    BY <1>3 DEF Runs, Machine
  <2>3. Resumes([v EXCEPT !.pgN = @ + 1])
    BY <1>3, <2>2 DEF Resumes
  <2> QED BY <1>3, <1>4, <2>1, <2>3, DueUnasked DEF Tries
<1>6. CASE \E menu \in {Escape, Root, Title} : MenuCall(menu)
  <2>1. PICK menu \in {Root, Title} : \/ BeginCopy(v, Due("LinkRSM"), After("resume"))
                                      \/ HasMenu(v, menu) /\ BeginCopy(AtMenu(v, menu), PlayPgc, After("try"))
    BY <1>6 DEF MenuCall
  <2> HIDE DEF v
  <2>2. CASE BeginCopy(v, Due("LinkRSM"), After("resume"))
    BY <1>3, <1>4, <2>2 DEF Due, Link, Unasked, CallLinks, MenuCalls, Tries
  <2>3. CASE HasMenu(v, menu) /\ BeginCopy(AtMenu(v, menu), PlayPgc, After("try"))
    <3>1. v \in Machine /\ InChain(v)
      BY <1>3 DEF Runs
    <3>2. AtMenu(v, menu).domain # "title" /\ AtMenu(v, menu).rsm = WithRsm(v).rsm
      BY <1>3, <2>3, <3>1, AtMenuEnters
    <3>3. v.domain = "title" => ResumesAt(SetRsm(v, 0, v.blockN).rsm)
      BY <1>3, <3>1, SavesPlace DEF Left
    <3>4. Resumes(AtMenu(v, menu))
      BY <1>3, <3>2, <3>3 DEF WithRsm, Resumes
    <3> QED BY <1>4, <2>3, <3>4, DueUnasked DEF PlayPgc, Tries
  <2> QED BY <2>1, <2>2, <2>3
<1> QED BY <1>5, <1>6

(* The invariant about the place to resume at is inductive, next to IInv.  *)
LEMMA InitResumes == ASSUME Init PROVE ResumeInv
<1>1. vm.rsm.vtsN = 0 /\ link = Idle /\ todo = Plain /\ started = FALSE /\ vm.domain = "fp"
  BY DEF Init
<1> QED BY <1>1, PlainTodo DEF ResumeInv, Resumes, Ready, Idle, Due, Link, CallLinks, MenuCalls, Plain

(* Every step keeps what is saved. *)
LEMMA StepResumes == ASSUME IInv, ResumeInv, [Next]_vars PROVE ResumeInv'
<1>1. CASE PlayPGC \/ PlayPGCPost \/ PlayPG \/ PlayCell \/ PlayCellPost
  BY <1>1, PlayPGCCarries, PlayPGCPostCarries, PlayPGCarries, PlayCellCarries, PlayCellPostCarries
<1>2. CASE LinkC \/ LinkPG \/ LinkTopPGC \/ LinkPGC \/ LinkTailPGC \/ LinkRSM
  BY <1>2, ChainLinkCarries, OtherChainCarries, LinkRSMCarries
<1>3. CASE LinkPGCN \/ LinkPGN \/ LinkCN \/ LinkPTTN \/ JumpTT \/ JumpVTS_TT \/ JumpVTS_PTT
  BY <1>3, ChainLinkCarries, OtherChainCarries, PartLinkCarries
<1>4. CASE JumpSS_FP \/ JumpSS_VMGM_MENU \/ JumpSS_VMGM_PGC \/ JumpSS_VTSM
  BY <1>4, JumpSSCarries
<1>5. CASE CallSS_FP \/ CallSS_VMGM_MENU \/ CallSS_VMGM_PGC \/ CallSS_VTSM
  BY <1>5, CallSSCarries
<1>6. CASE Finish \/ FinishBlock \/ FinishPrevPgc \/ PlayAnyway \/ FinishTry \/ FinishNextPg \/ FinishResume
  BY <1>6, FinishCarries, FinishTryCarries
<1>7. CASE Calls
  BY <1>7, RestartCarries, ReadOnCarries, PlayCallsCarry, TitleCallsCarry, TryCallsCarry DEF Calls
<1>8. CASE UNCHANGED vars
  BY <1>8 DEF vars, ResumeInv, Resumes, ResumesAt, Left, Place, Ready, Pgc
<1> QED BY <1>1, <1>2, <1>3, <1>4, <1>5, <1>6, <1>7, <1>8 DEF Next, Steps

(* A menu resumes where the title was left: at the cell and block playback *)
(* last was at in a title (vm_jump_menu, the CallSS links of               *)
(* process_command), unless the command that called the menu named a cell  *)
(* of its chain, or was a pre command of a chain not yet entered.          *)
THEOREM Resuming == Spec => []ResumePoint
<1>1. Init => IInv /\ ResumeInv
  BY InitHolds, InitResumes
<1>2. IInv /\ ResumeInv /\ [Next]_vars => (IInv /\ ResumeInv)'
  BY StepKeeps, StepResumes
<1>3. IInv /\ ResumeInv => ResumePoint
  BY DEF ResumeInv, Resumes, ResumesAt, Ready, ResumePoint
<1> QED BY <1>1, <1>2, <1>3, PTL DEF Spec

-----------------------------------------------------------------------------
(* The registers *)

(* w is v at the same chain with the registers of the title. *)
SameRegs(v, w) ==
  w.regs.ttn = v.regs.ttn /\ w.regs.vts_ttn = v.regs.vts_ttn /\ w.regs.tt_pgcn = v.regs.tt_pgcn

Alike(v, w) ==
  /\ w.domain = v.domain /\ w.vtsN = v.vtsN /\ w.pgcN = v.pgcN /\ w.rsm = v.rsm /\ w.stopped = v.stopped
  /\ SameRegs(v, w)

(* Machines alike in these have registers that fit alike. *)
LEMMA AlikeFits ==
  ASSUME NEW v, NEW w, Alike(v, w)
  PROVE  /\ RegsFit(v) => RegsFit(w)
         /\ VtsLinked(v) => VtsLinked(w)
BY DEF Alike, SameRegs, RegsFit, VtsLinked, TitleRegs, Linked

(* A move within the chain, with the same registers, is alike. *)
LEMMA MovedAlike ==
  ASSUME NEW v, NEW w, Moved(v, w), SameRegs(v, w)
  PROVE  Alike(v, w)
BY DEF Moved, SameChain, Alike

(* HL_BTNN_REG is none of the linked registers. *)
LEMMA SelectAlike ==
  ASSUME NEW v \in Machine, NEW b \in Nat
  PROVE  Alike(v, Select(v, b)) /\ Select(v, b) \in Machine /\ Same(v, Select(v, b))
         /\ Select(v, b).regs.pttn = v.regs.pttn
<1>1. Same(v, Select(v, b)) /\ SameRegs(v, Select(v, b)) /\ Select(v, b).regs.pttn = v.regs.pttn
  BY SelectKeeps DEF SameRegs
<1> QED BY <1>1, MovedAlike DEF Same, Moved

(* The part depends on the chain and the program only. *)
LEMMA SamePart ==
  ASSUME NEW v, NEW w, w.domain = v.domain, w.vtsN = v.vtsN, w.vtsi = v.vtsi, w.pgc = v.pgc, w.pgN = v.pgN
  PROVE  CurrentPart(w) = CurrentPart(v)
<1>1. GetPgcn(w) = GetPgcn(v)
  BY DEF GetPgcn, HasTable, Table
<1>2. \A t, p : Ptt(w, t, p) = Ptt(v, t, p)
  BY DEF Ptt
<1>3. \A t, p : Begins(w, t, p) = Begins(v, t, p) /\ Between(w, t, p) = Between(v, t, p)
  BY <1>2 DEF Begins, Between
<1>4. \A t, p : Finds(w, t, p) = Finds(v, t, p)
  BY <1>1, <1>2, <1>3 DEF Finds
<1> QED BY <1>3, <1>4 DEF CurrentPart

(* set_PGN makes the part the current one. *)
LEMMA SetPgnFits ==
  ASSUME NEW v \in Machine, InChain(v)
  PROVE  Alike(v, SetPgn(v)) /\ PartCurrent(SetPgn(v))
<1> DEFINE w == SetPgn(v)
           u == [v EXCEPT !.pgN = ProgramOf(v)]
<1>1. /\ Moved(v, w) /\ w.pgN = ProgramOf(v) /\ SameRegs(v, w)
      /\ v.domain = "title" => w.regs.pttn = CurrentPart(u).part
  BY SetPgnMoves DEF SameRegs
<1>2. u.domain = v.domain /\ u.vtsN = v.vtsN /\ u.vtsi = v.vtsi /\ u.pgc = v.pgc /\ u.pgN = ProgramOf(v)
  BY DEF Machine
<1> HIDE DEF w, u
<1>3. CurrentPart(w) = CurrentPart(u)
  BY <1>1, <1>2, SamePart DEF Moved, SameChain
<1>4. PartCurrent(w)
  BY <1>1, <1>3 DEF PartCurrent, Moved, SameChain
<1> QED BY <1>1, <1>4, MovedAlike DEF w

(* Chains of one title. *)
OneTitle(v, n) == v.domain = "title" => InChain(v) /\ Pgcit[Table(v)][n].id = Pgc(v).id

(* Chains that a chain leads to are of the same title. *)
LEMMA LeadsOn ==
  ASSUME NEW v \in Machine, InChain(v), NEW n \in Leads(Pgc(v)), HasPgcn(v, n)
  PROVE  OneTitle(v, n)
<1>1. SUFFICES ASSUME v.domain = "title" PROVE Pgcit[Table(v)][n].id = Pgc(v).id
  BY DEF OneTitle
<1> DEFINE t == <<"title", v.vtsN>>
<1>2. v.pgc[1] = t /\ v.pgc[2] = v.pgcN /\ Table(v) = t /\ t \in DOMAIN Pgcit /\ v.pgcN \in DOMAIN Pgcit[t]
      /\ Pgc(v) = Pgcit[t][v.pgcN]
  BY <1>1, ChainOf DEF Pgc
<1>3. n \in DOMAIN Pgcit[t] /\ n \in Leads(Pgcit[t][v.pgcN]) /\ t[1] = "title"
  BY <1>1, <1>2 DEF HasPgcn
<1> QED BY <1>2, <1>3, TitleAssumption

(* A chain that a title leads to is of the same title. *)
LEMMA ChainFits ==
  ASSUME NEW v \in Machine, NEW n, HasPgcn(v, n), v.domain # "fp", RegsFit(v),
         v.domain \in {"title", "vtsm"} => v.vtsi = v.vtsN,
         OneTitle(v, n)
  PROVE  RegsFit(SetPgcn(v, n)) /\ (VtsLinked(v) => VtsLinked(SetPgcn(v, n)))
<1> DEFINE w == SetPgcn(v, n)
<1>1. /\ w.domain = v.domain /\ w.vtsN = v.vtsN /\ w.rsm = v.rsm /\ w.pgcN = n
      /\ w.regs.ttn = v.regs.ttn /\ w.regs.vts_ttn = v.regs.vts_ttn
      /\ w.regs.tt_pgcn = IF v.domain = "title" THEN n ELSE v.regs.tt_pgcn
  BY SetPgcnEnters
<1> HIDE DEF w
<1>2. ASSUME v.domain = "title" PROVE TitleRegs(w.regs, w.vtsN, w.pgcN)
  <2> DEFINE t == <<"title", v.vtsN>>
  <2>1. Table(v) = t /\ Pgc(v) = Pgcit[t][v.pgcN]
    BY <1>2, ChainOf DEF Pgc, OneTitle
  <2>3. Pgcit[t][n].id = Pgcit[t][v.pgcN].id
    BY <1>2, <2>1 DEF OneTitle
  <2> QED BY <1>1, <1>2, <2>3 DEF RegsFit, TitleRegs, Linked
<1>3. RegsFit(w)
  BY <1>1, <1>2 DEF RegsFit
<1>4. VtsLinked(v) => VtsLinked(w)
  BY <1>1 DEF VtsLinked, Linked
<1> QED BY <1>3, <1>4 DEF w

(* set_VTS_PTT and set_VTS_PROG set the registers of the title. *)
LEMMA PartFitsRegs ==
  ASSUME NEW v \in Machine, RegsFit(v), NEW vts, NEW ttn, NEW part, HasPart(vts, ttn, part)
  PROVE  RegsFit(SetVtsPtt(v, vts, ttn, part)) /\ VtsLinked(SetVtsPtt(v, vts, ttn, part))
<1> DEFINE w == SetVtsPtt(v, vts, ttn, part)
           q == Ptts[vts][ttn][part]
<1>1. /\ w.domain = "title" /\ w.vtsN = vts /\ w.pgcN = q.pgcn /\ w.rsm = v.rsm
      /\ w.regs.ttn = TT(vts, ttn) /\ w.regs.vts_ttn = ttn /\ w.regs.tt_pgcn = q.pgcn
  BY SetVtsPttEnters
<1> HIDE DEF w
<1>2. Pgcit[<<"title", vts>>][q.pgcn].id = ttn
  BY TitleAssumption DEF HasPart, Vts
<1> QED BY <1>1, <1>2 DEF RegsFit, VtsLinked, TitleRegs, Linked, w

(* A step to a machine whose registers fit. *)
LEMMA RegStep ==
  ASSUME RegInv, link # Idle, NEW w, NEW l, Then(w, l), RegsFit(w), l.cmd # "idle",
         ~w.stopped /\ (l.cmd # "Exit" \/ todo.op = "anyway") => VtsLinked(w),
         l.cmd \in PartLinks => PartCurrent(w)
  PROVE  RegInv'
<1>1. vm' = w /\ link' = l /\ todo' = todo /\ orig' = orig /\ started' = started
  BY DEF Then
<1>2. link' # Idle
  BY <1>1 DEF Idle, Due, Link
<1>3. RegsFit(vm)'
  BY <1>1 DEF RegsFit
<1>4. (~vm.stopped /\ (link.cmd # "Exit" \/ todo.op = "anyway") => VtsLinked(vm))'
  BY <1>1 DEF VtsLinked
<1>5. (link.cmd \in PartLinks \/ Ready => PartCurrent(vm))'
  BY <1>1, <1>2 DEF PartCurrent, Ready
<1>6. (todo.op \in Tries => RegsFit(orig) /\ VtsLinked(orig) /\ PartCurrent(orig))'
  BY <1>1 DEF RegInv, RegsFit, VtsLinked, PartCurrent
<1> QED BY <1>3, <1>4, <1>5, <1>6 DEF RegInv

(* A step to a machine alike keeps the registers. *)
LEMMA RegMove ==
  ASSUME RegInv, link # Idle, link.cmd # "Exit", NEW w, NEW l, Then(w, l), Alike(vm, w), l.cmd # "idle",
         l.cmd \in PartLinks => PartCurrent(w)
  PROVE  RegInv'
<1>1. RegsFit(w) /\ (~w.stopped => VtsLinked(w))
  BY AlikeFits DEF RegInv, Alike
<1> QED BY <1>1, RegStep

(* The play_* functions but play_Cell_post say nothing of the part. *)
LEMMA DueSilent ==
  ASSUME NEW c \in {"play_PGC", "play_PGC_PG", "play_PGC_post", "play_PG", "play_Cell", "Exit"}
  PROVE  Due(c).cmd # "idle" /\ Due(c).cmd \notin PartLinks /\ Due(c).cmd = c
BY DEF Due, Link, PartLinks

(* Another chain of the same title keeps them. *)
LEMMA ToChainRegs ==
  ASSUME RegInv, link # Idle, NEW v \in Machine, NEW n, ToChain(v, n), RegsFit(v), ~v.stopped => VtsLinked(v),
         HasPgcn(v, n) => v.domain # "fp" /\ (v.domain \in {"title", "vtsm"} => v.vtsi = v.vtsN),
         HasPgcn(v, n) => OneTitle(v, n)
  PROVE  RegInv'
<1>1. CASE HasPgcn(v, n)
  <2>1. RegsFit(SetPgcn(v, n)) /\ (VtsLinked(v) => VtsLinked(SetPgcn(v, n)))
    BY <1>1, ChainFits
  <2>2. SetPgcn(v, n).stopped = v.stopped
    BY SetPgcnCarries
  <2> QED BY <1>1, <2>1, <2>2, DueSilent, RegStep DEF ToChain, PlayPgc
<1>2. CASE ~HasPgcn(v, n)
  BY <1>2, DueSilent, RegStep DEF ToChain, Exit
<1> QED BY <1>1, <1>2

(* The play_* functions. *)
LEMMA Underway ==
  ASSUME IInv, RegInv, link # Idle, link.cmd # "Exit"
  PROVE  /\ vm \in Machine /\ InChain(vm) /\ RegsFit(vm) /\ (~vm.stopped => VtsLinked(vm))
         /\ Alike(vm, vm) /\ CommandsFit(vm.pgc[1], Pgc(vm))
BY UnderWay, ChainOf DEF RegInv, Alike, SameRegs

(* play_PGC and play_PGC_PG, ... *)
LEMMA PlayPGCRegs == ASSUME IInv, RegInv, PlayPGC PROVE RegInv'
<1>1. vm \in Machine /\ InChain(vm) /\ link # Idle /\ link.cmd # "Exit" /\ CommandsFit(vm.pgc[1], Pgc(vm))
  BY Underway DEF PlayPGC, Idle, Due, Link
<1> DEFINE w == [vm EXCEPT !.pgN = IF link.cmd = "play_PGC" THEN 1 ELSE @,
                           !.cellN = 0, !.blockN = 0]
<1>2. Alike(vm, w)
  BY <1>1 DEF Machine, Alike, SameRegs
<1>3. PICK l \in Eval(Pgc(vm).pre, Due("play_PG")) : Then(w, l)
  BY DEF PlayPGC
<1> HIDE DEF w
<1>4. l = Due("play_PG") \/ l.cmd \in Anywhere
  BY <1>1, <1>3 DEF Eval, CommandsFit
<1>5. l.cmd # "idle" /\ l.cmd \notin PartLinks
  BY <1>4, DueSilent DEF Anywhere, PartLinks
<1> QED BY <1>1, <1>2, <1>3, <1>5, RegMove

(* ... play_PGC_post, ... *)
LEMMA PlayPGCPostRegs == ASSUME IInv, RegInv, PlayPGCPost PROVE RegInv'
<1>1. /\ vm \in Machine /\ InChain(vm) /\ link # Idle /\ link.cmd # "Exit" /\ CommandsFit(vm.pgc[1], Pgc(vm))
      /\ RegsFit(vm) /\ (~vm.stopped => VtsLinked(vm)) /\ Alike(vm, vm)
  BY Underway DEF PlayPGCPost, Idle, Due, Link
<1>2. CASE ToChain(vm, Pgc(vm).next)
  <2>1. HasPgcn(vm, Pgc(vm).next) =>
          vm.domain # "fp" /\ (vm.domain \in {"title", "vtsm"} => vm.vtsi = vm.vtsN)
    BY <1>1, LinkedChain
  <2>2. HasPgcn(vm, Pgc(vm).next) => OneTitle(vm, Pgc(vm).next)
    BY <1>1, LeadsOn DEF Leads
  <2> QED BY <1>1, <1>2, <2>1, <2>2, ToChainRegs
<1>3. ASSUME NEW l \in Pgc(vm).post \ {NoJump}, Then(vm, l) PROVE RegInv'
  <2>1. l.cmd \in Anywhere
    BY <1>1, <1>3 DEF CommandsFit
  <2> QED BY <1>1, <1>3, <2>1, RegMove DEF Anywhere, PartLinks
<1> QED BY <1>2, <1>3 DEF PlayPGCPost

(* ... play_PG, ... *)
LEMMA PlayPGRegs == ASSUME IInv, RegInv, PlayPG PROVE RegInv'
<1>1. vm \in Machine /\ link # Idle /\ link.cmd # "Exit" /\ Alike(vm, vm)
  BY Underway DEF PlayPG, Idle, Due, Link
<1>2. Alike(vm, [vm EXCEPT !.cellN = Pgc(vm).map[vm.pgN]])
  BY <1>1 DEF Alike, SameRegs, Machine
<1> QED BY <1>1, <1>2, DueSilent, RegMove DEF PlayPG

(* ... play_Cell, which works out the part, ... *)
LEMMA PlayCellRegs == ASSUME IInv, RegInv, PlayCell PROVE RegInv'
<1>1. /\ Goes(vm, link, todo.op) /\ vm \in Machine /\ InChain(vm) /\ link # Idle /\ link.cmd # "Exit"
      /\ Alike(vm, vm)
  BY Underway, UnderWay DEF PlayCell, Idle, Due, Link
<1>2. CASE vm.cellN > Cells(vm)
  BY <1>1, <1>2, DueSilent, RegMove DEF PlayCell
<1>3. CASE ~(vm.cellN > Cells(vm))
  <2>1. PICK agl \in Angles : Then([SetPgn(Angled(vm, agl)) EXCEPT !.blockN = 0], PlayThis)
    BY <1>3 DEF PlayCell
  <2>2. vm.cellN \in 1..Cells(vm)
    BY <1>1, <1>3, ChainOf DEF Goes, Sound, PlayCell
  <2> DEFINE u == Angled(vm, agl)
             v == SetPgn(u)
             w == [v EXCEPT !.blockN = 0]
  <2>3. Moved(vm, u) /\ Alike(vm, u)
    BY <1>1, <2>2, AngledMoves, MovedAlike DEF SameRegs
  <2> HIDE DEF u
  <2>4. u \in Machine /\ InChain(u)
    BY <1>1, <2>3, MovedKeeps DEF Moved
  <2>5. Moved(u, v) /\ Alike(u, v) /\ PartCurrent(v)
    BY <2>4, SetPgnFits, SetPgnMoves
  <2> HIDE DEF v
  <2>6. Alike(v, w) /\ w.vtsi = v.vtsi /\ w.pgc = v.pgc /\ w.pgN = v.pgN /\ w.regs = v.regs
    BY <2>5 DEF Alike, SameRegs, Moved, Machine
  <2>7. PartCurrent(w)
    BY <2>5, <2>6, SamePart DEF PartCurrent, Alike
  <2>8. Alike(vm, w)
    BY <2>3, <2>5, <2>6 DEF Alike, SameRegs
  <2>9. Then(w, PlayThis) /\ PlayThis.cmd # "idle"
    BY <2>1 DEF PlayThis, Due, Link, v, u
  <2> HIDE DEF w
  <2> QED BY <1>1, <2>7, <2>8, <2>9, RegMove
<1> QED BY <1>2, <1>3

(* ... and play_Cell_post, which may. *)
LEMMA PlayCellPostRegs == ASSUME IInv, RegInv, PlayCellPost PROVE RegInv'
<1>1. /\ Goes(vm, link, todo.op) /\ vm \in Machine /\ InChain(vm) /\ link # Idle /\ link.cmd # "Exit"
      /\ CommandsFit(vm.pgc[1], Pgc(vm)) /\ Alike(vm, vm) /\ PartCurrent(vm)
  BY Underway, UnderWay DEF PlayCellPost, Idle, Due, Link, RegInv, PartLinks
<1>2. vm.cellN \in DOMAIN Pgc(vm).cells /\ vm.cellN \in 1..Cells(vm)
  BY <1>1, ChainOf, ChainFields DEF Goes, Sound, PlayCellPost, Plays, Cells
<1> DEFINE v == [vm EXCEPT !.cellN = Behind(vm)]
<1>3. Alike(vm, v) /\ v \in Machine /\ InChain(v)
  <2>1. Behind(vm) \in Nat
    BY <1>1, <1>2, BehindIn, ChainOf
  <2>2. Moved(vm, v) /\ Alike(vm, v)
    BY <1>1, <2>1 DEF Moved, SameChain, Machine, Alike, SameRegs
  <2> QED BY <1>1, <2>2, MovedKeeps DEF Moved
<1>4. \/ Then(SetPgn(v), Due("play_Cell"))
      \/ Then(v, Due("play_PGC_post"))
      \/ \E l \in Pgc(vm).cells[vm.cellN].cmd \ {NoJump} : Then(vm, l)
  BY DEF PlayCellPost
<1> HIDE DEF v
<1>5. Alike(vm, SetPgn(v))
  BY <1>3, SetPgnFits DEF Alike, SameRegs
<1>6. ASSUME NEW l \in Pgc(vm).cells[vm.cellN].cmd \ {NoJump}, Then(vm, l) PROVE RegInv'
  <2>1. l.cmd \in Anywhere \cup WhilePlaying \cup Back
    BY <1>1, <1>2 DEF CommandsFit, Back
  <2>2. l.cmd # "idle"
    BY <2>1 DEF Anywhere, WhilePlaying, Back
  <2> QED BY <1>1, <1>6, <2>2, RegMove
<1> QED BY <1>1, <1>3, <1>4, <1>5, <1>6, DueSilent, RegMove

(* The links. *)
LEMMA LinkNamed ==
  ASSUME IInv, RegInv, todo.op # "anyway",
         link.cmd \in (Anywhere \ {"Exit"}) \cup WhilePlaying \cup Back
  PROVE  /\ vm \in Machine /\ InChain(vm) /\ link # Idle /\ link.cmd # "Exit"
         /\ RegsFit(vm) /\ (~vm.stopped => VtsLinked(vm)) /\ Alike(vm, vm)
         /\ LinkFits(vm, link) /\ Sane(vm, todo.op)
         /\ link.d1 \in Nat /\ link.d2 \in Nat /\ link.d3 \in Nat
         /\ \A b \in {link.d1, link.d2} :
              LET u == Select(vm, b)
              IN  /\ u \in Machine /\ Alike(vm, u) /\ Same(vm, u) /\ InChain(u) /\ Pgc(u) = Pgc(vm)
                  /\ RegsFit(u) /\ (~u.stopped => VtsLinked(u))
<1>1. vm \in Machine /\ InChain(vm) /\ link # Idle /\ link.d1 \in Nat /\ link.d2 \in Nat /\ link.d3 \in Nat
      /\ link.cmd # "Exit" /\ LinkFits(vm, link) /\ Sane(vm, todo.op)
  BY LinkUnderWay DEF Anywhere, WhilePlaying, Back
<1>2. RegsFit(vm) /\ (~vm.stopped => VtsLinked(vm)) /\ Alike(vm, vm)
  BY <1>1, Underway
<1>3. ASSUME NEW b \in Nat
      PROVE  LET u == Select(vm, b)
              IN  /\ u \in Machine /\ Alike(vm, u) /\ Same(vm, u) /\ InChain(u) /\ Pgc(u) = Pgc(vm)
                  /\ RegsFit(u) /\ (~u.stopped => VtsLinked(u))
  <2> DEFINE u == Select(vm, b)
  <2>1. u \in Machine /\ Alike(vm, u) /\ Same(vm, u)
    BY <1>1, SelectAlike
  <2> HIDE DEF u
  <2>2. InChain(u) /\ Pgc(u) = Pgc(vm)
    BY <1>1, <2>1, MovedKeeps DEF Same
  <2>3. RegsFit(u) /\ (~u.stopped => VtsLinked(u))
    BY <1>2, <2>1, AlikeFits DEF Alike
  <2> QED BY <2>1, <2>2, <2>3 DEF u
<1> QED BY <1>1, <1>2, <1>3

(* Links to cells and programs of the chain, ... *)
LEMMA ChainLinkRegs ==
  ASSUME IInv, RegInv, LinkC \/ LinkPG \/ LinkTopPGC \/ LinkTailPGC \/ LinkPGN \/ LinkCN
  PROVE  RegInv'
<1>1. todo.op # "anyway" /\ link.cmd \in (Anywhere \ {"Exit"}) \cup WhilePlaying \cup Back
  BY DEF LinkC, LinkPG, LinkTopPGC, LinkTailPGC, LinkPGN, LinkCN, At, Anywhere, WhilePlaying, Back
<1>2. /\ vm \in Machine /\ link # Idle /\ link.cmd # "Exit"
      /\ \A b \in {link.d1, link.d2} : Alike(vm, Select(vm, b)) /\ Select(vm, b) \in Machine
  BY <1>1, LinkNamed
<1>3. \A u \in Machine : \A n : Alike(u, [u EXCEPT !.cellN = n]) /\ Alike(u, [u EXCEPT !.pgN = n])
  BY DEF Machine, Alike, SameRegs
<1>4. \A b \in {link.d1, link.d2} : \A n : /\ Alike(vm, [Select(vm, b) EXCEPT !.cellN = n])
                                           /\ Alike(vm, [Select(vm, b) EXCEPT !.pgN = n])
  BY <1>2, <1>3 DEF Alike, SameRegs
<1>5. CASE LinkC \/ LinkCN
  BY <1>2, <1>4, <1>5, DueSilent, RegMove DEF LinkC, LinkCN
<1>6. CASE LinkPG \/ LinkPGN
  BY <1>2, <1>4, <1>6, DueSilent, RegMove DEF LinkPG, LinkPGN
<1>7. CASE LinkTopPGC \/ LinkTailPGC
  BY <1>2, <1>7, DueSilent, RegMove DEF LinkTopPGC, LinkTailPGC, PlayPgc
<1> QED BY <1>5, <1>6, <1>7

(* ... links to other chains of the title, ... *)
LEMMA OtherChainRegs == ASSUME IInv, RegInv, LinkPGC \/ LinkPGCN PROVE RegInv'
<1>1. todo.op # "anyway" /\ link.cmd \in Anywhere \ {"Exit"}
  BY DEF LinkPGC, LinkPGCN, At, Anywhere
<1>2. /\ vm \in Machine /\ InChain(vm) /\ link # Idle /\ RegsFit(vm) /\ (~vm.stopped => VtsLinked(vm))
      /\ Fits(vm.pgc[1], Pgc(vm), link)
  BY <1>1, LinkNamed DEF LinkFits
<1>3. CASE LinkPGC
  <2> DEFINE u == Select(vm, link.d1)
  <2>1. PICK n \in Leads(Pgc(vm)) : ToChain(u, n)
    BY <1>3 DEF LinkPGC, At, Leads
  <2>2. u \in Machine /\ InChain(u) /\ Pgc(u) = Pgc(vm) /\ RegsFit(u) /\ (~u.stopped => VtsLinked(u))
    BY <1>1, LinkNamed
  <2> HIDE DEF u
  <2>3. HasPgcn(u, n) => OneTitle(u, n)
    BY <2>1, <2>2, LeadsOn
  <2>4. n \in {Pgc(u).next, Pgc(u).prev, Pgc(u).goup}
    BY <2>1, <2>2 DEF Leads
  <2>5. HasPgcn(u, n) => u.domain # "fp" /\ (u.domain \in {"title", "vtsm"} => u.vtsi = u.vtsN)
    BY <2>2, <2>4, LinkedChain
  <2> QED BY <1>2, <2>1, <2>2, <2>3, <2>5, ToChainRegs
<1>4. CASE LinkPGCN
  <2>1. link.cmd = "LinkPGCN" /\ ToChain(vm, link.d1)
    BY <1>4, MustIsTo DEF LinkPGCN, At
  <2>2. /\ vm.pgc[1] # FP /\ vm.pgc[1][1] = vm.domain /\ (vm.domain = "fp" => vm.pgc[1] = FP)
        /\ (vm.domain # "fp" => vm.pgc[1] = Table(vm))
        /\ (vm.domain \in {"title", "vtsm"} => vm.vtsi = vm.vtsN)
    BY <1>2, <2>1, ChainOf DEF Fits
  <2>3. vm.domain = "title" => Pgcit[Table(vm)][link.d1].id = Pgc(vm).id
    BY <1>2, <2>1, <2>2 DEF Fits
  <2> QED BY <1>2, <2>1, <2>2, <2>3, ToChainRegs DEF OneTitle
<1> QED BY <1>3, <1>4

(* ... and the resume, which takes the registers saved. *)
LEMMA LinkRSMRegs == ASSUME IInv, RegInv, LinkRSM PROVE RegInv'
<1>1. todo.op # "anyway" /\ link.cmd \in WhilePlaying /\ link.cmd # "Exit"
  BY DEF LinkRSM, At, WhilePlaying
<1>2. /\ vm \in Machine /\ link # Idle /\ link.d1 \in Nat /\ Sane(vm, todo.op) /\ ~vm.stopped
      /\ RegsFit(vm) /\ vm.rsm.vtsN \in {0} \cup Vts
  BY <1>1, LinkNamed, MachineFields DEF LinkFits
<1> DEFINE w == Select(Resumed, link.d1)
           x == [w EXCEPT !.cellN = vm.rsm.cellN]
           y == [w EXCEPT !.pgN = 1]
<1>3. \/ Then(vm, Exit)
      \/ vm.rsm.vtsN # 0 /\ Then(y, Due("play_PG"))
      \/ vm.rsm.vtsN # 0 /\ Then(SetPgn(x), Link("PlayThis", vm.rsm.blockN, 0, 0))
  BY DEF LinkRSM, Resumed
<1>4. CASE Then(vm, Exit)
  BY <1>1, <1>2, <1>4, DueSilent, RegStep DEF Exit
<1>5. CASE vm.rsm.vtsN # 0 /\ ~Then(vm, Exit)
  <2>1. RsmOK(vm) /\ vm.rsm.vtsN > 0 /\ vm.rsm.cellN \in Nat
    BY <1>2, <1>5, VtsAreNumbers, MachineFields DEF Sane
  <2>2. /\ w \in Machine /\ InChain(w) /\ w.domain = "title" /\ w.stopped = vm.stopped
        /\ w.vtsN = vm.rsm.vtsN /\ w.pgcN = vm.rsm.pgcN /\ w.rsm = vm.rsm
        /\ w.regs.ttn = vm.rsm.regs.ttn /\ w.regs.vts_ttn = vm.rsm.regs.vts_ttn
        /\ w.regs.tt_pgcn = vm.rsm.regs.tt_pgcn
    BY <1>2, <1>5, <2>1, ResumedInTitle
  <2> HIDE DEF w
  <2>3. RegsFit(w) /\ VtsLinked(w)
    BY <1>2, <2>1, <2>2 DEF RegsFit, VtsLinked, TitleRegs, Linked
  <2>4. Moved(w, x) /\ Moved(w, y) /\ SameRegs(w, x) /\ SameRegs(w, y)
    BY <2>1, <2>2 DEF Machine, Moved, SameChain, SameRegs
  <2> HIDE DEF x, y
  <2>5. x \in Machine /\ InChain(x) /\ Alike(w, x) /\ Alike(w, y)
    BY <2>2, <2>4, MovedKeeps, MovedAlike DEF Moved
  <2>6. Alike(x, SetPgn(x)) /\ PartCurrent(SetPgn(x))
    BY <2>5, SetPgnFits
  <2>7. RegsFit(y) /\ VtsLinked(y) /\ RegsFit(SetPgn(x)) /\ VtsLinked(SetPgn(x))
    BY <2>3, <2>5, <2>6, AlikeFits
  <2>8. Link("PlayThis", vm.rsm.blockN, 0, 0).cmd = "PlayThis"
    BY DEF Link
  <2> QED BY <1>2, <1>3, <1>5, <2>6, <2>7, <2>8, DueSilent, RegStep
<1> QED BY <1>3, <1>4, <1>5

(* To a part of a title. *)
LEMMA ToPartRegs ==
  ASSUME RegInv, link # Idle, todo.op # "anyway", NEW v \in Machine, RegsFit(v), ~v.stopped => VtsLinked(v),
         NEW vts, NEW ttn, NEW part, NEW play \in {"play_PG", "play_PGC", "play_PGC_PG"},
         ToPart(v, vts, ttn, part, play), HasPart(vts, ttn, part) \/ (v.domain = "title" /\ vts = v.vtsN)
  PROVE  RegInv'
<1>1. CASE HasPart(vts, ttn, part)
  <2>1. Then(SetVtsPtt(v, vts, ttn, part), Due(play))
    BY <1>1 DEF ToPart
  <2> QED BY <1>1, <2>1, PartFitsRegs, DueSilent, RegStep
<1>2. CASE ~HasPart(vts, ttn, part)
  <2> DEFINE w == [OpenVtsi(v, vts) EXCEPT !.domain = "title"]
  <2>1. Alike(v, w)
    BY <1>2 DEF Machine, OpenVtsi, Alike, SameRegs
  <2>2. Then(w, Exit)
    BY <1>2 DEF ToPart
  <2> HIDE DEF w
  <2>3. RegsFit(w)
    BY <2>1, AlikeFits
  <2> QED BY <2>2, <2>3, DueSilent, RegStep DEF Exit
<1> QED BY <1>1, <1>2

(* Links and jumps to parts set the registers of the title. *)
LEMMA PartLinkRegs ==
  ASSUME IInv, RegInv, LinkPTTN \/ JumpTT \/ JumpVTS_TT \/ JumpVTS_PTT
  PROVE  RegInv'
<1>1. todo.op # "anyway" /\ link.cmd \in Anywhere \ {"Exit"}
  BY DEF LinkPTTN, JumpTT, JumpVTS_TT, JumpVTS_PTT, At, Anywhere
<1> DEFINE u == Select(vm, link.d2)
<1>2. /\ vm \in Machine /\ InChain(vm) /\ link # Idle /\ RegsFit(vm) /\ (~vm.stopped => VtsLinked(vm))
      /\ Fits(vm.pgc[1], Pgc(vm), link)
      /\ u \in Machine /\ RegsFit(u) /\ (~u.stopped => VtsLinked(u)) /\ Alike(vm, u)
  BY <1>1, LinkNamed DEF LinkFits
<1>3. vm.pgc[1][1] = vm.domain /\ (vm.domain \in {"title", "vtsm"} => vm.pgc[1][2] = vm.vtsN)
  BY <1>2, ChainOf
<1>4. CASE LinkPTTN
  <2>1. link.cmd = "LinkPTTN" /\ ToPart(u, vm.vtsN, vm.regs.vts_ttn, link.d1, "play_PG")
    BY <1>4 DEF LinkPTTN, At
  <2> HIDE DEF u
  <2>2. u.domain = "title" /\ vm.vtsN = u.vtsN
    BY <1>2, <1>3, <2>1 DEF Fits, Alike
  <2> QED BY <1>1, <1>2, <2>1, <2>2, ToPartRegs
<1>5. CASE JumpTT
  <2>1. link.cmd = "JumpTT" /\ ToPart(vm, Titles[link.d1].vts, Titles[link.d1].ttn, 1, "play_PGC")
    BY <1>5 DEF JumpTT, At
  <2>2. HasPart(Titles[link.d1].vts, Titles[link.d1].ttn, 1)
    BY <1>2, <2>1 DEF Fits
  <2> QED BY <1>1, <1>2, <2>1, <2>2, ToPartRegs
<1>6. CASE JumpVTS_TT
  <2>1. link.cmd = "JumpVTS_TT" /\ ToPart(vm, vm.vtsN, link.d1, 1, "play_PGC")
    BY <1>6 DEF JumpVTS_TT, At
  <2>2. HasPart(vm.vtsN, link.d1, 1)
    BY <1>2, <1>3, <2>1 DEF Fits
  <2> QED BY <1>1, <1>2, <2>1, <2>2, ToPartRegs
<1>7. CASE JumpVTS_PTT
  <2>1. link.cmd = "JumpVTS_PTT" /\ ToPart(vm, vm.vtsN, link.d1, link.d2, "play_PGC_PG")
    BY <1>7 DEF JumpVTS_PTT, At
  <2>2. HasPart(vm.vtsN, link.d1, link.d2)
    BY <1>2, <1>3, <2>1 DEF Fits
  <2> QED BY <1>1, <1>2, <2>1, <2>2, ToPartRegs
<1> QED BY <1>4, <1>5, <1>6, <1>7

(* Out of titles. *)
LEMMA SavedFits ==
  ASSUME NEW v, NEW w, RegsFit(v), w.domain # "title", w.rsm = v.rsm
  PROVE  RegsFit(w)
BY DEF RegsFit

(* Menus have no registers of a title to agree with. *)
LEMMA ToMenusRegs ==
  ASSUME RegInv, link # Idle, vm \in Machine, RegsFit(vm), todo.op # "anyway",
         NEW v \in Machine, v.domain \in {"vmgm", "vtsm"}, v.domain = "vtsm" => v.vtsi = v.vtsN,
         RegsFit(v), ~v.stopped => VtsLinked(v), vm.domain = "title" => v.vtsN = vm.vtsN,
         NEW n, IF HasTable(v) THEN MustChain(v, n) ELSE NoMenus(v)
  PROVE  RegInv'
<1>1. CASE HasTable(v) /\ MustChain(v, n)
  BY <1>1, MustIsTo, ToChainRegs DEF OneTitle
<1>2. CASE NoMenus(v)
  <2> DEFINE w == [vm EXCEPT !.vtsN = v.vtsN, !.vtsi = v.vtsi]
  <2>1. /\ w.domain = vm.domain /\ w.vtsN = v.vtsN /\ w.pgcN = vm.pgcN /\ w.regs = vm.regs
        /\ w.rsm = vm.rsm
    BY DEF Machine
  <2>2. Then(w, Exit)
    BY <1>2 DEF NoMenus
  <2> HIDE DEF w
  <2>3. RegsFit(w)
    BY <2>1 DEF RegsFit
  <2> QED BY <2>2, <2>3, DueSilent, RegStep DEF Exit
<1> QED BY <1>1, <1>2

(* Jumps to menus; JumpSS_VTSM sets TTN and VTS_TTN together. *)
LEMMA JumpSSRegs ==
  ASSUME IInv, RegInv, JumpSS_FP \/ JumpSS_VMGM_MENU \/ JumpSS_VMGM_PGC \/ JumpSS_VTSM
  PROVE  RegInv'
<1>1. todo.op # "anyway" /\ link.cmd \in Anywhere \ {"Exit"}
  BY DEF JumpSS_FP, JumpSS_VMGM_MENU, JumpSS_VMGM_PGC, JumpSS_VTSM, At, Anywhere
<1>2. /\ vm \in Machine /\ InChain(vm) /\ link # Idle /\ RegsFit(vm) /\ (~vm.stopped => VtsLinked(vm))
      /\ Fits(vm.pgc[1], Pgc(vm), link) /\ link.d2 \in Nat
  BY <1>1, LinkNamed DEF LinkFits
<1>3. vm.pgc[1][1] = vm.domain /\ (vm.domain \in {"title", "vtsm"} => vm.vtsi = vm.vtsN)
  BY <1>2, ChainOf
<1>4. CASE JumpSS_FP
  <2> DEFINE w == SetFp(vm)
  <2>1. /\ w.domain = "fp" /\ w.vtsN = vm.vtsN /\ w.regs = vm.regs /\ w.rsm = vm.rsm
        /\ w.stopped = vm.stopped
    BY <1>2, SetFpEnters
  <2>2. Then(w, PlayPgc)
    BY <1>4 DEF JumpSS_FP
  <2> HIDE DEF w
  <2>3. RegsFit(w) /\ (~w.stopped => VtsLinked(w))
    BY <1>2, <2>1, SavedFits DEF VtsLinked
  <2> QED BY <1>2, <2>2, <2>3, DueSilent, RegStep DEF PlayPgc
<1>5. CASE JumpSS_VMGM_MENU \/ JumpSS_VMGM_PGC
  <2>1. vm.domain # "title"
    BY <1>2, <1>3, <1>5 DEF Fits, JumpSS_VMGM_MENU, JumpSS_VMGM_PGC, At
  <2> DEFINE v == In(vm, "vmgm")
  <2>2. /\ v \in Machine /\ v.domain = "vmgm" /\ v.vtsN = vm.vtsN /\ v.regs = vm.regs /\ v.rsm = vm.rsm
        /\ v.stopped = vm.stopped
    BY <1>2, InKeeps DEF Domains
  <2>3. \E n : IF HasTable(v) THEN MustChain(v, n) ELSE NoMenus(v)
    BY <1>5 DEF JumpSS_VMGM_MENU, JumpSS_VMGM_PGC, ToMenu, ToMenuPgc
  <2> HIDE DEF v
  <2>4. RegsFit(v) /\ (~v.stopped => VtsLinked(v))
    BY <1>2, <2>2, SavedFits DEF VtsLinked
  <2> QED BY <1>1, <1>2, <2>1, <2>2, <2>3, <2>4, ToMenusRegs
<1>6. CASE JumpSS_VTSM
  <2>1. vm.domain # "title" /\ (link.d1 = 0 => vm.domain = "vtsm") /\ (link.d1 # 0 => link.d1 \in Vts)
    BY <1>2, <1>3, <1>6, VtsAreNumbers DEF Fits, JumpSS_VTSM, At
  <2> DEFINE w == ToVtsm
  <2>2. w \in Machine /\ w.domain = "vtsm" /\ w.vtsi = w.vtsN /\ w.rsm = vm.rsm
        /\ w.regs.vts_ttn = link.d2 /\ w.regs.ttn = TT(w.vtsN, link.d2)
    BY <1>2, <1>3, <2>1, VtsmOpened
  <2>3. ToMenu(w, link.d3)
    BY <1>6 DEF JumpSS_VTSM, ToVtsm
  <2> HIDE DEF w
  <2>4. RegsFit(w) /\ VtsLinked(w)
    BY <1>2, <2>2, SavedFits DEF VtsLinked, Linked
  <2>5. IF HasTable(w) THEN MustChain(w, MenuId(w, link.d3)) ELSE NoMenus(w)
    BY <2>3 DEF ToMenu
  <2> QED BY <1>1, <1>2, <2>1, <2>2, <2>4, <2>5, ToMenusRegs
<1> QED BY <1>4, <1>5, <1>6

(* What is saved of a title fits, and so does the machine it is saved in.  *)
LEMMA SavesFit ==
  ASSUME NEW v \in Machine, InChain(v), v.domain = "title", RegsFit(v), NEW cell \in Nat, NEW block \in Blocks
  PROVE  LET w == SetRsm(v, cell, block)
         IN  RegsFit(w) /\ (VtsLinked(v) => VtsLinked(w))
<1> DEFINE w == SetRsm(v, cell, block)
<1>1. /\ SameChain(v, w) /\ w.regs = v.regs /\ w.rsm.vtsN = v.vtsN /\ w.rsm.pgcN = v.pgcN
      /\ w.rsm.regs = v.regs
  BY SetRsmKeeps
<1> HIDE DEF w
<1>2. RegsFit(w)
  BY <1>1 DEF RegsFit, SameChain
<1>3. VtsLinked(v) => VtsLinked(w)
  BY <1>1 DEF VtsLinked, SameChain
<1> QED BY <1>2, <1>3 DEF w

(* Calls of menus save the registers of the title. *)
LEMMA CallSSRegs ==
  ASSUME IInv, RegInv, CallSS_FP \/ CallSS_VMGM_MENU \/ CallSS_VMGM_PGC \/ CallSS_VTSM
  PROVE  RegInv'
<1>1. todo.op # "anyway" /\ link.cmd \in CallLinks
  BY DEF CallSS_FP, CallSS_VMGM_MENU, CallSS_VMGM_PGC, CallSS_VTSM, At, CallLinks, MenuCalls
<1> DEFINE u == SetRsm(vm, SavedCell(link), 0)
<1>2. /\ link # Idle /\ vm \in Machine /\ InChain(vm) /\ vm.domain = "title" /\ vm.vtsi = vm.vtsN
      /\ u \in Machine /\ SameChain(vm, u)
  BY <1>1, CallSaves
<1>3. SavedCell(link) \in Nat /\ 0 \in Blocks /\ link.cmd # "Exit"
  <2>1. link.d1 \in Nat /\ link.d2 \in Nat
    BY <1>2, UnderWay DEF LinkType
  <2>2. 0 \in Blocks
    BY BlockAssumption DEF Blocks
  <2> QED BY <1>1, <2>1, <2>2 DEF SavedCell, CallLinks, MenuCalls
<1>4. RegsFit(vm) /\ (~vm.stopped => VtsLinked(vm)) /\ u.stopped = vm.stopped
  BY <1>2, <1>3, Underway, SetRsmKeeps
<1>5. RegsFit(u) /\ (~u.stopped => VtsLinked(u))
  BY <1>2, <1>3, <1>4, SavesFit
<1>6. CASE CallSS_FP
  <2>1. Then(SetFp(u), PlayPgc)
    BY <1>6 DEF CallSS_FP, At, SavedCell
  <2> HIDE DEF u
  <2> DEFINE w == SetFp(u)
  <2>2. /\ w.domain = "fp" /\ w.vtsN = u.vtsN /\ w.regs = u.regs /\ w.rsm = u.rsm
        /\ w.stopped = u.stopped
    BY <1>2, SetFpEnters
  <2> HIDE DEF w
  <2>3. RegsFit(w) /\ (~w.stopped => VtsLinked(w))
    BY <1>5, <2>2, SavedFits DEF VtsLinked
  <2> QED BY <1>2, <2>1, <2>3, DueSilent, RegStep DEF PlayPgc, w
<1>7. CASE CallSS_VMGM_MENU \/ CallSS_VMGM_PGC \/ CallSS_VTSM
  <2>1. PICK d \in {"vmgm", "vtsm"} : \E n :
          IF HasTable(In(u, d)) THEN MustChain(In(u, d), n) ELSE NoMenus(In(u, d))
    BY <1>7 DEF CallSS_VMGM_MENU, CallSS_VMGM_PGC, CallSS_VTSM, ToMenu, ToMenuPgc, At, SavedCell
  <2> HIDE DEF u
  <2> DEFINE v == In(u, d)
  <2>2. /\ v \in Machine /\ v.domain = d /\ v.vtsN = u.vtsN /\ v.vtsi = u.vtsi /\ v.regs = u.regs
        /\ v.rsm = u.rsm /\ v.stopped = u.stopped
    BY <1>2, InKeeps DEF Domains
  <2>3. PICK n : IF HasTable(v) THEN MustChain(v, n) ELSE NoMenus(v)
    BY <2>1
  <2> HIDE DEF v
  <2>4. RegsFit(v) /\ (~v.stopped => VtsLinked(v))
    BY <1>5, <2>2, SavedFits DEF VtsLinked
  <2>5. v.vtsN = vm.vtsN /\ v.vtsi = v.vtsN
    BY <1>2, <2>2 DEF SameChain
  <2> QED BY <1>1, <1>2, <1>4, <2>2, <2>3, <2>4, <2>5, ToMenusRegs
<1> QED BY <1>6, <1>7

(* The end of a call.  What a call returns to fits, and a machine that     *)
(* goes on playing reports its part.                                       *)
LEMMA ReturnRegs ==
  ASSUME NEW w, Return(w), RegsFit(w), ~w.stopped => VtsLinked(w) /\ PartCurrent(w)
  PROVE  RegInv'
<1>1. vm' = w /\ link' = Idle /\ todo' = Plain
  BY DEF Return
<1>2. RegsFit(vm)' /\ (~vm.stopped => VtsLinked(vm) /\ PartCurrent(vm))'
  BY <1>1 DEF RegsFit, VtsLinked, PartCurrent
<1>3. Idle.cmd \notin PartLinks /\ Plain.op \notin Tries
  BY PlainTodo DEF Idle, Due, Link, PartLinks
<1> QED BY <1>1, <1>2, <1>3 DEF RegInv, Ready

(* A copy thrown away leaves the registers of the machine. *)
LEMMA DiscardRegs ==
  ASSUME RegInv, todo.op \in Tries, Discard
  PROVE  RegInv'
<1>1. vm' = orig /\ link' = Idle /\ todo' = Plain
  BY DEF Discard
<1>2. RegsFit(vm)' /\ VtsLinked(vm)' /\ PartCurrent(vm)'
  BY <1>1 DEF RegInv, RegsFit, VtsLinked, PartCurrent
<1>3. Idle.cmd \notin PartLinks /\ Plain.op \notin Tries
  BY PlainTodo DEF Idle, Due, Link, PartLinks
<1> QED BY <1>1, <1>2, <1>3 DEF RegInv, Ready

(* A vm_* function that begins or goes on. *)
LEMMA GoOnRegs ==
  ASSUME RegInv, NEW w, NEW l, NEW next, GoOn(w, l, next), RegsFit(w), ~w.stopped => VtsLinked(w),
         l.cmd # "idle", l.cmd \in PartLinks => PartCurrent(w), next.op \in Tries => todo.op \in Tries
  PROVE  RegInv'
<1>1. vm' = w /\ link' = l /\ todo' = next /\ orig' = orig
  BY DEF GoOn
<1>2. link' # Idle
  BY <1>1 DEF Idle, Due, Link
<1>3. RegsFit(vm)' /\ (~vm.stopped => VtsLinked(vm))'
  BY <1>1 DEF RegsFit, VtsLinked
<1>4. (link.cmd \in PartLinks => PartCurrent(vm))'
  BY <1>1 DEF PartCurrent
<1>5. (todo.op \in Tries => RegsFit(orig) /\ VtsLinked(orig) /\ PartCurrent(orig))'
  BY <1>1 DEF RegInv, RegsFit, VtsLinked, PartCurrent
<1> QED BY <1>2, <1>3, <1>4, <1>5 DEF RegInv, Ready

(* What a call ends with has the registers of the machine. *)
LEMMA ResultRegs ==
  ASSUME IInv, RegInv, link # Idle, link.cmd \in {"PlayThis", "LinkNoLink", "Exit"}
  PROVE  /\ Result \in Machine /\ RegsFit(Result) /\ (~Result.stopped => VtsLinked(Result) /\ PartCurrent(Result))
         /\ SameChain(vm, Result) /\ Result.stopped = (link.cmd = "Exit" \/ vm.stopped)
         /\ RegsFit(vm) /\ vm \in Machine /\ link \in LinkType
<1>1. vm \in Machine /\ link \in LinkType /\ (link.cmd = "PlayThis" => link.d1 \in Blocks)
  BY UnderWay DEF Goes
<1>2. /\ Result \in Machine /\ SameChain(vm, Result) /\ Result.pgN = vm.pgN /\ Result.rsm = vm.rsm
      /\ Result.stopped = (link.cmd = "Exit" \/ vm.stopped) /\ SameRegs(vm, Result)
      /\ Result.regs.pttn = vm.regs.pttn
  BY <1>1, ResultKeeps DEF SameRegs
<1>3. RegsFit(Result) /\ (VtsLinked(vm) => VtsLinked(Result))
  BY <1>2 DEF RegInv, RegsFit, VtsLinked, TitleRegs, Linked, SameRegs, SameChain
<1>4. ASSUME ~Result.stopped PROVE PartCurrent(Result)
  <2>1. PartCurrent(vm)
    BY <1>2, <1>4 DEF RegInv, PartLinks
  <2>2. CurrentPart(Result) = CurrentPart(vm)
    BY <1>2, SamePart DEF SameChain
  <2> QED BY <1>2, <2>1, <2>2 DEF PartCurrent, SameChain
<1>5. ~Result.stopped => VtsLinked(vm)
  BY <1>2 DEF RegInv
<1> QED BY <1>1, <1>2, <1>3, <1>4, <1>5 DEF RegInv

(* Setting the program or the block keeps them. *)
LEMMA SetKeepsRegs ==
  ASSUME NEW v \in Machine, NEW n
  PROVE  /\ Alike(v, [v EXCEPT !.blockN = n]) /\ Alike(v, [v EXCEPT !.pgN = n]) /\ Alike(v, [v EXCEPT !.cellN = n])
         /\ PartCurrent(v) => PartCurrent([v EXCEPT !.blockN = n])
<1> DEFINE w == [v EXCEPT !.blockN = n]
<1>1. /\ w.domain = v.domain /\ w.vtsN = v.vtsN /\ w.vtsi = v.vtsi /\ w.pgc = v.pgc /\ w.pgN = v.pgN
      /\ w.regs = v.regs
  BY DEF Machine
<1>2. Alike(v, [v EXCEPT !.blockN = n]) /\ Alike(v, [v EXCEPT !.pgN = n]) /\ Alike(v, [v EXCEPT !.cellN = n])
  BY DEF Machine, Alike, SameRegs
<1> HIDE DEF w
<1>3. CurrentPart(w) = CurrentPart(v)
  BY <1>1, SamePart
<1>4. PartCurrent(v) => PartCurrent(w)
  BY <1>1, <1>3 DEF PartCurrent
<1> QED BY <1>2, <1>4 DEF w

(* The end of calls on the machine itself ... *)
LEMMA FinishRegs ==
  ASSUME IInv, RegInv, Finish \/ FinishBlock \/ FinishPrevPgc \/ PlayAnyway
  PROVE  RegInv'
<1>1. CASE Finish
  BY <1>1, EndedNotIdle, ResultRegs, ReturnRegs DEF Finish
<1>2. CASE FinishBlock
  <2>1. link # Idle /\ link.cmd \in {"PlayThis", "LinkNoLink", "Exit"}
    BY <1>2, EndedNotIdle DEF FinishBlock
  <2>2. Result \in Machine /\ RegsFit(Result) /\ (~Result.stopped => VtsLinked(Result) /\ PartCurrent(Result))
    BY <2>1, ResultRegs
  <2> DEFINE w == [Result EXCEPT !.blockN = todo.block]
  <2>3. Alike(Result, w) /\ (PartCurrent(Result) => PartCurrent(w))
    BY <2>2, SetKeepsRegs
  <2>4. Return(Result) \/ Return(w)
    BY <1>2 DEF FinishBlock
  <2> HIDE DEF w
  <2>5. RegsFit(w) /\ (~w.stopped => VtsLinked(w) /\ PartCurrent(w))
    BY <2>2, <2>3, AlikeFits DEF Alike
  <2> QED BY <2>2, <2>4, <2>5, ReturnRegs
<1>3. CASE FinishPrevPgc
  <2>1. link # Idle /\ link.cmd \in {"PlayThis", "LinkNoLink", "Exit"} /\ todo.op = "last_pg"
    BY <1>3, EndedNotIdle DEF FinishPrevPgc
  <2>2. Result \in Machine /\ RegsFit(Result) /\ (~Result.stopped => VtsLinked(Result))
    BY <2>1, ResultRegs
  <2> DEFINE w == [Result EXCEPT !.pgN = NrOfPrograms(vm)]
  <2>3. Alike(Result, w)
    BY <2>2, SetKeepsRegs
  <2>4. GoOn(w, Due("play_PG"), Plain)
    BY <1>3 DEF FinishPrevPgc
  <2> HIDE DEF w
  <2>5. RegsFit(w) /\ (~w.stopped => VtsLinked(w))
    BY <2>2, <2>3, AlikeFits DEF Alike
  <2> QED BY <2>4, <2>5, DueSilent, PlainTodo, GoOnRegs
<1>4. CASE PlayAnyway
  <2>1. CASE link.cmd = "PlayThis" /\ Return(Result)
    BY <2>1, ResultRegs, ReturnRegs DEF Idle, Due, Link
  <2>2. CASE GoOn(vm, Due("play_PG"), [todo EXCEPT !.op = "plain"])
    <3>1. [todo EXCEPT !.op = "plain"].op = "plain" /\ todo.op = "anyway"
      BY <1>4 DEF IInv, TypeOK, PlayAnyway
    <3>2. RegsFit(vm) /\ (~vm.stopped => VtsLinked(vm))
      BY <3>1 DEF RegInv
    <3> QED BY <2>2, <3>1, <3>2, DueSilent, GoOnRegs DEF Tries
  <2> QED BY <1>4, <2>1, <2>2 DEF PlayAnyway
<1> QED BY <1>1, <1>2, <1>3, <1>4

(* A copy of a title has its registers. *)
LEMMA CopyRegs ==
  ASSUME NEW v, Runs(v), RegsFit(v), VtsLinked(v), PartCurrent(v)
  PROVE  LET w == Copy(v) IN RegsFit(w) /\ VtsLinked(w) /\ PartCurrent(w) /\ w \in Machine /\ ~w.stopped
<1> DEFINE w == Copy(v)
<1>1. /\ Runs(w) /\ w.domain = v.domain /\ w.vtsN = v.vtsN /\ w.pgcN = v.pgcN /\ w.rsm = v.rsm
      /\ w.pgc = v.pgc /\ w.pgN = v.pgN
      /\ w.regs.ttn = v.regs.ttn /\ w.regs.vts_ttn = v.regs.vts_ttn /\ w.regs.pttn = v.regs.pttn
      /\ w.regs.tt_pgcn = IF v.vtsN > 0 /\ v.domain = "title" THEN v.pgcN ELSE v.regs.tt_pgcn
  BY CopyPlays
<1> HIDE DEF w
<1>2. RegsFit(w) /\ VtsLinked(w)
  BY <1>1 DEF RegsFit, VtsLinked, TitleRegs, Linked
<1>3. ASSUME v.domain = "title" PROVE CurrentPart(w) = CurrentPart(v)
  <2>1. v.vtsi = v.vtsN /\ w.vtsi = w.vtsN
    BY <1>1, <1>3 DEF Runs, InChain
  <2> QED BY <1>1, <2>1, SamePart
<1> QED BY <1>1, <1>2, <1>3 DEF PartCurrent, Runs, w

(* vm_jump_menu keeps and saves them. *)
LEMMA AtMenuRegs ==
  ASSUME NEW v \in Machine, NEW menu \in {Root, Title}, HasMenu(v, menu),
         v.vtsi \in {0, v.vtsN}, v.domain = "title" => InChain(v), RegsFit(v)
  PROVE  LET w == AtMenu(v, menu)
         IN  RegsFit(w) /\ (VtsLinked(v) => VtsLinked(w)) /\ w.stopped = v.stopped
<1> DEFINE w == AtMenu(v, menu)
<1>1. /\ w.domain # "title" /\ w.stopped = v.stopped /\ w.vtsN = v.vtsN
      /\ w.regs.ttn = v.regs.ttn /\ w.regs.vts_ttn = v.regs.vts_ttn /\ w.rsm = WithRsm(v).rsm
  BY AtMenuEnters
<1> HIDE DEF w
<1>2. RegsFit(WithRsm(v))
  <2>1. v.blockN \in Blocks
    BY MachineFields
  <2> QED BY <2>1, SavesFit DEF WithRsm
<1>3. RegsFit(w)
  BY <1>1, <1>2, SavedFits
<1> QED BY <1>1, <1>3 DEF VtsLinked, Linked, w

(* ... and of calls on a copy. *)
LEMMA FinishTryRegs ==
  ASSUME IInv, RegInv, FinishTry \/ FinishNextPg \/ FinishResume
  PROVE  RegInv'
<1>1. link # Idle /\ link.cmd \in {"PlayThis", "LinkNoLink", "Exit"} /\ todo.op \in Tries
  BY EndedNotIdle DEF FinishTry, FinishNextPg, FinishResume, Tries
<1>2. /\ Result \in Machine /\ RegsFit(Result) /\ (~Result.stopped => VtsLinked(Result) /\ PartCurrent(Result))
      /\ SameChain(vm, Result) /\ Goes(vm, link, todo.op) /\ vm \in Machine
      /\ Result.stopped = (link.cmd = "Exit" \/ vm.stopped)
  BY <1>1, ResultRegs, UnderWay
<1>3. Runs(orig) /\ RegsFit(orig) /\ VtsLinked(orig) /\ PartCurrent(orig)
  BY <1>1 DEF IInv, RegInv
<1>4. CASE Return(Result) \/ Discard
  BY <1>1, <1>2, <1>4, ReturnRegs, DiscardRegs
<1>5. CASE GoOn(Copy(orig), Due("play_Cell_post"), After("try"))
  BY <1>1, <1>3, <1>5, CopyRegs, GoOnRegs DEF Due, Link
<1>6. CASE /\ FinishResume /\ link.cmd # "PlayThis"
           /\ HasMenu(Result, Root) /\ GoOn(AtMenu(Result, Root), PlayPgc, After("try"))
  <2>1. Result.vtsi \in {0, Result.vtsN} /\ HasMenu(Result, Root)
    BY <1>1, <1>2, <1>6 DEF Goes, SameChain
  <2>2. ASSUME Result.domain = "title" PROVE InChain(Result)
    <3>1. InChain(vm) /\ Table(Result) = Table(vm)
      BY <1>2, <2>2 DEF Goes, Sound, SameChain, Table
    <3> QED BY <1>2, <3>1 DEF InChain, SameChain, HasPgcn, HasTable
  <2>3. RegsFit(AtMenu(Result, Root))
        /\ (~AtMenu(Result, Root).stopped => VtsLinked(AtMenu(Result, Root)))
    BY <1>2, <2>1, <2>2, AtMenuRegs
  <2> QED BY <1>1, <1>6, <2>3, DueSilent, GoOnRegs DEF PlayPgc
<1> QED BY <1>4, <1>5, <1>6 DEF FinishTry, FinishNextPg, FinishResume

(* The calls. *)
LEMMA ReadyRegs ==
  ASSUME IInv, RegInv, Ready
  PROVE  /\ Runs(vm) /\ vm \in Machine /\ InChain(vm) /\ ~vm.stopped
         /\ RegsFit(vm) /\ VtsLinked(vm) /\ PartCurrent(vm) /\ Alike(vm, vm)
         /\ todo.op \notin Tries /\ Plain.op = "plain" /\ Plain.op \notin Tries
         /\ \A op \in {"plain", "anyway", "block", "last_pg", "try", "next_pg", "resume"} : After(op).op = op
         /\ \A c, b, t, p : /\ [After("block") EXCEPT !.cell = c, !.block = b].op \notin Tries
                            /\ [After("anyway") EXCEPT !.title = t, !.part = p].op \notin Tries
<1>1. link.cmd # "Exit"
  BY DEF Ready, Idle, Due, Link
<1>2. \A c, b, t, p : /\ [After("block") EXCEPT !.cell = c, !.block = b].op \notin Tries
                      /\ [After("anyway") EXCEPT !.title = t, !.part = p].op \notin Tries
  BY DEF After, Plain, Tries
<1> QED BY <1>1, <1>2, ReadyRuns, PlainTodo DEF RegInv, Alike, SameRegs

(* A call begins with registers that fit. *)
LEMMA BeginRegs ==
  ASSUME IInv, RegInv, Ready, NEW w, NEW l, NEW next, GoOn(w, l, next), Alike(vm, w),
         l.cmd # "idle", l.cmd \in PartLinks => PartCurrent(w), next.op \notin Tries
  PROVE  RegInv'
BY ReadyRegs, AlikeFits, GoOnRegs

(* vm_start, vm_reset and vm_stop. *)
LEMMA RestartRegs == ASSUME IInv, RegInv, Start \/ Reset \/ Stop PROVE RegInv'
<1>1. vm \in Machine /\ link = Idle /\ todo = Plain /\ todo.op \notin Tries
  BY PlainTodo DEF Start, Reset, Stop, IInv, TypeOK
<1>2. Idle.cmd \notin PartLinks /\ PlayPgc.cmd \notin PartLinks /\ PlayPgc # Idle /\ Idle.cmd # "Exit"
  BY DEF Idle, PlayPgc, Due, Link, PartLinks
<1>3. ResetVm(vm) \in Machine /\ ResetVm(vm).rsm.vtsN = 0 /\ ResetVm(vm).domain = "fp" /\ ResetVm(vm).vtsN = -1
  BY <1>1, ResetVmEnters
<1>4. RegsFit(vm) /\ (~vm.stopped => VtsLinked(vm))
  BY <1>1, <1>2 DEF RegInv
<1>5. CASE Start
  <2> DEFINE v == IF vm.stopped THEN [ResetVm(vm) EXCEPT !.stopped = FALSE] ELSE vm
  <2>1. vm' = SetFp(v) /\ link' = PlayPgc /\ todo' = todo
    BY <1>5 DEF Start
  <2>2. v \in Machine /\ \/ v.rsm.vtsN = 0 /\ v.vtsN = -1
                         \/ v.rsm = vm.rsm /\ v.vtsN = vm.vtsN /\ v.regs = vm.regs /\ ~vm.stopped
    BY <1>1, <1>3 DEF Machine
  <2> HIDE DEF v
  <2>3. SetFp(v).rsm = v.rsm /\ SetFp(v).domain = "fp" /\ SetFp(v).vtsN = v.vtsN /\ SetFp(v).regs = v.regs
    BY <2>2, SetFpEnters
  <2>4. RegsFit(SetFp(v)) /\ VtsLinked(SetFp(v))
    BY <1>4, <2>2, <2>3 DEF RegsFit, VtsLinked
  <2>5. RegsFit(vm)' /\ VtsLinked(vm)'
    BY <2>1, <2>4 DEF RegsFit, VtsLinked
  <2> QED BY <1>1, <1>2, <2>1, <2>5 DEF RegInv, Ready
<1>6. CASE Reset
  <2>1. vm' = ResetVm(vm) /\ link' = link /\ todo' = todo /\ started' = FALSE
    BY <1>6 DEF Reset
  <2>2. RegsFit(vm)' /\ VtsLinked(vm)'
    BY <1>3, <2>1 DEF RegsFit, VtsLinked
  <2> QED BY <1>1, <1>2, <2>1, <2>2 DEF RegInv, Ready
<1>7. CASE Stop
  <2> DEFINE w == [vm EXCEPT !.stopped = TRUE]
  <2>1. w.stopped /\ w.domain = vm.domain /\ w.vtsN = vm.vtsN /\ w.pgcN = vm.pgcN /\ w.regs = vm.regs
        /\ w.rsm = vm.rsm
    BY <1>1 DEF Machine
  <2>2. vm' = w /\ link' = link /\ todo' = todo
    BY <1>7 DEF Stop
  <2> HIDE DEF w
  <2>3. RegsFit(vm)'
    BY <1>4, <2>1, <2>2 DEF RegsFit
  <2> QED BY <1>1, <1>2, <2>1, <2>2, <2>3 DEF RegInv, Ready
<1> QED BY <1>5, <1>6, <1>7

(* The player reads on. *)
LEMMA ReadOnRegs == ASSUME IInv, RegInv, NEW b \in Blocks, ReadOn(b) PROVE RegInv'
<1>1. /\ Ready /\ vm \in Machine /\ RegsFit(vm) /\ VtsLinked(vm) /\ PartCurrent(vm) /\ todo.op \notin Tries
  BY ReadyRegs DEF ReadOn
<1> DEFINE w == [vm EXCEPT !.blockN = b]
<1>2. Alike(vm, w) /\ PartCurrent(w)
  BY <1>1, SetKeepsRegs
<1>3. vm' = w /\ link' = link /\ todo' = todo
  BY DEF ReadOn
<1> HIDE DEF w
<1>4. RegsFit(w) /\ VtsLinked(w)
  BY <1>1, <1>2, AlikeFits
<1>5. RegsFit(vm)' /\ VtsLinked(vm)' /\ PartCurrent(vm)'
  BY <1>2, <1>3, <1>4 DEF RegsFit, VtsLinked, PartCurrent
<1> QED BY <1>1, <1>3, <1>5 DEF RegInv

(* Calls within the chain and to chains it leads to, ... *)
LEMMA PlayCallsRegs ==
  ASSUME IInv, RegInv, NextCell \/ ExecCmd \/ JumpTopPg \/ JumpPrevPg \/ JumpUp \/ JumpCellBlock
  PROVE  RegInv'
<1>1. Ready
  BY DEF NextCell, ExecCmd, JumpTopPg, JumpPrevPg, JumpUp, JumpCellBlock
<1>2. /\ vm \in Machine /\ InChain(vm) /\ ~vm.stopped /\ RegsFit(vm) /\ VtsLinked(vm) /\ PartCurrent(vm)
      /\ Alike(vm, vm) /\ todo.op \notin Tries /\ Plain.op \notin Tries /\ After("last_pg").op \notin Tries
      /\ \A c, b : [After("block") EXCEPT !.cell = c, !.block = b].op \notin Tries
  BY <1>1, ReadyRegs DEF Tries
<1>3. CASE NextCell
  BY <1>1, <1>2, <1>3, BeginRegs DEF NextCell, Due, Link
<1>4. CASE ExecCmd
  <2>1. PICK l \in Pgc(vm).buttons \ {NoJump} : GoOn(vm, l, Plain)
    BY <1>4 DEF ExecCmd
  <2>2. l.cmd \in Anywhere \cup WhilePlaying
    BY <1>2, <2>1, ChainOf DEF CommandsFit
  <2>3. l.cmd # "idle"
    BY <2>2 DEF Anywhere, WhilePlaying
  <2> QED BY <1>1, <1>2, <2>1, <2>3, BeginRegs
<1>5. CASE JumpTopPg
  BY <1>1, <1>2, <1>5, DueSilent, BeginRegs DEF JumpTopPg
<1>6. CASE GoOn([vm EXCEPT !.pgN = @ - 1], Due("play_PG"), Plain)
  <2>1. Alike(vm, [vm EXCEPT !.pgN = @ - 1])
    BY <1>2 DEF Machine, Alike, SameRegs
  <2> QED BY <1>1, <1>2, <1>6, <2>1, DueSilent, BeginRegs
<1>7. ASSUME NEW n \in Leads(Pgc(vm)), HasPgcn(vm, n), NEW next, next.op \notin Tries,
             GoOn(SetPgcn(vm, n), PlayPgc, next)
      PROVE  RegInv'
  <2>1. vm.domain # "fp" /\ (vm.domain \in {"title", "vtsm"} => vm.vtsi = vm.vtsN)
    BY <1>2, <1>7, LinkedChain DEF Leads
  <2>2. RegsFit(SetPgcn(vm, n)) /\ VtsLinked(SetPgcn(vm, n))
    BY <1>2, <1>7, <2>1, LeadsOn, ChainFits
  <2> QED BY <1>7, <2>2, DueSilent, GoOnRegs DEF PlayPgc
<1>8. CASE JumpCellBlock
  <2>1. PICK c \in 1..Cells(vm), b \in Blocks :
          GoOn([vm EXCEPT !.cellN = c], Due("play_Cell"), [After("block") EXCEPT !.cell = c, !.block = b])
    BY <1>8 DEF JumpCellBlock
  <2> QED BY <1>1, <1>2, <2>1, SetKeepsRegs, DueSilent, BeginRegs
<1>9. CASE JumpPrevPg \/ JumpUp
  <2>1. Pgc(vm).prev \in Leads(Pgc(vm)) /\ Pgc(vm).goup \in Leads(Pgc(vm))
    BY DEF Leads
  <2> QED BY <1>2, <1>6, <1>7, <1>9, <2>1 DEF JumpPrevPg, JumpUp
<1> QED BY <1>3, <1>4, <1>5, <1>8, <1>9

(* ... calls for a part or a program of a title, ... *)
LEMMA TitleCallsRegs ==
  ASSUME IInv, RegInv,
         \/ \E title, part : JumpTitlePart(title, part)
         \/ \E p \in Programs : JumpTitleProgram(p[1], p[2], p[3])
  PROVE  RegInv'
<1>1. Ready
  BY DEF JumpTitlePart, JumpTitleProgram
<1>2. /\ vm \in Machine /\ RegsFit(vm) /\ VtsLinked(vm) /\ After("anyway").op \notin Tries
      /\ \A t, p : [After("anyway") EXCEPT !.title = t, !.part = p].op \notin Tries
  BY <1>1, ReadyRegs DEF Tries
<1>3. ASSUME NEW title, NEW part, JumpTitlePart(title, part) PROVE RegInv'
  <2> DEFINE w == SetVtsPtt(vm, Titles[title].vts, Titles[title].ttn, part)
  <2>1. HasPart(Titles[title].vts, Titles[title].ttn, part)
    BY <1>3 DEF JumpTitlePart
  <2>2. GoOn(w, Due("play_PGC_PG"), [After("anyway") EXCEPT !.title = title, !.part = part])
    BY <1>3 DEF JumpTitlePart
  <2>3. RegsFit(w) /\ VtsLinked(w)
    BY <1>2, <2>1, PartFitsRegs
  <2> HIDE DEF w
  <2> QED BY <1>2, <2>2, <2>3, DueSilent, GoOnRegs
<1>4. ASSUME NEW p \in Programs, JumpTitleProgram(p[1], p[2], p[3]) PROVE RegInv'
  <2> DEFINE t == Titles[p[1]]
             w == SetVtsProg(vm, t.vts, t.ttn, p[2], p[3])
  <2>1. /\ w.domain = "title" /\ w.vtsN = t.vts /\ w.pgcN = p[2] /\ w.rsm = vm.rsm
        /\ w.regs.ttn = TT(t.vts, t.ttn) /\ w.regs.vts_ttn = t.ttn /\ w.regs.tt_pgcn = p[2]
    BY <1>2, SetVtsProgEnters
  <2>2. GoOn(w, Due("play_PGC_PG"), After("anyway"))
    BY <1>4 DEF JumpTitleProgram
  <2> HIDE DEF w
  <2>3. Pgcit[<<"title", t.vts>>][p[2]].id = t.ttn
    BY TitleAssumption
  <2>4. RegsFit(w) /\ VtsLinked(w)
    BY <1>2, <2>1, <2>3 DEF RegsFit, VtsLinked, TitleRegs, Linked
  <2> QED BY <1>2, <2>2, <2>4, DueSilent, GoOnRegs
<1> QED BY <1>3, <1>4

(* ... and calls that try on a copy. *)
LEMMA TryCallsRegs ==
  ASSUME IInv, RegInv, JumpNextPg \/ \E menu \in {Escape, Root, Title} : MenuCall(menu)
  PROVE  RegInv'
<1>1. Ready
  BY DEF JumpNextPg, MenuCall
<1>2. /\ Runs(vm) /\ ~vm.stopped /\ RegsFit(vm) /\ VtsLinked(vm) /\ PartCurrent(vm)
      /\ \A op \in Tries : After(op).op = op
  BY <1>1, ReadyRegs DEF Tries
<1> DEFINE v == Copy(vm)
<1>3. Runs(v) /\ RegsFit(v) /\ VtsLinked(v) /\ v \in Machine /\ v.vtsi \in {0, v.vtsN} /\ InChain(v)
  BY <1>2, CopyRegs, CopyPlays DEF Runs
<1>4. ASSUME NEW w, NEW l, NEW op \in Tries, BeginCopy(w, l, After(op)), RegsFit(w), VtsLinked(w),
             l.cmd # "idle", l.cmd \notin PartLinks
      PROVE  RegInv'
  <2>1. vm' = w /\ link' = l /\ todo' = After(op) /\ orig' = vm
    BY <1>4 DEF BeginCopy
  <2>2. link' # Idle
    BY <1>4, <2>1 DEF Idle, Due, Link
  <2>3. /\ RegsFit(vm)' /\ VtsLinked(vm)'
        /\ RegsFit(orig)' /\ VtsLinked(orig)' /\ PartCurrent(orig)'
    BY <1>2, <1>4, <2>1 DEF RegsFit, VtsLinked, PartCurrent
  <2> QED BY <1>4, <2>1, <2>2, <2>3 DEF RegInv, Ready
<1>5. CASE JumpNextPg
  <2>1. \/ BeginCopy(v, Due("play_PGC_post"), After("next_pg"))
        \/ BeginCopy([v EXCEPT !.pgN = @ + 1], Due("play_PG"), After("next_pg"))
    BY <1>5 DEF JumpNextPg
  <2> HIDE DEF v
  <2>2. Alike(v, [v EXCEPT !.pgN = @ + 1])
    BY <1>3 DEF Machine, Alike, SameRegs
  <2>3. RegsFit([v EXCEPT !.pgN = @ + 1]) /\ VtsLinked([v EXCEPT !.pgN = @ + 1])
    BY <1>3, <2>2, AlikeFits
  <2> QED BY <1>3, <1>4, <2>1, <2>3, DueSilent DEF Tries
<1>6. CASE \E menu \in {Escape, Root, Title} : MenuCall(menu)
  <2>1. PICK menu \in {Root, Title} : \/ BeginCopy(v, Due("LinkRSM"), After("resume"))
                                      \/ HasMenu(v, menu) /\ BeginCopy(AtMenu(v, menu), PlayPgc, After("try"))
    BY <1>6 DEF MenuCall
  <2> HIDE DEF v
  <2>2. CASE BeginCopy(v, Due("LinkRSM"), After("resume"))
    BY <1>3, <1>4, <2>2 DEF Due, Link, PartLinks, Tries
  <2>3. CASE HasMenu(v, menu) /\ BeginCopy(AtMenu(v, menu), PlayPgc, After("try"))
    <3>1. RegsFit(AtMenu(v, menu)) /\ VtsLinked(AtMenu(v, menu))
      BY <1>3, <2>3, AtMenuRegs
    <3> QED BY <1>4, <2>3, <3>1, DueSilent DEF PlayPgc, Tries
  <2> QED BY <2>1, <2>2, <2>3
<1> QED BY <1>5, <1>6

(* The invariant about the registers is inductive, next to IInv. *)
LEMMA InitRegs == ASSUME Init PROVE RegInv
<1>1. vm.rsm.vtsN = 0 /\ vm.vtsN = -1 /\ link = Idle /\ todo = Plain /\ started = FALSE /\ vm.domain = "fp"
  BY DEF Init
<1>2. RegsFit(vm) /\ VtsLinked(vm)
  BY <1>1 DEF RegsFit, VtsLinked
<1> QED BY <1>1, <1>2, PlainTodo DEF RegInv, Ready, Idle, Due, Link, PartLinks

(* Every step keeps the registers in agreement. *)
LEMMA StepRegs == ASSUME IInv, RegInv, [Next]_vars PROVE RegInv'
<1>1. CASE PlayPGC \/ PlayPGCPost \/ PlayPG \/ PlayCell \/ PlayCellPost
  BY <1>1, PlayPGCRegs, PlayPGCPostRegs, PlayPGRegs, PlayCellRegs, PlayCellPostRegs
<1>2. CASE LinkC \/ LinkPG \/ LinkTopPGC \/ LinkPGC \/ LinkTailPGC \/ LinkRSM
  BY <1>2, ChainLinkRegs, OtherChainRegs, LinkRSMRegs
<1>3. CASE LinkPGCN \/ LinkPGN \/ LinkCN \/ LinkPTTN \/ JumpTT \/ JumpVTS_TT \/ JumpVTS_PTT
  BY <1>3, ChainLinkRegs, OtherChainRegs, PartLinkRegs
<1>4. CASE JumpSS_FP \/ JumpSS_VMGM_MENU \/ JumpSS_VMGM_PGC \/ JumpSS_VTSM
  BY <1>4, JumpSSRegs
<1>5. CASE CallSS_FP \/ CallSS_VMGM_MENU \/ CallSS_VMGM_PGC \/ CallSS_VTSM
  BY <1>5, CallSSRegs
<1>6. CASE Finish \/ FinishBlock \/ FinishPrevPgc \/ PlayAnyway \/ FinishTry \/ FinishNextPg \/ FinishResume
  BY <1>6, FinishRegs, FinishTryRegs
<1>7. CASE Calls
  BY <1>7, RestartRegs, ReadOnRegs, PlayCallsRegs, TitleCallsRegs, TryCallsRegs DEF Calls
<1>8. CASE UNCHANGED vars
  BY <1>8 DEF vars, RegInv, RegsFit, VtsLinked, PartCurrent, Ready
<1> QED BY <1>1, <1>2, <1>3, <1>4, <1>5, <1>6, <1>7, <1>8 DEF Next, Steps

(* vm_get_current_title_part: the first part found, or none where none is. *)
LEMMA PartFound ==
  ASSUME NEW v, v.vtsi \in Vts
  PROVE  \/ /\ CurrentPart(v) = [title |-> 0, part |-> 0]
            /\ \A t \in DOMAIN Ptts[v.vtsi] : \A p \in DOMAIN Ptts[v.vtsi][t] : ~Finds(v, t, p)
         \/ \E t \in DOMAIN Ptts[v.vtsi] : \E p \in DOMAIN Ptts[v.vtsi][t] :
              /\ Finds(v, t, p) /\ \A i \in DOMAIN Ptts[v.vtsi][t] : Finds(v, t, i) => p <= i
              /\ CurrentPart(v) = [title |-> TT(v.vtsN, t), part |-> IF Begins(v, t, p) THEN p ELSE p - 1]
              /\ p \in Nat \ {0}
<1> DEFINE parts(s) == {i \in DOMAIN Ptts[v.vtsi][s] : Finds(v, s, i)}
           T == {s \in DOMAIN Ptts[v.vtsi] : parts(s) # {}}
           f == First(T)
           g == First(parts(f))
<1>1. Ptts[v.vtsi] \in Seq(Seq([pgcn : Nat, pgn : Nat]))
  BY TableAssumption
<1>2. T \in SUBSET Nat /\ 0 \notin T
  BY <1>1, ElementOf
<1>3. CASE f = 0
  <2>1. T = {}
    BY <1>2, <1>3, FirstIsLeast
  <2>2. CurrentPart(v) = [title |-> 0, part |-> 0]
    BY <1>3 DEF CurrentPart
  <2> QED BY <2>1, <2>2
<1>4. CASE f # 0
  <2>1. f \in DOMAIN Ptts[v.vtsi] /\ parts(f) # {}
    BY <1>2, <1>4, FirstIsLeast
  <2>2. CurrentPart(v) = [title |-> TT(v.vtsN, f), part |-> IF Begins(v, f, g) THEN g ELSE g - 1]
    BY <1>4 DEF CurrentPart
  <2> HIDE DEF f, T
  <2>3. Ptts[v.vtsi][f] \in Seq([pgcn : Nat, pgn : Nat])
    BY <1>1, <2>1, ElementOf
  <2>4. parts(f) \in SUBSET (Nat \ {0})
    BY <2>3, ElementOf
  <2>5. g \in parts(f) /\ \A i \in parts(f) : g <= i
    BY <2>1, <2>4, FirstIsLeast
  <2> HIDE DEF g
  <2>6. g \in Nat \ {0} /\ g \in DOMAIN Ptts[v.vtsi][f] /\ Finds(v, f, g)
    BY <2>4, <2>5
  <2> QED BY <2>1, <2>2, <2>5, <2>6
<1> QED BY <1>3, <1>4

(* The parts of a title that begin in one chain are in order, and a chain  *)
(* belongs to one title.                                                   *)
LEMMA PartsOfTitle ==
  ASSUME NEW vts, NEW t, NEW p, HasPart(vts, t, p)
  PROVE  /\ Pgcit[<<"title", vts>>][Ptts[vts][t][p].pgcn].id = t
         /\ Ptts[vts][t][p].pgn \in Nat \ {0} /\ t \in Nat \ {0} /\ p \in Nat \ {0}
         /\ PartInOrder(Ptts[vts][t], p) /\ (p > 1 => p - 1 \in DOMAIN Ptts[vts][t])
<1>1. HasPart(vts, t, p) /\ vts \in Vts /\ t \in DOMAIN Ptts[vts] /\ p \in DOMAIN Ptts[vts][t]
  BY DEF HasPart, Vts
<1>2. /\ Ptts[vts][t][p].pgn \in Nat \ {0} /\ t \in Nat \ {0} /\ p \in Nat \ {0}
  <2>1. Len(Pgcit[<<"title", vts>>][Ptts[vts][t][p].pgcn].map) \in Nat
    BY <1>1, PartInTable, ChainOfTable, ChainFields
  <2> QED BY <1>1, <2>1, PartInTable
<1>3. Pgcit[<<"title", vts>>][Ptts[vts][t][p].pgcn].id = t /\ PartInOrder(Ptts[vts][t], p)
  BY <1>1, TitleAssumption
<1>4. p > 1 => p - 1 \in DOMAIN Ptts[vts][t]
  <2>1. Ptts[vts] \in Seq(Seq([pgcn : Nat, pgn : Nat]))
    BY <1>1, TableAssumption
  <2>2. Ptts[vts][t] \in Seq([pgcn : Nat, pgn : Nat])
    BY <1>1, <2>1, ElementOf
  <2>3. p \in 1..Len(Ptts[vts][t]) /\ DOMAIN Ptts[vts][t] = 1..Len(Ptts[vts][t]) /\ Len(Ptts[vts][t]) \in Nat
    BY <1>1, <2>2
  <2> QED BY <1>2, <2>3
<1> QED BY <1>2, <1>3, <1>4

(* There is no part exactly behind the last one of the chain. *)
LEMMA NoPart ==
  ASSUME NEW v \in Machine, InChain(v), v.domain = "title", v.pgN > 0
  PROVE  CurrentPart(v).part = 0 <=> BehindLastPart(v)
<1>1. v.vtsi = v.vtsN /\ v.vtsi \in Vts /\ GetPgcn(v) = v.pgcN /\ v.pgN \in Nat
  BY ChainOf, MachineFields
<1>2. ASSUME NEW t \in DOMAIN Ptts[v.vtsi], NEW p \in DOMAIN Ptts[v.vtsi][t]
      PROVE  /\ Ptt(v, t, p).pgn \in Nat \ {0} /\ p \in Nat \ {0}
             /\ Ptt(v, t, p).pgn # 1 => /\ p > 1 /\ p - 1 \in DOMAIN Ptts[v.vtsi][t]
                                        /\ Ptt(v, t, p - 1).pgcn = Ptt(v, t, p).pgcn
  <2>0. HasPart(v.vtsi, t, p)
    BY <1>1, <1>2 DEF HasPart, Vts
  <2>1. /\ Ptts[v.vtsi][t][p].pgn \in Nat \ {0} /\ p \in Nat \ {0}
        /\ Ptts[v.vtsi][t][p].pgn # 1 =>
              /\ p > 1 /\ p - 1 \in DOMAIN Ptts[v.vtsi][t]
              /\ Ptts[v.vtsi][t][p - 1].pgcn = Ptts[v.vtsi][t][p].pgcn
    <3>1. Ptts[v.vtsi][t][p].pgn \in Nat \ {0} /\ p \in Nat \ {0}
      BY <2>0, PartsOfTitle
    <3>2. Ptts[v.vtsi][t][p].pgn # 1 =>
              /\ p > 1 /\ p - 1 \in DOMAIN Ptts[v.vtsi][t]
              /\ Ptts[v.vtsi][t][p - 1].pgcn = Ptts[v.vtsi][t][p].pgcn
      <4>1. PartInOrder(Ptts[v.vtsi][t], p) /\ (p > 1 => p - 1 \in DOMAIN Ptts[v.vtsi][t])
        BY <2>0, PartsOfTitle
      <4> QED BY <4>1, <3>1 DEF PartInOrder
    <3> QED BY <3>1, <3>2
  <2> QED BY <2>1 DEF Ptt
<1>3. ASSUME BehindLastPart(v),
             NEW t \in DOMAIN Ptts[v.vtsi], NEW p \in DOMAIN Ptts[v.vtsi][t]
      PROVE  ~Finds(v, t, p)
  <2>1. Ptt(v, t, p).pgcn = v.pgcN => Ptt(v, t, p).pgn < v.pgN
    BY <1>1, <1>3 DEF BehindLastPart
  <2> QED BY <1>1, <1>2, <2>1 DEF Finds, Begins, Between
<1>4. ASSUME ~BehindLastPart(v)
      PROVE  \E t \in DOMAIN Ptts[v.vtsi] : \E p \in DOMAIN Ptts[v.vtsi][t] : Finds(v, t, p)
  <2>1. PICK t \in DOMAIN Ptts[v.vtsi] : \E q \in DOMAIN Ptts[v.vtsi][t] :
          Ptt(v, t, q).pgcn = v.pgcN /\ ~(Ptt(v, t, q).pgn < v.pgN)
    BY <1>1, <1>4 DEF BehindLastPart
  <2>0. PICK q \in DOMAIN Ptts[v.vtsi][t] : Ptt(v, t, q).pgcn = v.pgcN /\ ~(Ptt(v, t, q).pgn < v.pgN)
    BY <2>1
  <2> DEFINE S == {p \in DOMAIN Ptts[v.vtsi][t] : Ptt(v, t, p).pgcn = v.pgcN /\ ~(Ptt(v, t, p).pgn < v.pgN)}
  <2>2. S \in SUBSET Nat /\ q \in S
    BY <1>2, <2>0
  <2>3. PICK p \in S : \A i \in S : p <= i
    BY <2>2, LeastNatural
  <2>4. p \in DOMAIN Ptts[v.vtsi][t] /\ Ptt(v, t, p).pgcn = v.pgcN /\ ~(Ptt(v, t, p).pgn < v.pgN)
    BY <2>3
  <2>5. p > 1 /\ p - 1 \in DOMAIN Ptts[v.vtsi][t] /\ Ptt(v, t, p - 1).pgcn = v.pgcN => Ptt(v, t, p - 1).pgn < v.pgN
    <3>1. p > 1 => ~(p <= p - 1)
      BY <1>2, <2>4
    <3> QED BY <2>3, <3>1
  <2>6. Finds(v, t, p)
    BY <1>1, <1>2, <2>4, <2>5 DEF Finds, Begins, Between
  <2> QED BY <2>4, <2>6
<1>5. CASE BehindLastPart(v)
  BY <1>1, <1>3, <1>5, PartFound
<1>6. CASE ~BehindLastPart(v)
  <2>1. PICK t \in DOMAIN Ptts[v.vtsi] : \E p \in DOMAIN Ptts[v.vtsi][t] :
              /\ Finds(v, t, p) /\ p \in Nat \ {0}
              /\ CurrentPart(v) = [title |-> TT(v.vtsN, t), part |-> IF Begins(v, t, p) THEN p ELSE p - 1]
    BY <1>1, <1>4, <1>6, PartFound
  <2>2. PICK p \in DOMAIN Ptts[v.vtsi][t] :
              /\ Finds(v, t, p) /\ p \in Nat \ {0}
              /\ CurrentPart(v).part = IF Begins(v, t, p) THEN p ELSE p - 1
    BY <2>1
  <2>3. CurrentPart(v).part # 0
    BY <2>2 DEF Finds, Between
  <2> QED BY <1>6, <2>3
<1> QED BY <1>5, <1>6

(* The title reported is TTN_REG, or none. *)
LEMMA TitleReported ==
  ASSUME NEW v \in Machine, InChain(v), v.domain = "title", RegsFit(v)
  PROVE  CurrentPart(v).title \in {0, v.regs.ttn}
<1>1. v.vtsi = v.vtsN /\ v.vtsi \in Vts /\ GetPgcn(v) = v.pgcN
  BY ChainOf
<1>2. TitleRegs(v.regs, v.vtsN, v.pgcN)
  BY DEF RegsFit
<1>3. ASSUME NEW t \in DOMAIN Ptts[v.vtsi], NEW p \in DOMAIN Ptts[v.vtsi][t], Finds(v, t, p)
      PROVE  TT(v.vtsN, t) = v.regs.ttn
  <2>0. HasPart(v.vtsN, t, p)
    BY <1>1, <1>3 DEF HasPart, Vts
  <2>1. Ptts[v.vtsN][t][p].pgcn = v.pgcN
    BY <1>1, <1>3 DEF Finds, Ptt
  <2>2. Pgcit[<<"title", v.vtsN>>][v.pgcN].id = t
    BY <1>1, <1>3, <2>0, <2>1, PartsOfTitle
  <2> QED BY <1>2, <2>2 DEF TitleRegs, Linked
<1> QED BY <1>1, <1>3, PartFound

(* SPRM 4 to 8 agree with what plays, and so do those kept for resuming:   *)
(* "TTN_REG (SPRM4), VTS_TTN_REG (SPRM5), TT_PGCN_REG (SPRM6) are linked,  *)
(* so if one changes, the others must change to match it."  PTTN_REG is    *)
(* the part that set_PGN works out, which is none exactly where the chain  *)
(* has no part at or behind the program.                                   *)
THEOREM RegistersFit == Spec => []RegistersAgree
<1>1. Init => IInv /\ RegInv
  BY InitHolds, InitRegs
<1>2. IInv /\ RegInv /\ [Next]_vars => (IInv /\ RegInv)'
  BY StepKeeps, StepRegs
<1>3. ASSUME IInv, RegInv PROVE RegistersAgree
  <2>1. vm.rsm.vtsN > 0 => Linked(vm.rsm.regs, vm.rsm.vtsN) /\ vm.rsm.regs.tt_pgcn = vm.rsm.pgcN
    BY <1>3 DEF RegInv, RegsFit, TitleRegs
  <2>2. ASSUME Ready PROVE vm.vtsN > 0 => Linked(vm.regs, vm.vtsN)
    BY <1>3, <2>2, ReadyRegs DEF VtsLinked
  <2>3. ASSUME Ready, vm.domain = "title"
        PROVE  /\ vm.regs.tt_pgcn = vm.pgcN
               /\ vm.regs.pttn = CurrentPart(vm).part
               /\ CurrentPart(vm).title \in {0, vm.regs.ttn}
               /\ CurrentPart(vm).part = 0 <=> BehindLastPart(vm)
    <3>1. /\ vm \in Machine /\ InChain(vm) /\ RegsFit(vm) /\ PartCurrent(vm) /\ vm.pgN > 0
      BY <1>3, <2>3, ReadyRegs, ReadyRuns
    <3>2. CurrentPart(vm).part = 0 <=> BehindLastPart(vm)
      BY <2>3, <3>1, NoPart
    <3>3. CurrentPart(vm).title \in {0, vm.regs.ttn}
      BY <2>3, <3>1, TitleReported
    <3> QED BY <2>3, <3>1, <3>2, <3>3 DEF RegsFit, TitleRegs, PartCurrent
  <2> QED BY <2>1, <2>2, <2>3 DEF RegistersAgree
<1> QED BY <1>1, <1>2, <1>3, PTL DEF Spec

-----------------------------------------------------------------------------
(* Parts asked for *)

(* The cell of an angle that plays where a program begins is of it.        *)
LEMMA AngleInProgram ==
  ASSUME NEW v \in Machine, InChain(v), v.pgN \in 1..NrOfPrograms(v), v.cellN = Pgc(v).map[v.pgN],
         NEW agl \in Angles
  PROVE  ProgramOf(Angled(v, agl)) = v.pgN /\ v.cellN \in 1..Cells(v)
<1> DEFINE p == Pgc(v)
           w == Angled(v, agl)
           N == ProgramOf(w)
<1>1. p \in ChainType /\ ProgramsFit(p) /\ NrOfPrograms(v) = Len(p.map) /\ Cells(v) = Len(p.cells)
  BY ChainOf DEF NrOfPrograms, Cells
<1>2. p.map \in Seq(Nat) /\ DOMAIN p.map = 1..Len(p.map) /\ Len(p.map) \in Nat
      /\ DOMAIN p.cells = 1..Len(p.cells) /\ Len(p.cells) \in Nat
  BY <1>1 DEF ChainType
<1>3. /\ \A i, j \in DOMAIN p.map : i < j => p.map[i] < p.map[j]
      /\ \A i \in DOMAIN p.map : LET c == p.map[i] + agl - 1 IN
           /\ p.cells[p.map[i]].block = "first"
           /\ c \in DOMAIN p.cells /\ p.cells[c].block # "normal"
           => \A j \in DOMAIN p.map : p.map[j] <= c => j <= i
  <2>1. v.pgc[1] \in DOMAIN Pgcit /\ v.pgc[2] \in DOMAIN Pgcit[v.pgc[1]] /\ p = Pgcit[v.pgc[1]][v.pgc[2]]
    BY ChainOf DEF Pgc
  <2> HIDE DEF p
  <2> QED BY <2>1, ProgramAssumption
<1>4. v.cellN \in DOMAIN p.cells
  BY <1>1, <1>2 DEF ProgramsFit
<1>5. v.cellN \in 1..Cells(v)
  BY <1>1, <1>2, <1>4
<1>6. Moved(v, w) /\ Pgc(w) = p /\ InChain(w) /\ NrOfPrograms(w) = NrOfPrograms(v) /\ w \in Machine
  BY <1>5, AngledMoves, MovedKeeps DEF Moved
<1>7. agl \in Nat \ {0} /\ \A i \in DOMAIN p.map : p.map[i] \in Nat
  <2>1. agl \in Nat \ {0}
    BY BlockAssumption
  <2>2. \A i \in DOMAIN p.map : p.map[i] \in Nat
    BY <1>2, ElementOf
  <2> QED BY <2>1, <2>2
<1>8. /\ w.cellN \in Nat /\ w.cellN >= v.cellN
      /\ \A j \in DOMAIN p.map : p.map[j] <= w.cellN => j <= v.pgN
  <2>1. CASE w = v
    <3>1. \A j \in DOMAIN p.map : j > v.pgN => p.map[j] > v.cellN
      BY <1>1, <1>2, <1>3
    <3>2. w.cellN = v.cellN /\ v.cellN \in Nat
      BY <1>1, <1>5, <2>1
    <3> HIDE DEF w, p
    <3>3. \A j \in DOMAIN p.map : p.map[j] <= v.cellN => j <= v.pgN
      <4>1. v.pgN \in Nat /\ \A j \in DOMAIN p.map : j \in Nat /\ p.map[j] \in Nat
        BY <1>1, <1>2, <1>7
      <4> HIDE <1>7, <1>2, <1>1
      <4> QED BY <3>1, <3>2, <4>1
    <3> QED BY <3>2, <3>3
  <2>2. CASE w # v
    <3> DEFINE c == v.cellN + agl - 1
    <3>1. p.cells[v.cellN].block = "first" /\ c <= Cells(v) /\ p.cells[c].block # "normal"
          /\ w = [v EXCEPT !.cellN = c]
      BY <2>2 DEF Angled
    <3>2. w.cellN = c
      BY <3>1 DEF Machine
    <3>3. c \in Nat /\ c >= v.cellN /\ c \in DOMAIN p.cells
      <4>1. v.cellN \in Nat /\ v.cellN >= 1 /\ agl \in Nat /\ agl >= 1
        BY <1>2, <1>4, <1>7
      <4>2. c \in Nat /\ c >= v.cellN /\ c >= 1 /\ c <= Len(p.cells)
        BY <1>1, <3>1, <4>1
      <4> HIDE DEF c, p
      <4> QED BY <1>2, <4>2
    <3>4. \A j \in DOMAIN p.map : p.map[j] <= c => j <= v.pgN
      BY <1>1, <1>2, <1>3, <3>1, <3>3
    <3> QED BY <3>2, <3>3, <3>4
  <2> QED BY <2>1, <2>2
<1> HIDE DEF w
<1>9. /\ N \in 0..Len(p.map)
      /\ \A i \in 1..N : w.cellN >= p.map[i]
      /\ N < Len(p.map) => w.cellN < p.map[N + 1]
  BY <1>1, <1>6, ProgramOfCell
<1> HIDE DEF p, N
<1>10. N <= v.pgN
  <2>1. CASE N = 0
    BY <1>1, <1>2, <2>1
  <2>2. CASE N # 0
    <3>1. N \in 1..N /\ N \in DOMAIN p.map
      BY <1>2, <1>9, <2>2
    <3>2. p.map[N] <= w.cellN
      BY <1>7, <1>8, <1>9, <3>1
    <3> QED BY <1>8, <3>1, <3>2
  <2> QED BY <2>1, <2>2
<1>11. N >= v.pgN
  <2>1. SUFFICES ASSUME N < v.pgN PROVE FALSE
    BY <1>1, <1>2, <1>9
  <2>2. N + 1 \in DOMAIN p.map /\ v.pgN \in DOMAIN p.map /\ (N + 1 = v.pgN \/ N + 1 < v.pgN) /\ N < Len(p.map)
    BY <1>1, <1>2, <1>9, <2>1
  <2>3. p.map[N + 1] <= p.map[v.pgN]
    BY <1>3, <1>7, <2>2
  <2> QED BY <1>7, <1>8, <1>9, <2>2, <2>3 DEF p
<1>12. N = v.pgN
  BY <1>1, <1>2, <1>9, <1>10, <1>11
<1> QED BY <1>5, <1>12 DEF N, w

(* The chain a part begins in carries the number of its title. *)
LEMMA TitleOfPart ==
  ASSUME NEW vts, NEW t, NEW p, HasPart(vts, t, p)
  PROVE  Pgcit[<<"title", vts>>][Ptts[vts][t][p].pgcn].id = t
BY PartsOfTitle

(* Where a part begins, it is the current part. *)
LEMMA PartBegins ==
  ASSUME NEW v \in Machine, InChain(v), v.domain = "title", NEW ttn, NEW part, HasPart(v.vtsN, ttn, part),
         v.pgcN = Ptts[v.vtsN][ttn][part].pgcn, v.pgN = Ptts[v.vtsN][ttn][part].pgn
  PROVE  CurrentPart(v).part = part
<1>1. v.vtsi = v.vtsN /\ v.vtsi \in Vts /\ GetPgcn(v) = v.pgcN
  BY ChainOf
<1>2. ttn \in DOMAIN Ptts[v.vtsi] /\ part \in DOMAIN Ptts[v.vtsi][ttn] /\ part \in Nat \ {0}
  BY <1>1, PartsOfTitle DEF HasPart
<1>3. Finds(v, ttn, part) /\ Begins(v, ttn, part)
  BY <1>1 DEF Finds, Begins, Ptt
<1>4. PICK t \in DOMAIN Ptts[v.vtsi] : \E p \in DOMAIN Ptts[v.vtsi][t] :
        /\ Finds(v, t, p) /\ \A i \in DOMAIN Ptts[v.vtsi][t] : Finds(v, t, i) => p <= i
        /\ CurrentPart(v) = [title |-> TT(v.vtsN, t), part |-> IF Begins(v, t, p) THEN p ELSE p - 1]
        /\ p \in Nat \ {0}
  BY <1>1, <1>2, <1>3, PartFound
<1>5. PICK p \in DOMAIN Ptts[v.vtsi][t] :
        /\ Finds(v, t, p) /\ \A i \in DOMAIN Ptts[v.vtsi][t] : Finds(v, t, i) => p <= i
        /\ CurrentPart(v).part = IF Begins(v, t, p) THEN p ELSE p - 1
        /\ p \in Nat \ {0}
  BY <1>4
<1>6. HasPart(v.vtsN, t, p) /\ Ptts[v.vtsN][t][p].pgcn = v.pgcN
  BY <1>1, <1>4, <1>5 DEF HasPart, Vts, Finds, Ptt
<1>7. t = ttn
  <2>1. Pgcit[<<"title", v.vtsN>>][Ptts[v.vtsN][t][p].pgcn].id = t
    BY <1>6, TitleOfPart
  <2>2. Pgcit[<<"title", v.vtsN>>][Ptts[v.vtsN][ttn][part].pgcn].id = ttn
    BY TitleOfPart
  <2> QED BY <1>6, <2>1, <2>2
<1>8. p <= part
  BY <1>2, <1>3, <1>5, <1>7
<1>9. p = part
  <2>1. SUFFICES ASSUME p < part PROVE FALSE
    BY <1>2, <1>5, <1>8
  <2>2. PartInOrder(Ptts[v.vtsN][ttn], part)
    BY PartsOfTitle
  <2>3. p \in 1..(part - 1)
    BY <1>2, <1>5, <2>1
  <2>4. Ptts[v.vtsN][ttn][p].pgn < v.pgN
    BY <1>6, <1>7, <2>2, <2>3 DEF PartInOrder
  <2>5. Ptts[v.vtsN][ttn][p].pgn = v.pgN \/ Ptts[v.vtsN][ttn][p].pgn > v.pgN
    BY <1>1, <1>5, <1>7 DEF Finds, Begins, Between, Ptt
  <2>6. Ptts[v.vtsN][ttn][p].pgn \in Nat
    <3>1. HasPart(v.vtsN, ttn, p)
      BY <1>6, <1>7
    <3> QED BY <3>1, PartsOfTitle
  <2>7. v.pgN \in Nat
    BY MachineFields
  <2> QED BY <2>4, <2>5, <2>6, <2>7
<1> QED BY <1>3, <1>5, <1>7, <1>9

(* What todo asks for is what it asked for, nothing, or a part just asked  *)
(* for.                                                                    *)
SameTodo == todo'.title = 0 \/ (todo'.title = todo.title /\ todo'.part = todo.part)

(* Functions but vm_jump_title_part ask for no part. *)
LEMMA NothingAsked == Plain.title = 0 /\ \A op : After(op).title = 0
BY DEF Plain, After

(* Steps of process_command leave what was asked for, ... *)
LEMMA ThenSameTodo == ASSUME NEW w, NEW l, Then(w, l) PROVE SameTodo
BY DEF Then, SameTodo

(* ... functions that go on drop it, ... *)
LEMMA GoOnSameTodo == ASSUME NEW w, NEW l, NEW next, GoOn(w, l, next), next.title = 0 PROVE SameTodo
BY DEF GoOn, SameTodo

(* ... and so do calls that return. *)
LEMMA ReturnSameTodo == ASSUME Discard \/ \E w : Return(w) PROVE SameTodo
BY NothingAsked DEF Discard, Return, SameTodo

(* So no step of process_command asks for a part, ... *)
LEMMA StepAsksNothing == ASSUME IInv, Steps PROVE SameTodo
<1>1. CASE PlayPGC \/ PlayPGCPost \/ PlayPG \/ PlayCell \/ PlayCellPost
  BY <1>1, ThenSameTodo DEF PlayPGC, PlayPGCPost, PlayPG, PlayCell, PlayCellPost, ToChain
<1>2. CASE LinkC \/ LinkPG \/ LinkTopPGC \/ LinkPGC \/ LinkTailPGC
  BY <1>2, ThenSameTodo DEF LinkC, LinkPG, LinkTopPGC, LinkPGC, LinkTailPGC, ToChain
<1>3. CASE LinkRSM \/ LinkPGCN \/ LinkPGN \/ LinkCN
  BY <1>3, ThenSameTodo DEF LinkRSM, LinkPGCN, LinkPGN, LinkCN, ToChain, MustChain
<1>4. CASE LinkPTTN \/ JumpTT \/ JumpVTS_TT \/ JumpVTS_PTT
  BY <1>4, ThenSameTodo DEF LinkPTTN, JumpTT, JumpVTS_TT, JumpVTS_PTT, ToPart
<1>5. CASE JumpSS_FP \/ JumpSS_VMGM_MENU \/ JumpSS_VMGM_PGC \/ JumpSS_VTSM
  BY <1>5, ThenSameTodo DEF JumpSS_FP, JumpSS_VMGM_MENU, JumpSS_VMGM_PGC, JumpSS_VTSM,
                            ToMenu, ToMenuPgc, MustChain, NoMenus
<1>6. CASE CallSS_FP \/ CallSS_VMGM_MENU \/ CallSS_VMGM_PGC \/ CallSS_VTSM
  BY <1>6, ThenSameTodo DEF CallSS_FP, CallSS_VMGM_MENU, CallSS_VMGM_PGC, CallSS_VTSM,
                            ToMenu, ToMenuPgc, MustChain, NoMenus
<1>7. CASE Finish \/ FinishBlock \/ FinishPrevPgc
  BY <1>7, ReturnSameTodo, GoOnSameTodo, NothingAsked DEF Finish, FinishBlock, FinishPrevPgc
<1>8. CASE PlayAnyway
  <2> DEFINE next == [todo EXCEPT !.op = "plain"]
  <2>1. CASE Return(Result)
    BY <2>1, ReturnSameTodo
  <2>2. CASE GoOn(vm, Due("play_PG"), next)
    <3>1. next.title = todo.title /\ next.part = todo.part
      BY DEF IInv, TypeOK
    <3>2. todo' = next
      BY <2>2 DEF GoOn
    <3> HIDE DEF next
    <3> QED BY <3>1, <3>2 DEF SameTodo
  <2> QED BY <1>8, <2>1, <2>2 DEF PlayAnyway
<1>9. CASE FinishTry \/ FinishNextPg \/ FinishResume
  BY <1>9, ReturnSameTodo, GoOnSameTodo, NothingAsked DEF FinishTry, FinishNextPg, FinishResume
<1> QED BY <1>1, <1>2, <1>3, <1>4, <1>5, <1>6, <1>7, <1>8, <1>9 DEF Steps

AsksPart ==
  \E title \in DOMAIN Titles :
    \E part \in DOMAIN Ptts[Titles[title].vts][Titles[title].ttn] : JumpTitlePart(title, part)

(* ... and of the calls vm_jump_title_part alone does. *)
LEMMA CallAsks == ASSUME Calls PROVE SameTodo \/ AsksPart
<1>1. CASE Start \/ Reset \/ Stop \/ \E b \in Blocks : ReadOn(b)
  BY <1>1 DEF Start, Reset, Stop, ReadOn, SameTodo
<1>2. CASE NextCell \/ ExecCmd \/ JumpTopPg \/ JumpPrevPg \/ JumpUp
  BY <1>2, GoOnSameTodo, NothingAsked DEF NextCell, ExecCmd, JumpTopPg, JumpPrevPg, JumpUp
<1>3. CASE JumpNextPg \/ \E menu \in {Escape, Root, Title} : MenuCall(menu)
  <2>1. \A v, l, op : BeginCopy(v, l, After(op)) => SameTodo
    BY NothingAsked DEF BeginCopy, SameTodo
  <2> QED BY <1>3, <2>1 DEF JumpNextPg, MenuCall
<1>4. CASE JumpCellBlock
  <2>1. PICK c \in 1..Cells(vm), b \in Blocks :
          GoOn([vm EXCEPT !.cellN = c], Due("play_Cell"), [After("block") EXCEPT !.cell = c, !.block = b])
    BY <1>4 DEF JumpCellBlock
  <2>2. [After("block") EXCEPT !.cell = c, !.block = b].title = 0
    BY DEF After, Plain
  <2> QED BY <2>1, <2>2, GoOnSameTodo
<1>5. CASE \E p \in Programs : JumpTitleProgram(p[1], p[2], p[3])
  BY <1>5, GoOnSameTodo, NothingAsked DEF JumpTitleProgram
<1> QED BY <1>1, <1>2, <1>3, <1>4, <1>5 DEF Calls, AsksPart

(* A part is asked for while nothing else is: the call sets its chain and  *)
(* its program, and the number of its title.                               *)
LEMMA PartAsked == ASSUME IInv, AsksPart PROVE PartInv'
<1>0. PICK title \in DOMAIN Titles :
        \E part \in DOMAIN Ptts[Titles[title].vts][Titles[title].ttn] : JumpTitlePart(title, part)
  BY DEF AsksPart
<1>1. PICK part \in DOMAIN Ptts[Titles[title].vts][Titles[title].ttn] : JumpTitlePart(title, part)
  BY <1>0
<1> DEFINE vts == Titles[title].vts
           ttn == Titles[title].ttn
           w == SetVtsPtt(vm, vts, ttn, part)
           a == After("anyway")
           next == [a EXCEPT !.title = title, !.part = part]
           l == Due("play_PGC_PG")
<1>2. vm \in Machine /\ ~vm.stopped
  BY <1>1, ReadyRuns DEF JumpTitlePart
<1>3. HasPart(vts, ttn, part) /\ GoOn(w, l, next)
  BY <1>1 DEF JumpTitlePart
<1>4. /\ w.domain = "title" /\ w.vtsN = vts /\ w.stopped = vm.stopped
      /\ w.pgcN = Ptts[vts][ttn][part].pgcn /\ w.pgN = Ptts[vts][ttn][part].pgn
      /\ w.regs.ttn = TT(vts, ttn)
  BY <1>2, <1>3, SetVtsPttEnters
<1>5. TT(vts, ttn) = title
  <2> DEFINE S == {i \in DOMAIN Titles : Titles[i] = [vts |-> vts, ttn |-> ttn]}
  <2>1. Titles \in Seq([vts : Nat, ttn : Nat])
    BY TableAssumption
  <2>2. Titles[title] \in [vts : Nat, ttn : Nat]
    BY <2>1, ElementOf
  <2>3. title \in S
    BY <2>2
  <2>4. S \in SUBSET (Nat \ {0})
    BY <2>1, ElementOf
  <2>5. \A i \in S : i = title
    BY <2>3, TitleAssumption
  <2>6. First(S) \in S
    <3> HIDE DEF S
    <3> QED BY <2>3, <2>4, FirstIsLeast
  <2> QED BY <2>5, <2>6 DEF TT
<1>6. next.op = "anyway" /\ next.title = title /\ next.part = part
  BY DEF After, Plain
<1>7. l.cmd = "play_PGC_PG"
  BY DEF Due, Link
<1> HIDE DEF w, next, l
<1>8. PartDue(w, l, next)
  BY <1>2, <1>3, <1>4, <1>5, <1>6, <1>7 DEF PartDue
<1>9. vm' = w /\ link' = l /\ todo' = next
  BY <1>3 DEF GoOn
<1> QED BY <1>8, <1>9 DEF PartInv

(* What holds while a part with programs is due: the machine is in its     *)
(* chain, at the program that it begins with.                              *)
LEMMA PartUnderWay ==
  ASSUME IInv, todo.title # 0, PartDue(vm, link, todo), Programmed(todo.title, todo.part)
  PROVE  /\ link # Idle /\ vm \in Machine /\ InChain(vm) /\ link \in LinkType
         /\ link.cmd = "PlayThis" => link.d1 \in Blocks
         /\ vm.pgN \in 1..NrOfPrograms(vm)
         /\ todo.op = "plain" => link.cmd \in {"play_PG", "play_Cell", "PlayThis"}
         /\ todo.op \in {"plain", "anyway"}
         /\ link.cmd \notin {"play_PGC", "play_PGC_post", "play_Cell_post"}
<1> DEFINE t == Titles[todo.title]
           q == Ptts[t.vts][t.ttn][todo.part]
<1>1. link # Idle
  BY NothingAsked DEF IInv
<1>2. /\ HasPart(t.vts, t.ttn, todo.part) /\ vm.domain = "title" /\ vm.vtsN = t.vts
      /\ vm.pgcN = q.pgcn /\ vm.pgN = q.pgn
  BY DEF PartDue
<1>3. Goes(vm, link, todo.op) /\ vm \in Machine /\ link \in LinkType
      /\ (link.cmd = "PlayThis" => link.d1 \in Blocks)
  BY <1>1, UnderWay DEF Goes
<1>4. InChain(vm)
  BY <1>2, <1>3 DEF Goes, Sound
<1>5. Pgc(vm) = Pgcit[<<"title", t.vts>>][q.pgcn]
  BY <1>2, <1>3, <1>4, ChainOf DEF Pgc
<1>6. PartFits(Pgc(vm), vm.pgN)
  BY <1>2, <1>5, PartAssumption DEF HasPart, Vts
<1>7. Pgc(vm).map # <<>>
  BY <1>5 DEF Programmed
<1>8. vm.pgN \in 1..NrOfPrograms(vm)
  BY <1>6, <1>7 DEF PartFits, NrOfPrograms
<1>9. /\ todo.op = "plain" => link.cmd \in {"play_PG", "play_Cell", "PlayThis"}
      /\ todo.op \in {"plain", "anyway"}
      /\ link.cmd \notin {"play_PGC", "play_PGC_post", "play_Cell_post"}
  BY DEF PartDue
<1> QED BY <1>1, <1>3, <1>4, <1>8, <1>9

(* The steps that may happen then. *)
LEMMA PartSteps ==
  ASSUME IInv, todo.title # 0, PartDue(vm, link, todo), Programmed(todo.title, todo.part), Next
  PROVE  PlayPGC \/ PlayPG \/ PlayCell \/ (Finish /\ link.cmd = "PlayThis") \/ PlayAnyway
<1>1. /\ link # Idle /\ todo.op \in {"plain", "anyway"}
      /\ link.cmd \notin {"play_PGC", "play_PGC_post", "play_Cell_post"}
      /\ todo.op = "plain" => link.cmd \in {"play_PG", "play_Cell", "PlayThis"}
  BY PartUnderWay
<1>2. ~Calls
  BY <1>1 DEF Calls, Start, Reset, Stop, Ready, ReadOn, NextCell, ExecCmd, JumpTopPg, JumpPrevPg,
              JumpUp, JumpNextPg, JumpCellBlock, JumpTitlePart, JumpTitleProgram, MenuCall
<1>3. ~PlayPGCPost /\ ~PlayCellPost
  BY <1>1 DEF PlayPGCPost, PlayCellPost
<1>4. ~(LinkC \/ LinkPG \/ LinkTopPGC \/ LinkPGC \/ LinkTailPGC \/ LinkRSM \/ LinkPGCN \/ LinkPGN \/ LinkCN)
  BY <1>1 DEF At, LinkC, LinkPG, LinkTopPGC, LinkPGC, LinkTailPGC, LinkRSM, LinkPGCN, LinkPGN, LinkCN
<1>5. ~(LinkPTTN \/ JumpTT \/ JumpVTS_TT \/ JumpVTS_PTT)
  BY <1>1 DEF At, LinkPTTN, JumpTT, JumpVTS_TT, JumpVTS_PTT
<1>6. ~(JumpSS_FP \/ JumpSS_VMGM_MENU \/ JumpSS_VMGM_PGC \/ JumpSS_VTSM)
  BY <1>1 DEF At, JumpSS_FP, JumpSS_VMGM_MENU, JumpSS_VMGM_PGC, JumpSS_VTSM
<1>7. ~(CallSS_FP \/ CallSS_VMGM_MENU \/ CallSS_VMGM_PGC \/ CallSS_VTSM)
  BY <1>1 DEF At, CallSS_FP, CallSS_VMGM_MENU, CallSS_VMGM_PGC, CallSS_VTSM
<1>8. ~(FinishBlock \/ FinishPrevPgc \/ FinishTry \/ FinishNextPg \/ FinishResume)
  BY <1>1 DEF Ended, FinishBlock, FinishPrevPgc, FinishTry, FinishNextPg, FinishResume
<1>9. Finish => link.cmd = "PlayThis"
  BY <1>1 DEF Ended, Finish
<1> QED BY <1>2, <1>3, <1>4, <1>5, <1>6, <1>7, <1>8, <1>9 DEF Next, Steps

(* A step within the chain that leaves the program and the title. *)
LEMMA PartOn ==
  ASSUME PartDue(vm, link, todo), vm \in Machine, NEW w, NEW l, Then(w, l), Moved(vm, w),
         w.pgN = vm.pgN, w.regs.ttn = vm.regs.ttn,
         l.cmd = "play_Cell" => w.cellN = Pgc(vm).map[vm.pgN],
         l.cmd = "PlayThis" => w.regs.pttn = todo.part,
         IF todo.op = "plain" THEN l.cmd \in {"play_PG", "play_Cell", "PlayThis"}
         ELSE l.cmd \notin {"play_PGC", "play_PGC_post", "play_Cell_post"}
  PROVE  PartInv'
<1>1. Pgc(w) = Pgc(vm) /\ vm' = w /\ link' = l /\ todo' = todo
  BY MovedKeeps DEF Then
<1>2. PartDue(w, l, todo)
  BY <1>1 DEF PartDue, Moved, SameChain
<1> QED BY <1>1, <1>2 DEF PartInv

(* play_PGC_PG begins with the program of the part, ... *)
LEMMA PlayPGCParts ==
  ASSUME IInv, todo.title # 0, PartDue(vm, link, todo), Programmed(todo.title, todo.part), PlayPGC
  PROVE  PartInv'
<1> DEFINE w == [vm EXCEPT !.pgN = IF link.cmd = "play_PGC" THEN 1 ELSE @, !.cellN = 0, !.blockN = 0]
<1>1. vm \in Machine /\ InChain(vm) /\ link.cmd = "play_PGC_PG"
      /\ todo.op \in {"plain", "anyway"} /\ todo.op # "plain"
  BY PartUnderWay DEF PlayPGC
<1>2. PICK l \in Eval(Pgc(vm).pre, Due("play_PG")) : Then(w, l)
  BY DEF PlayPGC
<1>3. Moved(vm, w) /\ w.pgN = vm.pgN /\ w.regs.ttn = vm.regs.ttn
  <2>1. 0 \in Blocks
    BY BlockAssumption DEF Blocks
  <2>2. w = [vm EXCEPT !.cellN = 0, !.blockN = 0]
    BY <1>1 DEF Machine
  <2> HIDE DEF w
  <2> QED BY <1>1, <2>1, <2>2 DEF Machine, Moved, SameChain
<1>4. l.cmd \notin {"play_PGC", "play_PGC_post", "play_Cell", "play_Cell_post", "PlayThis"}
  <2>1. CASE l = Due("play_PG")
    BY <2>1 DEF Due, Link
  <2>2. CASE l # Due("play_PG")
    <3>1. l \in Pgc(vm).pre /\ l # NoJump
      BY <1>2, <2>2 DEF Eval
    <3>2. l.cmd \in Anywhere
      BY <1>1, <3>1, ChainOf DEF CommandsFit
    <3> QED BY <3>2 DEF Anywhere
  <2> QED BY <2>1, <2>2
<1> HIDE DEF w
<1> QED BY <1>1, <1>2, <1>3, <1>4, PartOn

(* ... play_PG finds its first cell, ... *)
LEMMA PlayPGParts ==
  ASSUME IInv, todo.title # 0, PartDue(vm, link, todo), Programmed(todo.title, todo.part), PlayPG
  PROVE  PartInv'
<1> DEFINE c == Pgc(vm).map[vm.pgN]
           w == [vm EXCEPT !.cellN = c]
           l == Due("play_Cell")
<1>1. vm \in Machine /\ InChain(vm) /\ vm.pgN \in 1..NrOfPrograms(vm)
  BY PartUnderWay
<1>2. NrOfPrograms(vm) \in Nat
  BY <1>1, ChainOf
<1>3. Then(w, l)
  BY <1>1, <1>2 DEF PlayPG
<1>4. c \in Nat
  <2>1. Pgc(vm).map \in Seq(Nat) /\ vm.pgN \in DOMAIN Pgc(vm).map
    BY <1>1, ChainOf, ChainFields DEF NrOfPrograms
  <2> QED BY <2>1, ElementOf
<1> HIDE DEF c
<1>5. Moved(vm, w) /\ w.pgN = vm.pgN /\ w.regs.ttn = vm.regs.ttn /\ w.cellN = c
  BY <1>1, <1>4 DEF Machine, Moved, SameChain
<1>6. l.cmd = "play_Cell"
  BY DEF Due, Link
<1> HIDE DEF w, l
<1> QED BY <1>1, <1>3, <1>5, <1>6, PartOn DEF c

(* ... play_Cell a cell of one of its angles, which is of the part, ... *)
LEMMA PlayCellParts ==
  ASSUME IInv, todo.title # 0, PartDue(vm, link, todo), Programmed(todo.title, todo.part), PlayCell
  PROVE  PartInv'
<1> DEFINE t == Titles[todo.title]
           q == Ptts[t.vts][t.ttn][todo.part]
<1>1. vm \in Machine /\ InChain(vm) /\ vm.pgN \in 1..NrOfPrograms(vm) /\ Cells(vm) \in Nat
  BY PartUnderWay, ChainOf
<1>2. /\ HasPart(t.vts, t.ttn, todo.part) /\ vm.domain = "title" /\ vm.vtsN = t.vts
      /\ vm.pgcN = q.pgcn /\ vm.pgN = q.pgn
  BY DEF PartDue
<1>3. vm.cellN = Pgc(vm).map[vm.pgN]
  BY DEF PartDue, PlayCell
<1>4. \A agl \in Angles : ProgramOf(Angled(vm, agl)) = vm.pgN /\ vm.cellN \in 1..Cells(vm)
  BY <1>1, <1>3, AngleInProgram
<1>5. PICK agl \in Angles : vm.cellN \in 1..Cells(vm) /\ ProgramOf(Angled(vm, agl)) = vm.pgN
                            /\ Then([SetPgn(Angled(vm, agl)) EXCEPT !.blockN = 0], PlayThis)
  <2>1. vm.cellN \in 1..Cells(vm)
    <3>1. vm.cellN \in DOMAIN Pgc(vm).cells
      <4>1. vm.pgN \in DOMAIN Pgc(vm).map
        BY <1>1, ChainOf, ChainFields DEF NrOfPrograms
      <4> QED BY <1>1, <1>3, <4>1, ChainOf DEF ProgramsFit
    <3> QED BY <1>1, <3>1, ChainOf, ChainFields DEF Cells
  <2>2. ~(vm.cellN > Cells(vm))
    BY <1>1, <2>1
  <2>3. PICK agl \in Angles : Then([SetPgn(Angled(vm, agl)) EXCEPT !.blockN = 0], PlayThis)
    BY <2>2 DEF PlayCell
  <2> QED BY <1>4, <2>1, <2>3
<1> DEFINE u == Angled(vm, agl)
           v == SetPgn(u)
           w == [v EXCEPT !.blockN = 0]
           x == [u EXCEPT !.pgN = ProgramOf(u)]
<1>6. Moved(vm, u) /\ u.regs = vm.regs /\ u.domain = "title" /\ ProgramOf(u) = vm.pgN
  BY <1>1, <1>2, <1>5, AngledMoves DEF Moved, SameChain
<1> HIDE DEF u
<1>7. u \in Machine /\ InChain(u)
  BY <1>1, <1>6, MovedKeeps DEF Moved
<1>8. /\ Moved(u, v) /\ v.pgN = vm.pgN /\ v.regs.ttn = vm.regs.ttn
      /\ v.regs.pttn = CurrentPart(x).part
  BY <1>6, <1>7, SetPgnMoves
<1> HIDE DEF v
<1>9. x.pgN = vm.pgN /\ Moved(u, x)
  BY <1>1, <1>6, <1>7, MachineFields DEF Machine, Moved, SameChain
<1> HIDE DEF x
<1>10. x \in Machine /\ InChain(x)
  BY <1>7, <1>9, MovedKeeps DEF Moved
<1>11. x.domain = "title" /\ x.vtsN = t.vts /\ x.pgcN = q.pgcn /\ x.pgN = q.pgn
  BY <1>2, <1>6, <1>9 DEF Moved, SameChain
<1>12. v.regs.pttn = todo.part
  BY <1>2, <1>8, <1>10, <1>11, PartBegins
<1>13. Moved(vm, w) /\ w.pgN = v.pgN /\ w.regs = v.regs
  <2>1. v \in Machine /\ 0 \in Blocks
    BY <1>8, BlockAssumption DEF Moved, Blocks
  <2>2. Moved(v, w) /\ w.pgN = v.pgN /\ w.regs = v.regs
    BY <2>1 DEF Machine, Moved, SameChain
  <2> HIDE DEF w
  <2> QED BY <1>6, <1>8, <2>2 DEF Moved, SameChain
<1>14. Then(w, PlayThis) /\ PlayThis.cmd = "PlayThis"
  BY <1>5 DEF u, v, PlayThis, Due, Link
<1> HIDE DEF w
<1>15. todo.op \in {"plain", "anyway"}
  BY PartUnderWay
<1> QED BY <1>1, <1>8, <1>12, <1>13, <1>14, <1>15, PartOn

(* ... and a link of the pre commands is dropped for the program. *)
LEMMA PlayAnywayParts ==
  ASSUME IInv, todo.title # 0, PartDue(vm, link, todo), Programmed(todo.title, todo.part), PlayAnyway
  PROVE  PartInv'
<1> DEFINE next == [todo EXCEPT !.op = "plain"]
           l == Due("play_PG")
<1>1. CASE link.cmd = "PlayThis"
  BY <1>1, NothingAsked DEF PlayAnyway, Return, PartInv
<1>2. CASE link.cmd # "PlayThis"
  <2>1. GoOn(vm, l, next)
    BY <1>2 DEF PlayAnyway
  <2>2. next.title = todo.title /\ next.part = todo.part /\ next.op = "plain"
    BY DEF IInv, TypeOK
  <2>3. l.cmd = "play_PG"
    BY DEF Due, Link
  <2> HIDE DEF next, l
  <2>4. PartDue(vm, l, next)
    BY <2>2, <2>3 DEF PartDue
  <2>5. vm' = vm /\ link' = l /\ todo' = next
    BY <2>1 DEF GoOn
  <2> QED BY <2>4, <2>5 DEF PartInv
<1> QED BY <1>1, <1>2

(* No part is asked for at first. *)
LEMMA InitParts == ASSUME Init PROVE PartInv
BY NothingAsked DEF Init, PartInv

(* Every step keeps a part asked for on its way. *)
LEMMA StepParts == ASSUME IInv, PartInv, [Next]_vars PROVE PartInv'
<1>1. CASE UNCHANGED vars
  BY <1>1 DEF vars, PartInv
<1>2. CASE Next
  <2>1. SameTodo \/ AsksPart
    BY <1>2, StepAsksNothing, CallAsks DEF Next
  <2>2. CASE AsksPart
    BY <2>2, PartAsked
  <2>3. CASE SameTodo /\ (todo.title = 0 \/ ~Programmed(todo.title, todo.part))
    BY <2>3 DEF SameTodo, PartInv, Programmed
  <2>4. CASE todo.title # 0 /\ Programmed(todo.title, todo.part)
    <3>1. PartDue(vm, link, todo)
      BY <2>4 DEF PartInv
    <3>2. CASE Finish
      BY <3>2, NothingAsked DEF Finish, Return, PartInv
    <3> QED BY <1>2, <2>4, <3>1, <3>2, PartSteps, PlayPGCParts, PlayPGParts, PlayCellParts, PlayAnywayParts
  <2> QED BY <2>1, <2>2, <2>3, <2>4
<1> QED BY <1>1, <1>2

(* vm_jump_title_part plays the part asked for, whatever the pre commands  *)
(* of its chain say.                                                       *)
THEOREM PartsPlayed == Spec => PartPlayed
<1>1. Init => IInv /\ PartInv
  BY InitHolds, InitParts
<1>2. IInv /\ PartInv /\ [Next]_vars => (IInv /\ PartInv)'
  BY StepKeeps, StepParts
<1>3. ASSUME IInv, PartInv, [Next]_vars, todo.title # 0, link' = Idle, Programmed(todo.title, todo.part)
      PROVE  /\ vm'.domain = "title" /\ ~vm'.stopped
             /\ vm'.regs.ttn = todo.title /\ vm'.regs.pttn = todo.part
  <2>1. PartDue(vm, link, todo)
    BY <1>3 DEF PartInv
  <2>2. link # Idle /\ vm \in Machine /\ link \in LinkType /\ (link.cmd = "PlayThis" => link.d1 \in Blocks)
    BY <1>3, <2>1, PartUnderWay
  <2>3. Next
    BY <1>3, <2>2 DEF vars
  <2>4. todo' = Plain
    BY <1>3, StepKeeps DEF IInv
  <2>5. ~(PlayPGC \/ PlayPG \/ PlayCell)
    BY <1>3, <2>4, NothingAsked DEF PlayPGC, PlayPG, PlayCell, Then
  <2>6. link.cmd = "PlayThis" /\ Return(Result)
    <3>1. CASE Finish /\ link.cmd = "PlayThis"
      BY <3>1 DEF Finish
    <3>2. CASE PlayAnyway
      <4>1. ~GoOn(vm, Due("play_PG"), [todo EXCEPT !.op = "plain"])
        BY <1>3 DEF GoOn, Idle, Due, Link
      <4> QED BY <3>2, <4>1 DEF PlayAnyway
    <3> QED BY <1>3, <2>1, <2>3, <2>5, <3>1, <3>2, PartSteps
  <2>7. vm' = Result /\ Result.domain = vm.domain /\ Result.stopped = vm.stopped
        /\ Result.regs.ttn = vm.regs.ttn /\ Result.regs.pttn = vm.regs.pttn
    BY <2>2, <2>6, ResultKeeps, MachineFields DEF Return, SameChain
  <2> QED BY <2>1, <2>6, <2>7 DEF PartDue
<1>4. IInv /\ PartInv /\ [Next]_vars =>
        (todo.title # 0 /\ link' = Idle /\ Programmed(todo.title, todo.part) =>
           /\ vm'.domain = "title" /\ ~vm'.stopped
           /\ vm'.regs.ttn = todo.title /\ vm'.regs.pttn = todo.part)
  BY <1>3
<1> QED BY <1>1, <1>2, <1>4, PTL DEF Spec, PartPlayed
===============================================================================
