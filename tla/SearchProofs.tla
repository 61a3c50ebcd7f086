----------------------------- MODULE SearchProofs -----------------------------
(* What holds of positions, times and angles for every title whose VOBUs,   *)
(* programs and angle blocks are laid out as Search assumes.                *)
(*                                                                          *)
(* Where the code loops over cells or VOBUs, induction is replaced by a     *)
(* least counterexample, which the naturals always have.                    *)
EXTENDS Search, FiniteSetTheorems, WellFoundedInduction, TLAPS

(* Every set of naturals has a least element. *)
LEMMA LeastNatural ==
  ASSUME NEW S \in SUBSET Nat, S # {}
  PROVE  \E n \in S : \A m \in S : n <= m
<1>1. IsWellFoundedOn(OpToRel(<, Nat), Nat)
  BY NatLessThanWellFounded
<1>2. \E n \in S : \A m \in S : <<m, n>> \notin OpToRel(<, Nat)
  BY <1>1, WFMin
<1>3. \A m, n \in Nat : m < n => <<m, n>> \in OpToRel(<, Nat)
  BY DEF OpToRel
<1>4. PICK n \in S : \A m \in S : <<m, n>> \notin OpToRel(<, Nat)
  BY <1>2
<1>5. \A m \in S : ~(m < n)
  BY <1>3, <1>4
<1>6. \A m \in S : n <= m
  BY <1>5
<1> QED BY <1>6

LEMMA Induction ==
  ASSUME NEW S, 0 \in S, \A k \in Nat : k \in S => k + 1 \in S
  PROVE  \A k \in Nat : k \in S
<1> DEFINE Out == {k \in Nat : k \notin S}
<1>1. ASSUME Out # {} PROVE FALSE
  <2>1. PICK k \in Out : \A m \in Out : k <= m
    BY <1>1, LeastNatural
  <2>2. k \in Nat /\ k # 0
    BY <2>1
  <2>3. k - 1 \in Nat /\ k - 1 \notin Out /\ (k - 1) + 1 = k
    BY <2>1, <2>2
  <2>4. k \in S
    BY <2>3
  <2> QED BY <2>1, <2>4
<1> QED BY <1>1

-----------------------------------------------------------------------------
(* The chain *)

LEMMA ChainFields ==
  ASSUME NEW c \in Chains
  PROVE  /\ c.cells \in Seq(CellType) /\ c.map \in Seq(Nat) /\ c.vobus \in Seq(VobuType) /\ c.angles \in Nat
         /\ Len(c.cells) \in Nat /\ Len(c.map) \in Nat /\ Len(c.vobus) \in Nat
         /\ DOMAIN c.cells = 1..Len(c.cells) /\ DOMAIN c.map = 1..Len(c.map)
         /\ DOMAIN c.vobus = 1..Len(c.vobus)
         /\ VobusInOrder(c) /\ CellsInOrder(c) /\ ProgramsInOrder(c) /\ BlocksWhole(c)
<1>1. c \in ChainType /\ VobusInOrder(c) /\ CellsInOrder(c) /\ ProgramsInOrder(c) /\ BlocksWhole(c)
  BY ChainsAssumption
<1>2. c.cells \in Seq(CellType) /\ c.map \in Seq(Nat) /\ c.vobus \in Seq(VobuType) /\ c.angles \in Nat
  BY <1>1 DEF ChainType
<1> QED BY <1>1, <1>2

LEMMA CellFields ==
  ASSUME chain \in Chains, NEW n \in Cells
  PROVE  /\ Cell(n).first \in Nat /\ Cell(n).last \in Nat /\ Cell(n).time \in Nat
         /\ Cell(n).block \in {"none", "first", "in"}
         /\ Cell(n).first <= Cell(n).last /\ Cell(n).last <= Cell(Len(chain.cells)).last
<1>1. chain.cells \in Seq(CellType) /\ Cells = 1..Len(chain.cells) /\ VobusInOrder(chain)
  BY ChainFields DEF Cells
<1>2. Cell(n) \in CellType
  BY <1>1 DEF Cell
<1>3. /\ Cell(n).first \in Nat /\ Cell(n).last \in Nat /\ Cell(n).time \in Nat
      /\ Cell(n).block \in {"none", "first", "in"}
  BY <1>2 DEF CellType
<1> QED BY <1>1, <1>3 DEF VobusInOrder, Cell, Cells

LEMMA CellNumbers ==
  ASSUME chain \in Chains
  PROVE  /\ Len(chain.cells) \in Nat \ {0} /\ Cells = 1..Len(chain.cells) /\ 1 \in Cells
         /\ Len(chain.cells) \in Cells
<1>1. Len(chain.cells) \in Nat /\ Cells = 1..Len(chain.cells) /\ ProgramsInOrder(chain)
      /\ chain.map \in Seq(Nat) /\ DOMAIN chain.map = 1..Len(chain.map) /\ Len(chain.map) \in Nat
  BY ChainFields DEF Cells
<1>2. 1 \in DOMAIN chain.map /\ chain.map[1] = 1
  BY <1>1 DEF ProgramsInOrder
<1>3. 1 \in Cells
  BY <1>1, <1>2 DEF ProgramsInOrder, Cells
<1> QED BY <1>1, <1>3

(* Where a VOBU lies, and which of them lies first on the disc.            *)
LEMMA VobuPlaces ==
  ASSUME chain \in Chains
  PROVE  /\ Len(chain.vobus) \in Nat \ {0} /\ Vobus = 1..Len(chain.vobus)
         /\ \A v \in Vobus :
              /\ Start(v) \in Nat /\ chain.vobus[v].time \in Nat /\ chain.vobus[v].cell \in Cells
              /\ Blocks(v) \in Nat \ {0}
              /\ Cell(chain.vobus[v].cell).first <= Start(v)
              /\ Start(v) + Blocks(v) - 1 <= Cell(chain.vobus[v].cell).last
              /\ v < Len(chain.vobus) => Start(v) + Blocks(v) = Start(v + 1)
              /\ v = Len(chain.vobus) => Start(v) + Blocks(v) = Cell(Len(chain.cells)).last + 1
         /\ \A v, w \in Vobus : v < w => Start(v) < Start(w)
         /\ \A n \in Cells : \E v \in Vobus : chain.vobus[v].cell = n /\ Start(v) = Cell(n).first
<1>1. /\ chain.vobus \in Seq(VobuType) /\ Vobus = 1..Len(chain.vobus) /\ Len(chain.vobus) \in Nat
      /\ DOMAIN chain.cells = Cells /\ VobusInOrder(chain) /\ DOMAIN chain.vobus = Vobus
  BY ChainFields DEF Vobus, Cells
<1>2. \A n \in Cells : \E v \in Vobus : chain.vobus[v].cell = n /\ Start(v) = Cell(n).first
  BY <1>1 DEF VobusInOrder, Start, Cell
<1>3. \A v, w \in Vobus : v < w => Start(v) < Start(w)
  BY <1>1 DEF VobusInOrder, Start
<1>4. Len(chain.vobus) # 0
  BY <1>1, <1>2, CellNumbers
<1>5. ASSUME NEW v \in Vobus
      PROVE  Start(v) \in Nat /\ chain.vobus[v].time \in Nat /\ chain.vobus[v].cell \in Cells
  <2>1. chain.vobus[v] \in VobuType
    BY <1>1
  <2>2. Start(v) \in Nat /\ chain.vobus[v].time \in Nat
    BY <2>1 DEF VobuType, Start
  <2> QED BY <1>1, <2>2 DEF VobusInOrder
<1>6. ASSUME NEW v \in Vobus
      PROVE  /\ Blocks(v) \in Nat \ {0}
             /\ Cell(chain.vobus[v].cell).first <= Start(v)
             /\ Start(v) + Blocks(v) - 1 <= Cell(chain.vobus[v].cell).last
             /\ v < Len(chain.vobus) => Start(v) + Blocks(v) = Start(v + 1)
             /\ v = Len(chain.vobus) => Start(v) + Blocks(v) = Cell(Len(chain.cells)).last + 1
  <2> DEFINE end == IF v < Len(chain.vobus) THEN Start(v + 1) - 1 ELSE Cell(Len(chain.cells)).last
  <2>1. Cell(chain.vobus[v].cell).first <= Start(v) /\ Start(v) <= end
        /\ end <= Cell(chain.vobus[v].cell).last
    BY <1>1 DEF VobusInOrder, Start, Cell
  <2>2. Start(v) \in Nat /\ (v < Len(chain.vobus) => Start(v + 1) \in Nat)
    BY <1>1, <1>5
  <2>3. Cell(Len(chain.cells)).last \in Nat
    BY CellNumbers, CellFields
  <2>4. Cell(chain.vobus[v].cell).last \in Nat
    BY <1>5, CellFields
  <2>5. v \in Nat /\ v <= Len(chain.vobus)
    BY <1>1
  <2>6. CASE v < Len(chain.vobus)
    <3>1. end = Start(v + 1) - 1 /\ Blocks(v) = Start(v + 1) - Start(v)
      BY <1>1, <2>6 DEF Blocks
    <3> HIDE DEF end
    <3>2. Start(v + 1) \in Nat /\ Start(v) \in Nat
      BY <2>2, <2>6
    <3>3. Blocks(v) \in Nat \ {0} /\ Start(v) + Blocks(v) = Start(v + 1)
      BY <2>1, <3>1, <3>2
    <3>4. Start(v) + Blocks(v) - 1 <= Cell(chain.vobus[v].cell).last
      BY <2>1, <2>4, <3>1, <3>2
    <3>5. v # Len(chain.vobus)
      BY <1>1, <2>6
    <3> QED BY <2>1, <2>6, <3>3, <3>4, <3>5, Zenon
  <2>7. CASE v = Len(chain.vobus)
    <3>0. ~(v < Len(chain.vobus))
      BY <1>1, <2>5, <2>7
    <3>1. end = Cell(Len(chain.cells)).last
      BY <3>0
    <3>2. Blocks(v) = (Cell(Len(chain.cells)).last + 1) - Start(v)
      BY <2>7, Zenon DEF Blocks, Cell
    <3> HIDE DEF end
    <3>3. Blocks(v) \in Nat \ {0} /\ Start(v) + Blocks(v) = Cell(Len(chain.cells)).last + 1
      BY <2>1, <2>2, <2>3, <3>1, <3>2
    <3>4. Start(v) + Blocks(v) - 1 <= Cell(chain.vobus[v].cell).last
      BY <2>1, <2>2, <2>3, <2>4, <3>1, <3>2
    <3> QED BY <2>1, <3>0, <3>3, <3>4, Zenon
  <2> QED BY <1>1, <2>5, <2>6, <2>7
<1> QED BY <1>1, <1>2, <1>3, <1>4, <1>5, <1>6

LEMMA VobusRise ==
  ASSUME chain \in Chains, NEW v \in Vobus, NEW w \in Vobus, v <= w
  PROVE  Start(v) <= Start(w) /\ Start(v) \in Nat /\ Start(w) \in Nat
<1>1. v \in Nat /\ w \in Nat /\ Start(v) \in Nat /\ Start(w) \in Nat
  BY VobuPlaces
<1>2. v < w => Start(v) < Start(w)
  BY VobuPlaces
<1>3. v = w \/ v < w
  BY <1>1
<1> QED BY <1>1, <1>2, <1>3

(* Every sector of a cell is in a VOBU, in one only; ScanAdmap finds its   *)
(* start.                                                                  *)
InVobu(v, sector) == Start(v) <= sector /\ sector < Start(v) + Blocks(v)

LEMMA OneVobu ==
  ASSUME chain \in Chains, NEW sector \in Int, NEW v \in Vobus, NEW w \in Vobus,
         InVobu(v, sector), InVobu(w, sector)
  PROVE  v = w
<1>1. ASSUME NEW a \in Vobus, NEW b \in Vobus, a < b PROVE Start(a) + Blocks(a) <= Start(b)
  <2>1. Len(chain.vobus) \in Nat /\ Vobus = 1..Len(chain.vobus)
    BY VobuPlaces
  <2>2. a + 1 \in Vobus /\ a < Len(chain.vobus) /\ a + 1 <= b
    BY <1>1, <2>1
  <2>3. Start(a) + Blocks(a) = Start(a + 1)
    BY <2>2, VobuPlaces
  <2>4. Start(a + 1) <= Start(b)
    BY <2>2, VobusRise
  <2> QED BY <2>3, <2>4
<1>2. v \in Int /\ w \in Int /\ Start(v) \in Nat /\ Start(w) \in Nat /\ Blocks(v) \in Nat /\ Blocks(w) \in Nat
  BY VobuPlaces
<1>3. ~(v < w)
  BY <1>1, <1>2 DEF InVobu
<1>4. ~(w < v)
  BY <1>1, <1>2 DEF InVobu
<1> QED BY <1>2, <1>3, <1>4

LEMMA ScanFindsVobu ==
  ASSUME chain \in Chains, NEW n \in Cells, NEW sector \in Cell(n).first..Cell(n).last
  PROVE  \E v \in Vobus :
           /\ InVobu(v, sector) /\ Start(v) >= Cell(n).first
           /\ ScanAdmap(sector, FALSE) = Start(v)
           /\ v < Len(chain.vobus) => ScanAdmap(sector, TRUE) = Start(v + 1)
           /\ v = Len(chain.vobus) => ScanAdmap(sector, TRUE) = Start(v)
<1> DEFINE last == Len(chain.vobus)
           hits == {v \in Vobus : v > 1 /\ Start(v - 1) <= sector /\ sector < Start(v)}
           hit == CHOOSE w \in hits : \A u \in hits : w <= u
<1>1. sector \in Nat /\ Cell(n).first \in Nat /\ Cell(n).last \in Nat
      /\ sector <= Cell(Len(chain.cells)).last /\ Cell(Len(chain.cells)).last \in Nat
  BY CellFields, CellNumbers
<1>2. PICK f \in Vobus : Start(f) = Cell(n).first
  BY VobuPlaces
<1>3. Vobus = 1..last /\ last \in Nat \ {0} /\ \A v \in Vobus : Start(v) \in Nat /\ Blocks(v) \in Nat
  BY VobuPlaces
<1>4. \A next : ScanAdmap(sector, next) =
                  IF hits = {} THEN Start(last) ELSE IF next THEN Start(hit) ELSE Start(hit - 1)
  BY DEF ScanAdmap
<1>5. CASE hits = {}
  <2> DEFINE above == {v \in Vobus : Start(v) > sector /\ v > f}
  <2>1. above = {}
    <3> SUFFICES ASSUME above # {} PROVE FALSE
      OBVIOUS
    <3>1. above \in SUBSET Nat
      BY <1>3
    <3>2. PICK v \in above : \A w \in above : v <= w
      BY <3>1, LeastNatural
    <3>3. v - 1 \in Vobus /\ v - 1 >= f /\ v > 1 /\ v - 1 \notin above
      BY <1>3, <3>2
    <3>4. Start(v - 1) <= sector
      <4>1. CASE v - 1 = f
        BY <1>1, <1>2, <4>1
      <4>2. CASE v - 1 > f
        <5>1. ~(Start(v - 1) > sector)
          BY <3>3, <4>2
        <5>2. Start(v - 1) \in Nat
          BY <1>3, <3>3
        <5> QED BY <1>1, <5>1, <5>2
      <4> QED BY <1>3, <3>3, <4>1, <4>2
    <3>5. v \in hits
      BY <3>2, <3>3, <3>4
    <3> QED BY <1>5, <3>5
  <2>2. Start(last) <= sector
    <3>1. last \in Vobus
      BY <1>3
    <3>2. CASE last = f
      BY <1>1, <1>2, <3>2
    <3>3. CASE last # f
      <4>1. last > f /\ last \notin above
        BY <1>3, <2>1, <3>3
      <4> QED BY <1>1, <1>3, <3>1, <4>1
    <3> QED BY <3>2, <3>3
  <2>3. Start(last) + Blocks(last) = Cell(Len(chain.cells)).last + 1
    BY <1>3, VobuPlaces
  <2>4. Start(last) >= Cell(n).first
    <3>1. f = last \/ Start(f) < Start(last)
      BY <1>3, VobuPlaces
    <3> QED BY <1>1, <1>2, <1>3, <3>1
  <2>5. last \in Vobus /\ InVobu(last, sector)
    BY <1>1, <1>3, <2>2, <2>3 DEF InVobu
  <2>6. ScanAdmap(sector, FALSE) = Start(last) /\ ScanAdmap(sector, TRUE) = Start(last)
    BY <1>4, <1>5
  <2>7. ~(last < Len(chain.vobus))
    BY <1>3
  <2> HIDE DEF last, hits, hit
  <2> QED BY <2>4, <2>5, <2>6, <2>7
<1>6. CASE hits # {}
  <2>1. hits \in SUBSET Nat
    BY <1>3
  <2>2. \E w \in hits : \A u \in hits : w <= u
    BY <1>6, <2>1, LeastNatural
  <2>3. hit \in hits
    BY <2>2
  <2> HIDE DEF hit
  <2>4. hit \in Vobus /\ hit - 1 \in Vobus /\ hit - 1 < last /\ (hit - 1) + 1 = hit
        /\ Start(hit - 1) <= sector /\ sector < Start(hit)
    BY <1>3, <2>3
  <2>5. Start(hit - 1) + Blocks(hit - 1) = Start(hit)
    BY <2>4, VobuPlaces
  <2>6. InVobu(hit - 1, sector)
    BY <2>4, <2>5 DEF InVobu
  <2>7. Start(hit - 1) >= Cell(n).first
    <3>1. ~(f > hit - 1)
      <4> SUFFICES ASSUME f > hit - 1 PROVE FALSE
        OBVIOUS
      <4>1. f = hit \/ hit < f
        BY <1>3, <2>4
      <4>2. Start(hit) <= Start(f)
        BY <1>3, <2>4, <4>1, VobuPlaces
      <4> QED BY <1>1, <1>2, <1>3, <2>4, <4>2
    <3>2. f <= hit - 1
      BY <1>3, <2>4, <3>1
    <3>3. Start(f) <= Start(hit - 1)
      BY <2>4, <3>2, VobusRise
    <3> QED BY <1>2, <3>3
  <2>8. ScanAdmap(sector, FALSE) = Start(hit - 1) /\ ScanAdmap(sector, TRUE) = Start(hit)
    BY <1>4, <1>6
  <2>9. hit - 1 < Len(chain.vobus) /\ hit - 1 # Len(chain.vobus) /\ Start((hit - 1) + 1) = Start(hit)
    BY <1>3, <2>4
  <2> HIDE DEF last, hits
  <2> QED BY <2>4, <2>6, <2>7, <2>8, <2>9
<1> QED BY <1>5, <1>6

(* The program of the cell the machine is in.                              *)
LEMMA ProgramOfCell ==
  ASSUME chain \in Chains, cellN \in Cells
  PROVE  /\ PgN \in DOMAIN chain.map /\ chain.map[PgN] \in Cells /\ chain.map[PgN] <= cellN
         /\ PgN < Len(chain.map) => chain.map[PgN + 1] \in Cells /\ cellN < chain.map[PgN + 1]
<1>1. /\ chain.map \in Seq(Nat) /\ DOMAIN chain.map = 1..Len(chain.map) /\ Len(chain.map) \in Nat
      /\ ProgramsInOrder(chain) /\ Cells = 1..Len(chain.cells) /\ Len(chain.cells) \in Nat
  BY ChainFields DEF Cells
<1>2. 1 \in DOMAIN chain.map /\ chain.map[1] = 1 /\ \A p \in DOMAIN chain.map : chain.map[p] \in Cells
  BY <1>1 DEF ProgramsInOrder, Cells
<1> DEFINE behind == {p \in DOMAIN chain.map : chain.map[p] > cellN}
           Good(p) == chain.map[p] <= cellN /\ (p < Len(chain.map) => cellN < chain.map[p + 1])
<1>3. \E p \in DOMAIN chain.map : Good(p)
  <2>1. CASE behind = {}
    <3>1. Len(chain.map) \in DOMAIN chain.map /\ Len(chain.map) \notin behind
      BY <1>1, <1>2, <2>1
    <3>2. chain.map[Len(chain.map)] <= cellN
      BY <1>1, <1>2, <3>1
    <3> QED BY <1>1, <3>1, <3>2
  <2>2. CASE behind # {}
    <3>1. behind \in SUBSET Nat
      BY <1>1
    <3>2. PICK q \in behind : \A p \in behind : q <= p
      BY <2>2, <3>1, LeastNatural
    <3>3. q # 1
      BY <1>1, <1>2, <3>2
    <3>4. q - 1 \in DOMAIN chain.map /\ q - 1 \notin behind /\ (q - 1) + 1 = q
      BY <1>1, <3>2, <3>3
    <3>5. chain.map[q - 1] <= cellN /\ cellN < chain.map[q]
      BY <1>1, <1>2, <3>2, <3>4
    <3> QED BY <3>4, <3>5
  <2> QED BY <2>1, <2>2
<1>4. PgN \in DOMAIN chain.map /\ Good(PgN)
  BY <1>3 DEF PgN
<1> HIDE DEF Good
<1>5. PgN < Len(chain.map) => PgN + 1 \in DOMAIN chain.map
  BY <1>1, <1>4
<1> QED BY <1>2, <1>4, <1>5 DEF Good

LEMMA CountedCells ==
  ASSUME chain \in Chains, cellN \in Cells
  PROVE  /\ FirstCell \in Cells /\ LastCell \in Cells
         /\ FirstCell <= cellN /\ cellN <= LastCell
         /\ Counted \subseteq Cells
         /\ AssertHolds <=> Cell(cellN).block # "in"
<1>1. Cells = 1..Len(chain.cells) /\ Len(chain.cells) \in Nat \ {0} /\ cellN \in Nat
  BY CellNumbers
<1>2. chain.map \in Seq(Nat) /\ DOMAIN chain.map = 1..Len(chain.map) /\ Len(chain.map) \in Nat
  BY ChainFields
<1>3. FirstCell \in Cells /\ FirstCell <= cellN
  BY <1>1, ProgramOfCell DEF FirstCell
<1>4. LastCell \in Cells /\ cellN <= LastCell
  <2>1. CASE pgc_based \/ PgN = Len(chain.map)
    BY <1>1, <2>1 DEF LastCell
  <2>2. CASE ~(pgc_based \/ PgN = Len(chain.map))
    <3>1. PgN < Len(chain.map)
      BY <1>2, <2>2, ProgramOfCell
    <3>2. chain.map[PgN + 1] \in Cells /\ cellN < chain.map[PgN + 1] /\ LastCell = chain.map[PgN + 1] - 1
      BY <2>2, <3>1, ProgramOfCell DEF LastCell
    <3> QED BY <1>1, <3>2
  <2> QED BY <2>1, <2>2
<1>5. FirstCell..LastCell \subseteq Cells /\ cellN \in FirstCell..LastCell
  BY <1>1, <1>3, <1>4
<1> QED BY <1>3, <1>4, <1>5 DEF Counted, AssertHolds

-----------------------------------------------------------------------------
(* Adding up lengths *)

Indices(length) == {0} \cup DOMAIN length
AddedAt(m, length, N) == IF m \in N THEN length[m] ELSE 0
Summed(sum, m, length, N) == IF m = 0 THEN 0 ELSE sum[m - 1] + AddedAt(m, length, N)

(* The loop that adds them ends: the recursive function is one.            *)
LEMMA SumIsFunction ==
  ASSUME NEW L \in Nat, NEW length \in [1..L -> Nat], NEW N
  PROVE  \E g \in [0..L -> Nat] : g = [m \in 0..L |-> Summed(g, m, length, N)]
<1> DEFINE Step(g, m) == Summed(g, m, length, N)
           UpTo(k) == \E g \in [0..L -> Nat] : \A m \in 0..L : m <= k => g[m] = Step(g, m)
           Good == {k \in Nat : UpTo(k)}
<1>1. ASSUME NEW g \in [0..L -> Nat], NEW m \in 0..L
      PROVE  Step(g, m) \in Nat
  <2>1. CASE m = 0
    BY <2>1 DEF Summed
  <2>2. CASE m # 0
    <3>1. m - 1 \in 0..L /\ m \in 1..L
      BY <2>2
    <3>2. g[m - 1] \in Nat /\ length[m] \in Nat
      BY <3>1
    <3> QED BY <2>2, <3>2 DEF Summed, AddedAt
  <2> QED BY <2>1, <2>2
<1>2. 0 \in Good
  <2> DEFINE z == [m \in 0..L |-> 0]
  <2>1. z \in [0..L -> Nat]
    OBVIOUS
  <2>2. \A m \in 0..L : m <= 0 => z[m] = Step(z, m)
    BY DEF Summed
  <2> HIDE DEF z
  <2> QED BY <2>1, <2>2
<1>3. ASSUME NEW k \in Nat, k \in Good PROVE k + 1 \in Good
  <2>1. PICK g \in [0..L -> Nat] : \A m \in 0..L : m <= k => g[m] = Step(g, m)
    BY <1>3
  <2> DEFINE h == [m \in 0..L |-> IF m = k + 1 THEN Step(g, m) ELSE g[m]]
  <2>2. h \in [0..L -> Nat]
    BY <1>1
  <2>3. \A m \in 0..L : h[m] = IF m = k + 1 THEN Step(g, m) ELSE g[m]
    OBVIOUS
  <2> HIDE DEF h
  <2>4. ASSUME NEW m \in 0..L, m <= k + 1 PROVE h[m] = Step(h, m)
    <3>1. m \in Nat /\ (m = 0 \/ (m - 1 \in 0..L /\ m - 1 # k + 1))
      BY <2>4
    <3>2. Step(h, m) = Step(g, m)
      BY <2>3, <3>1 DEF Summed
    <3>3. CASE m = k + 1
      BY <2>3, <3>2, <3>3
    <3>4. CASE m # k + 1
      <4>1. m <= k
        BY <2>4, <3>1, <3>4
      <4> QED BY <2>1, <2>3, <3>2, <3>4, <4>1
    <3> QED BY <3>3, <3>4
  <2>5. UpTo(k + 1)
    BY <2>2, <2>4
  <2> HIDE DEF UpTo
  <2> QED BY <2>5
<1>4. L \in Good
  <2>1. \A k \in Nat : k \in Good
    <3> HIDE DEF Good
    <3> QED BY <1>2, <1>3, Induction
  <2> HIDE DEF Good
  <2> QED BY <2>1
<1>5. PICK g \in [0..L -> Nat] : \A m \in 0..L : m <= L => g[m] = Step(g, m)
  BY <1>4
<1>6. \A m \in 0..L : g[m] = Step(g, m)
  BY <1>5
<1>7. g = [m \in 0..L |-> g[m]]
  OBVIOUS
<1>8. [m \in 0..L |-> g[m]] = [m \in 0..L |-> Step(g, m)]
  BY <1>6, Zenon
<1> QED BY <1>7, <1>8

(* What the sums are.                                                      *)
LEMMA SumsTo ==
  ASSUME NEW L \in Nat, NEW length \in [1..L -> Nat], NEW N
  PROVE  /\ \A k \in 0..L : SumTo(k, length, N) \in Nat
         /\ SumTo(0, length, N) = 0
         /\ \A k \in 1..L : SumTo(k, length, N) = SumTo(k - 1, length, N) + AddedAt(k, length, N)
<1> DEFINE f == CHOOSE g : g = [m \in Indices(length) |-> Summed(g, m, length, N)]
<1>0. Indices(length) = 0..L
  BY DEF Indices
<1>1. PICK g \in [0..L -> Nat] : g = [m \in 0..L |-> Summed(g, m, length, N)]
  BY SumIsFunction
<1>2. f = [m \in 0..L |-> Summed(f, m, length, N)]
  <2>1. g = [m \in Indices(length) |-> Summed(g, m, length, N)]
    BY <1>0, <1>1, Zenon
  <2>2. f = [m \in Indices(length) |-> Summed(f, m, length, N)]
    BY <2>1, Zenon
  <2> HIDE DEF f
  <2> QED BY <1>0, <2>2, Zenon
<1>3. \A m : SumTo(m, length, N) = f[m]
  BY Zenon DEF SumTo, Summed, AddedAt, Indices
<1> HIDE DEF f
<1>4. \A m \in 0..L : f[m] = Summed(f, m, length, N)
  BY <1>2
<1>5. f[0] = 0
  BY <1>4 DEF Summed
<1>6. \A k \in 1..L : f[k] = f[k - 1] + AddedAt(k, length, N)
  <2>1. \A k \in 1..L : k \in 0..L /\ k # 0
    OBVIOUS
  <2> QED BY <1>4, <2>1 DEF Summed
<1>7. \A k \in 1..L : AddedAt(k, length, N) \in Nat
  BY DEF AddedAt
<1> DEFINE Good == {k \in Nat : k \in 0..L => f[k] \in Nat}
<1>8. 0 \in Good
  BY <1>5
<1>9. ASSUME NEW k \in Nat, k \in Good PROVE k + 1 \in Good
  <2> SUFFICES ASSUME k + 1 \in 0..L PROVE f[k + 1] \in Nat
    OBVIOUS
  <2>1. k \in 0..L /\ k + 1 \in 1..L /\ (k + 1) - 1 = k
    OBVIOUS
  <2>2. f[k] \in Nat
    BY <1>9, <2>1
  <2> QED BY <1>6, <1>7, <2>1, <2>2
<1>10. \A k \in Nat : k \in Good
  <2> HIDE DEF Good
  <2> QED BY <1>8, <1>9, Induction
<1>11. \A k \in 0..L : f[k] \in Nat
  BY <1>10
<1> QED BY <1>3, <1>5, <1>6, <1>11

(* The sums before the cells of the chain.                                 *)
Lengths == [Cells -> Nat]
Places == 1..Len(chain.cells) + 1
Added(n, length, N) == IF n \in N THEN length[n] ELSE 0

LEMMA Sums ==
  ASSUME chain \in Chains, NEW length \in Lengths, NEW N
  PROVE  /\ \A m \in Places : SumBefore(m, length, N) \in Nat
         /\ SumBefore(1, length, N) = 0
         /\ \A n \in Cells : SumBefore(n + 1, length, N) = SumBefore(n, length, N) + Added(n, length, N)
<1> DEFINE L == Len(chain.cells)
<1>1. L \in Nat /\ Cells = 1..L
  BY CellNumbers
<1>2. length \in [1..L -> Nat]
  BY <1>1 DEF Lengths
<1>3. /\ \A k \in 0..L : SumTo(k, length, N) \in Nat
      /\ SumTo(0, length, N) = 0
      /\ \A k \in 1..L : SumTo(k, length, N) = SumTo(k - 1, length, N) + AddedAt(k, length, N)
  BY <1>1, <1>2, SumsTo
<1> HIDE DEF L
<1>4. \A m \in Places : m - 1 \in 0..L
  BY <1>1 DEF Places, L
<1>5. 1 - 1 = 0 /\ \A n \in 1..L : (n + 1) - 1 = n
  OBVIOUS
<1>6. \A n \in Cells : SumTo(n, length, N) = SumTo(n - 1, length, N) + Added(n, length, N)
  BY <1>1, <1>3 DEF Added, AddedAt
<1> QED BY <1>1, <1>3, <1>4, <1>5, <1>6 DEF SumBefore

(* It grows, by at least what is counted in between.                       *)
LEMMA SumsGrow ==
  ASSUME chain \in Chains, NEW length \in Lengths, NEW N,
         NEW m \in Places, NEW n \in Places, m <= n
  PROVE  SumBefore(m, length, N) <= SumBefore(n, length, N)
<1> DEFINE S(k) == SumBefore(k, length, N)
           Good == {k \in Nat : m + k \in Places => S(m) <= S(m + k)}
<1>1. Len(chain.cells) \in Nat /\ Cells = 1..Len(chain.cells) /\ m \in Nat /\ n \in Nat
  BY CellNumbers DEF Places
<1>2. \A k \in Places : S(k) \in Nat
  BY Sums
<1>3. \A k \in Cells : S(k + 1) = S(k) + Added(k, length, N)
  BY Sums
<1>4. \A k \in Cells : Added(k, length, N) \in Nat
  BY DEF Added, Lengths
<1> HIDE DEF S
<1>5. 0 \in Good
  BY <1>1, <1>2
<1>6. ASSUME NEW k \in Nat, k \in Good PROVE k + 1 \in Good
  <2> SUFFICES ASSUME m + (k + 1) \in Places PROVE S(m) <= S(m + (k + 1))
    OBVIOUS
  <2>1. m + k \in Places /\ m + k \in Cells /\ (m + k) + 1 = m + (k + 1)
    BY <1>1 DEF Places
  <2>2. S(m) <= S(m + k)
    BY <1>6, <2>1
  <2> QED BY <1>2, <1>3, <1>4, <2>1, <2>2
<1>7. \A k \in Nat : k \in Good
  <2> HIDE DEF Good
  <2> QED BY <1>5, <1>6, Induction
<1>8. n - m \in Nat /\ m + (n - m) = n
  BY <1>1
<1>9. S(m) <= S(n)
  BY <1>7, <1>8
<1> QED BY <1>9 DEF S

(* Two sums that add the same up to a cell are the same there.             *)
LEMMA SumsAgree ==
  ASSUME chain \in Chains, NEW length \in Lengths, NEW N, NEW n \in Places, NEW m \in Places, m <= n,
         \A k \in Cells : m <= k /\ k < n => k \notin N
  PROVE  SumBefore(n, length, N) = SumBefore(m, length, N)
<1> DEFINE S(k) == SumBefore(k, length, N)
           Good == {k \in Nat : m + k <= n => S(m) = S(m + k)}
<1>1. Len(chain.cells) \in Nat /\ Cells = 1..Len(chain.cells) /\ m \in Nat /\ n \in Nat
      /\ n <= Len(chain.cells) + 1 /\ 1 <= m
  BY CellNumbers DEF Places
<1>2. \A k \in Places : S(k) \in Nat
  BY Sums
<1>3. \A k \in Cells : S(k + 1) = S(k) + Added(k, length, N)
  BY Sums
<1>4. \A k \in Cells : m <= k /\ k < n => Added(k, length, N) = 0
  BY DEF Added
<1> HIDE DEF S
<1>5. 0 \in Good
  BY <1>1
<1>6. ASSUME NEW k \in Nat, k \in Good PROVE k + 1 \in Good
  <2> SUFFICES ASSUME m + (k + 1) <= n PROVE S(m) = S(m + (k + 1))
    OBVIOUS
  <2>1. m + k \in Places /\ m + k \in Cells /\ (m + k) + 1 = m + (k + 1) /\ m + k < n /\ m <= m + k
    BY <1>1 DEF Places
  <2>2. S(m) = S(m + k)
    BY <1>1, <1>6, <2>1
  <2> QED BY <1>2, <1>3, <1>4, <2>1, <2>2
<1>7. \A k \in Nat : k \in Good
  <2> HIDE DEF Good
  <2> QED BY <1>5, <1>6, Induction
<1>8. n - m \in Nat /\ m + (n - m) = n /\ m + (n - m) <= n
  BY <1>1
<1>9. S(m) = S(n)
  BY <1>7, <1>8
<1> QED BY <1>9 DEF S

-----------------------------------------------------------------------------
(* The invariant: the machine is in a cell of the chain and the engine in a *)
(* VOBU of it; before the engine has arrived, the machine points into a     *)
(* VOBU, of its own cell outside angle blocks, where a seek that is not     *)
(* announced yet may pass over one; once it has, the time is that of the    *)
(* VOBU unless a search that failed has set it back.                        *)
Heading ==
  ~known =>
    /\ blockN \in Int /\ \E v \in Vobus : InVobu(v, Landing)
    /\ NoBlock => Landing \in Cell(cellN).first..Cell(cellN).last
Timed == known => cur_cell_time = chain.vobus[vobu].time \/ (cur_cell_time = 0 /\ asked # "none")
Seekings ==
  {NotSeeking} \cup [offset : Offsets, origin : {"set", "cur", "end"}, pos : Int, len : Int]
Remembers(s) == s \in Seekings /\ (NoBlock => s.len <= Wrap \div 2)
InStep == known /\ NoBlock => Playing = cellN
IInv ==
  /\ chain \in Chains /\ cellN \in Cells /\ agl \in 1..chain.angles
  /\ pgc_based \in BOOLEAN /\ known \in BOOLEAN
  /\ hop \in BOOLEAN /\ (hop => ~known) /\ chosen \in 1..chain.angles
  /\ vobu \in Vobus /\ ahead \in Nat /\ ahead < Blocks(vobu)
  /\ Remembers(seeking)
  /\ Heading /\ Timed /\ InStep

LEMMA SizesAreLengths ==
  ASSUME chain \in Chains
  PROVE  /\ Size \in Lengths /\ Playtime \in Lengths
         /\ \A n \in Cells : Size[n] = Cell(n).last - Cell(n).first + 1 /\ Size[n] \in Nat \ {0}
<1>1. \A n \in Cells : Cell(n).first \in Nat /\ Cell(n).last \in Nat /\ Cell(n).time \in Nat
                        /\ Cell(n).first <= Cell(n).last
  BY CellFields
<1>2. \A n \in Cells : Cell(n).last - Cell(n).first + 1 \in Nat \ {0}
  BY <1>1
<1>3. \A n \in Cells : Size[n] = Cell(n).last - Cell(n).first + 1
  BY DEF Size
<1>4. Size \in Lengths
  BY <1>2 DEF Size, Lengths
<1>5. Playtime \in Lengths
  BY <1>1 DEF Playtime, Lengths
<1> QED BY <1>2, <1>3, <1>4, <1>5

LEMMA NothingRemembered == Remembers(NotSeeking)
<1>1. Wrap \div 2 \in Nat
  BY WrapAssumption
<1> QED BY <1>1 DEF Remembers, Seekings, NotSeeking

(* Outside angle blocks cells lie apart, in order; so do the sectors that   *)
(* are counted, which the positions therefore never exceed.                 *)
LEMMA CellsApart ==
  ASSUME chain \in Chains, NoBlock, NEW m \in Cells, NEW n \in Cells, m < n
  PROVE  Cell(m).last < Cell(n).first
<1>1. CellsInOrder(chain) /\ DOMAIN chain.cells = Cells
  BY ChainFields DEF Cells
<1>2. Cell(n).block # "in"
  BY DEF NoBlock
<1> QED BY <1>1, <1>2 DEF CellsInOrder, Cell

LEMMA CellOfSector ==
  ASSUME chain \in Chains, NoBlock, NEW m \in Cells, NEW n \in Cells,
         NEW sector \in Int, Cell(m).first <= sector, sector <= Cell(m).last,
         Cell(n).first <= sector, sector <= Cell(n).last
  PROVE  m = n
<1>1. m \in Nat /\ n \in Nat
  BY CellNumbers
<1>2. Cell(m).first \in Nat /\ Cell(m).last \in Nat /\ Cell(n).first \in Nat /\ Cell(n).last \in Nat
  BY CellFields
<1>3. ~(m < n)
  BY <1>2, CellsApart
<1>4. ~(n < m)
  BY <1>2, CellsApart
<1> QED BY <1>1, <1>3, <1>4

LEMMA VobuOfSector ==
  ASSUME chain \in Chains, NoBlock, NEW v \in Vobus, NEW sector \in Int, InVobu(v, sector),
         NEW n \in Cells, Cell(n).first <= sector, sector <= Cell(n).last
  PROVE  chain.vobus[v].cell = n
<1> DEFINE c == chain.vobus[v].cell
<1>1. /\ c \in Cells /\ Start(v) \in Nat /\ Blocks(v) \in Nat /\ Cell(c).first <= Start(v)
      /\ Start(v) + Blocks(v) - 1 <= Cell(c).last
  BY VobuPlaces
<1> HIDE DEF c
<1>2. Cell(c).first \in Nat /\ Cell(c).last \in Nat
  BY <1>1, CellFields
<1>3. Cell(c).first <= sector /\ sector <= Cell(c).last
  BY <1>1, <1>2 DEF InVobu
<1>4. c = n
  BY <1>1, <1>3, CellOfSector
<1> QED BY <1>4 DEF c

(* A sector of a cell is a place the machine may point to.                 *)
LEMMA HeadingIn ==
  ASSUME chain \in Chains, cellN \in Cells, blockN \in Int,
         Landing \in Cell(cellN).first..Cell(cellN).last
  PROVE  Heading
<1>1. \E v \in Vobus : InVobu(v, Landing)
  BY ScanFindsVobu
<1> QED BY <1>1 DEF Heading

(* The VOBU it points to.                                                  *)
LEMMA VobuOfLanding ==
  ASSUME chain \in Chains, cellN \in Cells, Heading, ~known
  PROVE  /\ Landing \in Int /\ VobuAt(Landing) \in Vobus /\ InVobu(VobuAt(Landing), Landing)
         /\ NoBlock => CellOf(VobuAt(Landing)) = cellN
<1>1. Landing \in Int
  BY CellFields DEF Landing, Heading
<1>2. VobuAt(Landing) \in Vobus /\ InVobu(VobuAt(Landing), Landing)
  BY DEF Heading, VobuAt, InVobu
<1>3. ASSUME NoBlock PROVE CellOf(VobuAt(Landing)) = cellN
  <2>1. Cell(cellN).first <= Landing /\ Landing <= Cell(cellN).last
    BY <1>1, <1>3, CellFields DEF Heading
  <2> QED BY <1>1, <1>2, <1>3, <2>1, VobuOfSector DEF CellOf
<1> QED BY <1>1, <1>2, <1>3

LEMMA SectorsFit ==
  ASSUME chain \in Chains, NoBlock, NEW N, NEW n \in Cells
  PROVE  SumBefore(n, Size, N) <= Cell(n).first /\ SumBefore(n + 1, Size, N) <= Cell(n).last + 1
<1> DEFINE S(k) == SumBefore(k, Size, N)
           Good == {k \in Nat : k + 1 \in Cells => S(k + 1) <= Cell(k + 1).first}
<1>1. Cells = 1..Len(chain.cells) /\ Len(chain.cells) \in Nat /\ Size \in Lengths
  BY CellNumbers, SizesAreLengths
<1>2. /\ S(1) = 0 /\ \A k \in Cells : S(k) \in Nat /\ S(k + 1) = S(k) + Added(k, Size, N)
  <2>1. /\ \A k \in Places : S(k) \in Nat
        /\ S(1) = 0
        /\ \A k \in Cells : S(k + 1) = S(k) + Added(k, Size, N)
    BY <1>1, Sums
  <2>2. \A k \in Cells : k \in Places
    BY <1>1 DEF Places
  <2> QED BY <2>1, <2>2
<1>3. \A k \in Cells : Added(k, Size, N) \in Nat /\ Added(k, Size, N) <= Cell(k).last - Cell(k).first + 1
  <2> SUFFICES ASSUME NEW k \in Cells
               PROVE  Added(k, Size, N) \in Nat /\ Added(k, Size, N) <= Cell(k).last - Cell(k).first + 1
    OBVIOUS
  <2>1. Size[k] = Cell(k).last - Cell(k).first + 1 /\ Size[k] \in Nat
    BY SizesAreLengths
  <2>2. Added(k, Size, N) = Size[k] \/ Added(k, Size, N) = 0
    BY DEF Added
  <2> QED BY <2>1, <2>2
<1>4. \A k \in Cells : Cell(k).first \in Nat /\ Cell(k).last \in Nat
  BY CellFields
<1> HIDE DEF S
<1>5. \A k \in Cells : S(k) <= Cell(k).first => S(k + 1) <= Cell(k).last + 1
  <2> SUFFICES ASSUME NEW k \in Cells, S(k) <= Cell(k).first PROVE S(k + 1) <= Cell(k).last + 1
    OBVIOUS
  <2>1. S(k) \in Nat /\ S(k + 1) = S(k) + Added(k, Size, N) /\ Added(k, Size, N) \in Nat
        /\ Added(k, Size, N) <= Cell(k).last - Cell(k).first + 1
    BY <1>2, <1>3
  <2> QED BY <1>4, <2>1
<1>6. 0 \in Good
  BY <1>2, <1>4
<1>7. ASSUME NEW k \in Nat, k \in Good PROVE k + 1 \in Good
  <2> SUFFICES ASSUME (k + 1) + 1 \in Cells PROVE S((k + 1) + 1) <= Cell((k + 1) + 1).first
    OBVIOUS
  <2>1. k + 1 \in Cells /\ k + 1 < (k + 1) + 1
    BY <1>1
  <2>2. S((k + 1) + 1) <= Cell(k + 1).last + 1
    BY <1>5, <1>7, <2>1
  <2>3. Cell(k + 1).last < Cell((k + 1) + 1).first
    BY <2>1, CellsApart
  <2>4. S((k + 1) + 1) \in Nat /\ Cell(k + 1).last \in Nat /\ Cell((k + 1) + 1).first \in Nat
    BY <1>2, <1>4, <2>1
  <2> QED BY <2>2, <2>3, <2>4
<1>8. \A k \in Nat : k \in Good
  <2> HIDE DEF Good
  <2> QED BY <1>6, <1>7, Induction
<1>9. n - 1 \in Nat /\ (n - 1) + 1 = n
  BY <1>1
<1>10. S(n) <= Cell(n).first
  BY <1>8, <1>9
<1>11. S(n + 1) <= Cell(n).last + 1
  BY <1>5, <1>10
<1> QED BY <1>10, <1>11 DEF S

LEMMA LengthFits ==
  ASSUME chain \in Chains, cellN \in Cells, NoBlock
  PROVE  Length <= Wrap \div 2
<1>1. LastCell \in Cells
  BY CountedCells
<1>2. Length <= Cell(LastCell).last + 1
  BY <1>1, SectorsFit DEF Length, Before
<1>3. Cell(LastCell).last < Wrap \div 2 /\ Wrap \div 2 \in Nat
  BY <1>1, WrapAssumption DEF Cell, Cells
<1>4. Cell(LastCell).last \in Nat
  BY <1>1, CellFields
<1>5. Length \in Nat
  <2>1. LastCell + 1 \in Places /\ Size \in Lengths
    BY <1>1, CellNumbers, SizesAreLengths DEF Places
  <2> QED BY <2>1, Sums DEF Length, Before
<1> QED BY <1>2, <1>3, <1>4, <1>5

LEMMA Start0 == Init => IInv
<1> SUFFICES ASSUME Init PROVE IInv
  OBVIOUS
<1>1. chain \in Chains /\ cellN = 1 /\ blockN = 0 /\ agl = 1 /\ vobu = 1 /\ ahead = 0
      /\ pgc_based = FALSE /\ known = FALSE /\ hop = FALSE /\ chosen = 1 /\ seeking = NotSeeking
  BY DEF Init
<1>2. 1 \in Cells
  BY <1>1, CellNumbers
<1>3. 1 \in Vobus /\ Blocks(1) \in Nat \ {0}
  <2>1. Len(chain.vobus) \in Nat \ {0} /\ Vobus = 1..Len(chain.vobus)
    BY <1>1, VobuPlaces
  <2>2. 1 \in Vobus
    BY <2>1
  <2> QED BY <1>1, <2>2, VobuPlaces
<1>4. 1 \in 1..chain.angles
  <2>1. chain.angles \in Nat /\ chain.angles >= 1
    BY <1>1, ChainFields DEF BlocksWhole
  <2> QED BY <2>1
<1>5. Cell(1).first \in Nat /\ Cell(1).last \in Nat /\ Cell(1).first <= Cell(1).last
  BY <1>1, <1>2, CellFields
<1>6. Heading /\ Timed /\ InStep
  <2>1. Landing \in Cell(cellN).first..Cell(cellN).last
    BY <1>1, <1>5 DEF Landing
  <2>2. Heading
    BY <1>1, <1>2, <2>1, HeadingIn
  <2> QED BY <1>1, <2>2 DEF Timed, InStep
<1>7. Remembers(seeking)
  BY <1>1, NothingRemembered
<1>8. ahead \in Nat /\ ahead < Blocks(vobu)
  BY <1>1, <1>3
<1> QED BY <1>1, <1>2, <1>3, <1>4, <1>6, <1>7, <1>8 DEF IInv

(* A place a jump may go to: in a cell of the chain.                       *)
Within(goal) == goal.cell \in Cells /\ goal.sector \in Cell(goal.cell).first..Cell(goal.cell).last

(* Where Goal sends a search: nowhere, or into the chain.                  *)
LEMMA HoldingIsWithin ==
  ASSUME chain \in Chains, cellN \in Cells, NEW length \in Lengths, NEW target \in Int,
         NEW n \in Holding(target, length)
  PROVE  /\ n \in Cells /\ Before(n, length) \in Nat /\ length[n] \in Nat
         /\ Before(n, length) <= target /\ target < Before(n, length) + length[n]
<1>1. n \in Cells /\ Before(n, length) <= target /\ target < Before(n, length) + length[n]
  BY CountedCells DEF Holding
<1>2. n \in Places
  BY <1>1, CellNumbers DEF Places
<1>3. Before(n, length) \in Nat
  BY <1>2, Sums DEF Before
<1>4. length[n] \in Nat
  BY <1>1 DEF Lengths
<1> QED BY <1>1, <1>3, <1>4

LEMMA GoalIsWithin ==
  ASSUME chain \in Chains, cellN \in Cells, NEW target \in Int, NEW forward \in BOOLEAN
  PROVE  Goal(target, forward) = Fails \/ Within(Goal(target, forward))
<1> DEFINE n == CHOOSE n \in Holding(target, Size) : TRUE
           sector == Cell(n).first + target - Before(n, Size)
           next == ScanAdmap(sector, TRUE)
           near == forward /\ n = cellN /\ ScanAdmap(sector, FALSE) <= CurSector
<1>1. Goal(target, forward) =
        CASE Holding(target, Size) = {} -> Fails
          [] Holding(target, Size) # {} /\ ~near -> [cell |-> n, sector |-> sector]
          [] OTHER -> IF next <= Cell(n).last THEN [cell |-> n, sector |-> next]
                      ELSE IF n = LastCell THEN Fails
                      ELSE [cell |-> n + 1, sector |-> Cell(n + 1).first]
  BY Zenon DEF Goal
<1>2. CASE Holding(target, Size) = {}
  <2> HIDE DEF n, sector, next, near
  <2> QED BY <1>1, <1>2
<1>3. CASE Holding(target, Size) # {}
  <2>1. n \in Holding(target, Size)
    BY <1>3
  <2> HIDE DEF n
  <2>2. /\ n \in Cells /\ Before(n, Size) \in Nat /\ Size[n] \in Nat
        /\ Before(n, Size) <= target /\ target < Before(n, Size) + Size[n]
    BY <2>1, HoldingIsWithin, SizesAreLengths
  <2>3. Size[n] = Cell(n).last - Cell(n).first + 1 /\ Cell(n).first \in Nat /\ Cell(n).last \in Nat
    BY <2>2, CellFields, SizesAreLengths
  <2>4. sector \in Cell(n).first..Cell(n).last
    BY <2>2, <2>3
  <2> HIDE DEF sector
  <2>5. next \in Nat /\ next >= Cell(n).first
    <3>1. PICK v \in Vobus :
            /\ InVobu(v, sector) /\ Start(v) >= Cell(n).first
            /\ v < Len(chain.vobus) => next = Start(v + 1)
            /\ v = Len(chain.vobus) => next = Start(v)
      BY <2>2, <2>4, ScanFindsVobu
    <3>2. Len(chain.vobus) \in Nat /\ Vobus = 1..Len(chain.vobus)
      BY VobuPlaces
    <3>3. CASE v < Len(chain.vobus)
      <4>1. v + 1 \in Vobus /\ v <= v + 1
        BY <3>2, <3>3
      <4>2. Start(v) <= Start(v + 1) /\ Start(v) \in Nat /\ Start(v + 1) \in Nat
        BY <4>1, VobusRise
      <4> HIDE DEF next
      <4> QED BY <2>3, <3>1, <3>3, <4>2
    <3>4. CASE v = Len(chain.vobus)
      <4>1. Start(v) \in Nat
        BY VobuPlaces
      <4> QED BY <3>1, <3>4, <4>1
    <3>5. v < Len(chain.vobus) \/ v = Len(chain.vobus)
      BY <3>2
    <3> QED BY <3>3, <3>4, <3>5
  <2> HIDE DEF next
  <2>6. CASE ~near
    <3>1. Goal(target, forward) = [cell |-> n, sector |-> sector]
      BY <1>1, <1>3, <2>6
    <3> QED BY <2>2, <2>4, <3>1 DEF Within
  <2>7. CASE near
    <3> HIDE DEF near
    <3>1. Goal(target, forward) = IF next <= Cell(n).last THEN [cell |-> n, sector |-> next]
                      ELSE IF n = LastCell THEN Fails
                      ELSE [cell |-> n + 1, sector |-> Cell(n + 1).first]
      BY <1>1, <1>3, <2>7
    <3>2. CASE next <= Cell(n).last
      <4>1. Goal(target, forward) = [cell |-> n, sector |-> next]
        BY <3>1, <3>2
      <4>2. next \in Cell(n).first..Cell(n).last
        BY <2>3, <2>5, <3>2
      <4> QED BY <2>2, <4>1, <4>2 DEF Within
    <3>3. CASE ~(next <= Cell(n).last) /\ n # LastCell
      <4>1. Goal(target, forward) = [cell |-> n + 1, sector |-> Cell(n + 1).first]
        BY <3>1, <3>3
      <4>2. n \in FirstCell..LastCell
        BY <2>1 DEF Holding, Counted
      <4>3. LastCell \in Cells /\ Cells = 1..Len(chain.cells) /\ Len(chain.cells) \in Nat
        BY CountedCells, CellNumbers
      <4>4. n + 1 \in Cells
        BY <2>2, <3>3, <4>2, <4>3
      <4>5. Cell(n + 1).first \in Nat /\ Cell(n + 1).last \in Nat /\ Cell(n + 1).first <= Cell(n + 1).last
        BY <4>4, CellFields
      <4>6. Cell(n + 1).first \in Cell(n + 1).first..Cell(n + 1).last
        BY <4>5
      <4> QED BY <4>1, <4>4, <4>6 DEF Within
    <3>4. CASE ~(next <= Cell(n).last) /\ n = LastCell
      BY <3>1, <3>4
    <3> QED BY <3>2, <3>3, <3>4
  <2> QED BY <2>6, <2>7
<1> QED BY <1>2, <1>3

(* A part of a cell's sectors, in proportion to a part of its time.        *)
LEMMA Portion ==
  ASSUME NEW p \in Nat, NEW i \in Nat, i < p, NEW s \in Nat \ {0}
  PROVE  (i * s) \div p \in 0..s - 1
<1> DEFINE q == (i * s) \div p
<1>1. p \in Nat \ {0} /\ i * s \in Nat /\ i * s < p * s
  BY SMTT(30)
<1>2. q \in Nat /\ q * p <= i * s
  BY <1>1, SMTT(30)
<1>3. ~(q >= s)
  <2> HIDE DEF q
  <2> SUFFICES ASSUME q >= s PROVE FALSE
    OBVIOUS
  <2>1. q * p >= s * p
    BY <1>1, <1>2, SMTT(30)
  <2> QED BY <1>1, <1>2, <2>1, SMTT(30)
<1> HIDE DEF q
<1>4. q \in 0..s - 1
  BY <1>2, <1>3
<1> QED BY <1>4 DEF q

LEMMA TimeGoalIsWithin ==
  ASSUME chain \in Chains, cellN \in Cells, NEW t \in Int, NEW n \in Holding(t, Playtime)
  PROVE  Within([cell |-> n,
                 sector |-> Cell(n).first + ((t - Before(n, Playtime)) * Size[n]) \div Playtime[n]])
<1> DEFINE into == t - Before(n, Playtime)
           portion == (into * Size[n]) \div Playtime[n]
<1>1. /\ n \in Cells /\ Before(n, Playtime) \in Nat /\ Playtime[n] \in Nat
      /\ Before(n, Playtime) <= t /\ t < Before(n, Playtime) + Playtime[n]
  BY HoldingIsWithin, SizesAreLengths
<1>2. into \in Nat /\ into < Playtime[n]
  BY <1>1
<1>3. Size[n] = Cell(n).last - Cell(n).first + 1 /\ Size[n] \in Nat \ {0}
      /\ Cell(n).first \in Nat /\ Cell(n).last \in Nat
  BY <1>1, CellFields, SizesAreLengths
<1> HIDE DEF into
<1>4. portion \in 0..Size[n] - 1
  BY <1>1, <1>2, <1>3, Portion
<1> HIDE DEF portion
<1>5. Cell(n).first + portion \in Cell(n).first..Cell(n).last
  BY <1>3, <1>4
<1> USE DEF into, portion
<1> QED BY <1>1, <1>5 DEF Within

(* A jump to a cell arrives in a cell, at a block of it.                   *)
LEMMA EnterArrives ==
  ASSUME chain \in Chains, chain' = chain, NEW n \in Cells, NEW block \in Nat,
         Cell(n).first + block <= Cell(n).last, Enter(n, block)
  PROVE  cellN' \in Cells' /\ known' = FALSE /\ Heading'
<1>1. cellN' = AngleCell(n) /\ blockN' = (IF AngleCell(n) = n THEN block ELSE 0) /\ known' = FALSE
  BY DEF Enter
<1>2. AngleCell(n) \in Cells
  BY DEF AngleCell
<1>3. Cells' = Cells /\ Cell(cellN)' = Cell(cellN') /\ Landing' = Cell(cellN').first + blockN'
  BY DEF Cells, Cell, Landing
<1>4. blockN' \in Nat
  BY <1>1
<1>5. Cell(cellN').first + blockN' <= Cell(cellN').last
  <2>1. CASE AngleCell(n) = n
    BY <1>1, <2>1
  <2>2. CASE AngleCell(n) # n
    <3>1. Cell(AngleCell(n)).first \in Nat /\ Cell(AngleCell(n)).first <= Cell(AngleCell(n)).last
      BY <1>2, CellFields
    <3> QED BY <1>1, <2>2, <3>1
  <2> QED BY <2>1, <2>2
<1>6. Landing' \in Cell(cellN').first..Cell(cellN').last
  BY <1>1, <1>2, <1>3, <1>4, <1>5, CellFields
<1>7. \E v \in Vobus : InVobu(v, Landing')
  BY <1>1, <1>2, <1>6, ScanFindsVobu
<1>8. \A v \in Vobus : InVobu(v, Landing') <=> InVobu(v, Landing)'
  BY DEF InVobu, Start, Blocks
<1>9. Vobus' = Vobus
  BY DEF Vobus
<1>10. Heading'
  BY <1>3, <1>4, <1>6, <1>7, <1>8, <1>9 DEF Heading
<1> QED BY <1>1, <1>2, <1>3, <1>10

LEMMA SeekKeeps ==
  ASSUME IInv, NEW goal, goal = Fails \/ Within(goal), Seek(goal),
         UNCHANGED <<chain, agl, pgc_based, engine>>, Remembers(seeking')
  PROVE  IInv'
<1>1. /\ chain \in Chains /\ cellN \in Cells /\ agl \in 1..chain.angles
      /\ pgc_based \in BOOLEAN /\ known \in BOOLEAN
      /\ hop \in BOOLEAN /\ (hop => ~known) /\ chosen \in 1..chain.angles
      /\ vobu \in Vobus /\ ahead \in Nat /\ ahead < Blocks(vobu) /\ Heading /\ InStep
  BY DEF IInv
<1>2. chain' = chain /\ agl' = agl /\ pgc_based' = pgc_based /\ vobu' = vobu /\ ahead' = ahead
      /\ cur_cell_time' = 0
  BY DEF engine, Seek
<1>3. Cells' = Cells /\ Vobus' = Vobus /\ Blocks(vobu)' = Blocks(vobu)
  BY <1>2 DEF Cells, Vobus, Blocks, Start
<1>4. /\ cellN' \in Cells' /\ known' \in BOOLEAN /\ Heading' /\ (known' => asked' # "none") /\ InStep'
      /\ hop' \in BOOLEAN /\ (hop' => ~known') /\ chosen' \in 1..chain.angles
  <2>1. CASE goal = Fails
    <3>1. cellN' = cellN /\ blockN' = blockN /\ known' = known /\ hop' = hop /\ chosen' = chosen
          /\ asked' = "error"
      BY <2>1 DEF Seek, vm
    <3>2. Heading' /\ InStep'
      BY <1>1, <1>2, <3>1 DEF Heading, Landing, InVobu, Vobus, Start, Blocks, InStep, NoBlock, Playing,
         CellOf, Cells, Cell
    <3> QED BY <1>1, <1>3, <3>1, <3>2
  <2>2. CASE goal # Fails
    <3> DEFINE block == ScanAdmap(goal.sector, FALSE) - Cell(goal.cell).first
    <3>1. Enter(goal.cell, block) /\ Within(goal)
      BY <2>2 DEF Seek
    <3>2. goal.cell \in Cells /\ goal.sector \in Cell(goal.cell).first..Cell(goal.cell).last
      BY <3>1 DEF Within
    <3>3. PICK v \in Vobus : InVobu(v, goal.sector) /\ Start(v) >= Cell(goal.cell).first
                            /\ ScanAdmap(goal.sector, FALSE) = Start(v)
      BY <1>1, <3>2, ScanFindsVobu
    <3>4. Start(v) \in Nat /\ Cell(goal.cell).first \in Nat /\ Cell(goal.cell).last \in Nat
      BY <1>1, <3>2, VobuPlaces, CellFields
    <3>5. block \in Nat /\ Cell(goal.cell).first + block <= Cell(goal.cell).last
      <4>1. goal.sector \in Int /\ goal.sector <= Cell(goal.cell).last
        BY <3>2, <3>4
      <4>2. Start(v) <= goal.sector /\ block = Start(v) - Cell(goal.cell).first
        BY <3>3 DEF InVobu
      <4>3. Start(v) >= Cell(goal.cell).first
        BY <3>3
      <4> HIDE DEF block
      <4> QED BY <3>4, <4>1, <4>2, <4>3
    <3> HIDE DEF block
    <3>6. cellN' \in Cells' /\ known' = FALSE /\ Heading'
      BY <1>1, <1>2, <3>1, <3>2, <3>5, EnterArrives
    <3>7. hop' = TRUE /\ chosen' = agl
      BY <2>2, <3>1 DEF Seek, Enter
    <3> QED BY <1>1, <3>6, <3>7 DEF InStep
  <2> QED BY <2>1, <2>2
<1>5. Timed' /\ Remembers(seeking)'
  BY <1>2, <1>4 DEF Timed, Remembers, NoBlock, Cells, Cell
<1> QED BY <1>1, <1>2, <1>3, <1>4, <1>5 DEF IInv

(* The engine reads the NAV packet of a VOBU of the chain.                 *)
LEMMA ReadKeeps ==
  ASSUME IInv, NEW v \in Vobus, NoBlock => chain.vobus[v].cell = cellN, ReadVobu(v),
         known' = TRUE, hop = FALSE, UNCHANGED <<chain, cellN, agl, pgc_based, hop, seeking>>
  PROVE  IInv'
<1>1. /\ chain \in Chains /\ cellN \in Cells /\ agl \in 1..chain.angles
      /\ pgc_based \in BOOLEAN /\ Remembers(seeking)
  BY DEF IInv
<1>2. vobu' = v /\ ahead' = 0 /\ chosen' = agl /\ cur_cell_time' = chain.vobus[v].time
  BY DEF ReadVobu
<1>3. Cells' = Cells /\ Vobus' = Vobus /\ Blocks(vobu)' = Blocks(v)
  BY <1>2 DEF Cells, Vobus, Blocks, Start
<1>4. Blocks(v) \in Nat \ {0}
  BY <1>1, VobuPlaces
<1>5. Heading' /\ Timed' /\ InStep' /\ Remembers(seeking)'
  BY <1>1, <1>2 DEF Heading, Timed, InStep, Remembers, NoBlock, Playing, CellOf, Cells, Cell
<1>6. ahead' \in Nat /\ ahead' < Blocks(v)
  BY <1>2, <1>4
<1> QED BY <1>1, <1>2, <1>3, <1>5, <1>6 DEF IInv

(* The VOBU behind one, whatever the angle: outside angle blocks it is one  *)
(* of the same cell.                                                       *)
LEMMA FollowedStays ==
  ASSUME chain \in Chains, NEW v \in Vobus, NEW a, NEW w \in Followed(v, a)
  PROVE  w \in Vobus /\ (NoBlock => CellOf(w) = CellOf(v))
<1>1. w \in Vobus
  BY DEF Followed, VobusOf
<1>2. ASSUME NoBlock PROVE CellOf(w) = CellOf(v)
  <2>1. CellOf(v) \in Cells
    BY VobuPlaces DEF CellOf
  <2>2. Cell(CellOf(v)).block = "none"
    BY <1>2, <2>1 DEF NoBlock
  <2>3. w \in VobusOf(CellOf(v))
    BY <2>2 DEF Followed
  <2> QED BY <2>3 DEF VobusOf, CellOf
<1> QED BY <1>1, <1>2

(* The engine announces a seek, and passes over a VOBU if it must.         *)
LEMMA HopKeeps ==
  ASSUME IInv, Hop
  PROVE  IInv'
<1> DEFINE v == VobuAt(Landing)
           W == IF Followed(v, agl) = {} THEN {v} ELSE Followed(v, agl)
<1>1. /\ chain \in Chains /\ cellN \in Cells /\ agl \in 1..chain.angles
      /\ pgc_based \in BOOLEAN /\ Remembers(seeking) /\ hop = TRUE /\ known = FALSE
      /\ chosen \in 1..chain.angles /\ Heading
  BY DEF IInv, Hop
<1>2. /\ UNCHANGED <<chain, cellN, agl, pgc_based, known, cur_cell_time, seeking, asked>>
      /\ hop' = FALSE /\ vobu' = v /\ ahead' = 0
      /\ \/ blockN' = blockN /\ chosen' = chosen
         \/ chosen' = agl /\ \E w \in W : blockN' = Start(w) - Cell(cellN).first
  BY DEF Hop
<1>3. v \in Vobus /\ (NoBlock => CellOf(v) = cellN)
  BY <1>1, VobuOfLanding
<1> HIDE DEF v
<1>4. Cells' = Cells /\ Vobus' = Vobus /\ Blocks(vobu)' = Blocks(v)
  BY <1>2 DEF Cells, Vobus, Blocks, Start
<1>5. ahead' \in Nat /\ ahead' < Blocks(v)
  BY <1>1, <1>2, <1>3, VobuPlaces
<1>6. Timed' /\ InStep' /\ Remembers(seeking)' /\ chosen' \in 1..chain.angles
  BY <1>1, <1>2 DEF Timed, InStep, Remembers, NoBlock, Cells, Cell
<1>7. Heading'
  <2>1. CASE blockN' = blockN
    BY <1>1, <1>2, <2>1 DEF Heading, Landing, InVobu, Vobus, Start, Blocks, NoBlock, Cells, Cell
  <2>2. ASSUME NEW w \in W, blockN' = Start(w) - Cell(cellN).first PROVE Heading'
    <3>1. w \in Vobus /\ (NoBlock => CellOf(w) = cellN)
      BY <1>1, <1>3, FollowedStays
    <3>2. /\ Start(w) \in Nat /\ Blocks(w) \in Nat \ {0} /\ CellOf(w) \in Cells
          /\ Cell(CellOf(w)).first <= Start(w) /\ Start(w) + Blocks(w) - 1 <= Cell(CellOf(w)).last
      BY <1>1, <3>1, VobuPlaces DEF CellOf
    <3>3. Cell(cellN).first \in Nat /\ Cell(cellN).last \in Nat
      BY <1>1, CellFields
    <3>4. blockN' \in Int /\ Landing' = Start(w)
      <4>1. Landing' = Cell(cellN).first + blockN'
        BY <1>2 DEF Landing, Cell
      <4> QED BY <2>2, <3>2, <3>3, <4>1
    <3>5. InVobu(w, Start(w)) /\ (InVobu(w, Start(w)) <=> InVobu(w, Landing)')
      BY <1>2, <3>2, <3>4 DEF InVobu, Start, Blocks
    <3>6. ASSUME NoBlock PROVE Landing' \in Cell(cellN).first..Cell(cellN).last
      BY <3>1, <3>2, <3>3, <3>4, <3>6
    <3>7. Cell(cellN)' = Cell(cellN) /\ NoBlock' = NoBlock
      BY <1>2 DEF Cell, Cells, NoBlock
    <3> QED BY <1>4, <3>1, <3>4, <3>5, <3>6, <3>7 DEF Heading
  <2> QED BY <1>2, <2>1, <2>2
<1> QED BY <1>1, <1>2, <1>3, <1>4, <1>5, <1>6, <1>7 DEF IInv

(* The steps that leave machine and engine where they are.                 *)
LEMMA StaysKeeps ==
  ASSUME IInv, UNCHANGED <<chain, cellN, blockN, known, hop, chosen, vobu, cur_cell_time>>,
         agl' \in 1..chain.angles, pgc_based' \in BOOLEAN, Remembers(seeking'),
         ahead' \in Nat, ahead' < Blocks(vobu), asked' = asked \/ asked' # "none"
  PROVE  IInv'
<1>1. /\ chain \in Chains /\ cellN \in Cells /\ known \in BOOLEAN
      /\ hop \in BOOLEAN /\ (hop => ~known) /\ chosen \in 1..chain.angles
      /\ vobu \in Vobus /\ Heading /\ Timed /\ InStep
  BY DEF IInv
<1>2. Cells' = Cells /\ Vobus' = Vobus /\ Blocks(vobu)' = Blocks(vobu)
  BY DEF Cells, Vobus, Blocks, Start
<1>3. Heading' /\ Timed' /\ InStep' /\ Remembers(seeking)'
  BY <1>1 DEF Heading, Landing, InVobu, Vobus, Start, Blocks, Timed, InStep, Remembers, NoBlock,
     Playing, CellOf, Cells, Cell
<1> QED BY <1>1, <1>2, <1>3 DEF IInv

LEMMA PositionIsNumber ==
  ASSUME IInv
  PROVE  Position \in Int /\ Length \in Int
<1>1. chain \in Chains /\ cellN \in Cells /\ vobu \in Vobus /\ ahead \in Nat
  BY DEF IInv
<1>2. LastCell \in Cells /\ Size \in Lengths
  BY <1>1, CountedCells, SizesAreLengths
<1>3. cellN \in Places /\ LastCell + 1 \in Places
  BY <1>1, <1>2, CellNumbers DEF Places
<1>4. Before(cellN, Size) \in Nat /\ Before(LastCell + 1, Size) \in Nat
  BY <1>1, <1>2, <1>3, Sums DEF Before
<1>5. Start(vobu) \in Nat /\ Cell(cellN).first \in Nat
  BY <1>1, VobuPlaces, CellFields
<1> QED BY <1>1, <1>4, <1>5 DEF Position, Length, CurSector

LEMMA TargetIsNumber ==
  ASSUME NEW s \in Seekings, s # NotSeeking
  PROVE  Target(s) \in Int
<1>0. Offsets \subseteq Int
  BY RequestsAssumption
<1>1. s.offset \in Int /\ s.pos \in Int /\ s.len \in Int /\ s.origin \in {"set", "cur", "end"}
  BY <1>0 DEF Seekings
<1>2. Wrap \in Nat \ {0}
  BY WrapAssumption
<1>3. \A k \in Int : k % Wrap \in Int
  BY <1>2
<1>4. CASE s.origin = "set"
  <2>1. Target(s) = IF s.offset >= s.len THEN Refused ELSE s.offset % Wrap
    BY <1>4 DEF Target
  <2> QED BY <1>1, <1>3, <2>1 DEF Refused
<1>5. CASE s.origin = "cur"
  <2>1. Target(s) = IF s.pos + s.offset >= s.len \/ s.pos + s.offset < 0 THEN Refused
                    ELSE s.pos + s.offset
    BY <1>5 DEF Target
  <2> QED BY <1>1, <2>1 DEF Refused
<1>6. CASE s.origin = "end"
  <2>1. Target(s) = IF s.len < s.offset THEN Refused ELSE (s.len - s.offset) % Wrap
    BY <1>6 DEF Target
  <2>2. s.len - s.offset \in Int
    BY <1>1
  <2> QED BY <1>3, <2>1, <2>2 DEF Refused
<1> QED BY <1>1, <1>4, <1>5, <1>6

LEMMA Steps == IInv /\ [Next]_vars => IInv'
<1> SUFFICES ASSUME IInv, [Next]_vars PROVE IInv'
  OBVIOUS
<1>0. /\ chain \in Chains /\ cellN \in Cells /\ agl \in 1..chain.angles
      /\ pgc_based \in BOOLEAN /\ known \in BOOLEAN
      /\ hop \in BOOLEAN /\ (hop => ~known) /\ chosen \in 1..chain.angles
      /\ vobu \in Vobus /\ ahead \in Nat /\ ahead < Blocks(vobu)
      /\ Remembers(seeking) /\ Heading /\ InStep
  BY DEF IInv
<1>00. Blocks(vobu) \in Nat /\ chain.angles \in Nat
  BY <1>0, VobuPlaces, ChainFields
<1>1. CASE \E t \in Times : TimeSearch(t)
  <2>1. PICK t \in Times : TimeSearch(t)
    BY <1>1
  <2> DEFINE found == Holding(t, Playtime)
             n == CHOOSE n \in found : TRUE
             goal == IF found = {} THEN Fails
                     ELSE [cell |-> n,
                           sector |-> Cell(n).first + ((t - Before(n, Playtime)) * Size[n]) \div Playtime[n]]
  <2>2. Seek(goal) /\ UNCHANGED <<chain, agl, pgc_based, engine, seeking>>
    BY <2>1 DEF TimeSearch
  <2>3. goal = Fails \/ Within(goal)
    <3>1. CASE found = {}
      BY <3>1
    <3>2. CASE found # {}
      <4>1. n \in found /\ t \in Int
        BY <3>2, RequestsAssumption
      <4>2. goal = [cell |-> n,
                    sector |-> Cell(n).first + ((t - Before(n, Playtime)) * Size[n]) \div Playtime[n]]
        BY <3>2
      <4> HIDE DEF n, goal
      <4> QED BY <1>0, <4>1, <4>2, TimeGoalIsWithin
    <3> QED BY <3>1, <3>2
  <2> HIDE DEF goal
  <2>4. Remembers(seeking')
    BY <1>0, <2>2
  <2> QED BY <2>2, <2>3, <2>4, SeekKeeps
<1>2. CASE \E o \in Offsets, origin \in {"set", "cur", "end"} : SectorSearch(o, origin)
  <2>1. PICK o \in Offsets, origin \in {"set", "cur", "end"} : SectorSearch(o, origin)
    BY <1>2
  <2>2. UNCHANGED <<chain, agl, pgc_based, vobu, ahead, cellN, blockN, known, hop, chosen, cur_cell_time>>
    BY <2>1 DEF SectorSearch, vm, engine
  <2>3. Remembers(seeking') /\ (asked' = asked \/ asked' # "none")
    <3>1. CASE known /\ AssertHolds
      <4>1. seeking' = [offset |-> o, origin |-> origin, pos |-> Position, len |-> Length] /\ asked' = asked
        BY <2>1, <3>1 DEF SectorSearch
      <4>2. seeking' \in Seekings
        BY <4>1, PositionIsNumber DEF Seekings
      <4>3. NoBlock => Length <= Wrap \div 2
        BY <1>0, LengthFits
      <4> QED BY <4>1, <4>2, <4>3 DEF Remembers
    <3>2. CASE ~(known /\ AssertHolds)
      <4>1. seeking' = seeking /\ asked' = IF known THEN "assertion" ELSE "error"
        BY <2>1, <3>2 DEF SectorSearch
      <4> QED BY <1>0, <4>1
    <3> QED BY <3>1, <3>2
  <2> QED BY <1>0, <2>2, <2>3, StaysKeeps
<1>3. CASE SectorJump
  <2> DEFINE target == Target(seeking)
  <2>1. seeking # NotSeeking /\ Remembers(seeking') /\ UNCHANGED <<chain, agl, pgc_based, engine>>
    BY <1>3, NothingRemembered DEF SectorJump
  <2>2. CASE target = Refused
    <3>1. asked' = "refused" /\ UNCHANGED <<cellN, blockN, known, hop, chosen, vobu, ahead, cur_cell_time>>
      BY <1>3, <2>1, <2>2 DEF SectorJump, vm, engine
    <3> QED BY <1>0, <2>1, <3>1, StaysKeeps
  <2>3. CASE target # Refused
    <3>1. Seek(Goal(target, target > seeking.pos))
      BY <1>3, <2>3 DEF SectorJump
    <3>2. target \in Int /\ (target > seeking.pos) \in BOOLEAN
      BY <1>0, <2>1, TargetIsNumber DEF Remembers
    <3> HIDE DEF target
    <3>3. Goal(target, target > seeking.pos) = Fails \/ Within(Goal(target, target > seeking.pos))
      BY <1>0, <3>2, GoalIsWithin
    <3> QED BY <2>1, <3>1, <3>3, SeekKeeps
  <2> QED BY <2>2, <2>3
<1>4. CASE \E a \in Angles : AngleChange(a)
  <2>1. agl' \in 1..chain.angles
        /\ UNCHANGED <<chain, cellN, blockN, known, hop, chosen, vobu, ahead, cur_cell_time, pgc_based, seeking, asked>>
    BY <1>4 DEF AngleChange, vm, engine
  <2> QED BY <1>0, <2>1, StaysKeeps
<1>5. CASE SetPgcBased
  <2>1. pgc_based' \in BOOLEAN
        /\ UNCHANGED <<chain, cellN, blockN, known, hop, chosen, vobu, ahead, cur_cell_time, agl, seeking, asked>>
    BY <1>5 DEF SetPgcBased, vm, engine
  <2> QED BY <1>0, <2>1, StaysKeeps
<1>6. CASE Arrive
  <2>1. ReadVobu(VobuAt(Landing)) /\ UNCHANGED <<chain, cellN, agl, pgc_based, hop, seeking>>
        /\ ~known /\ ~hop /\ known' = TRUE
    BY <1>6 DEF Arrive
  <2>2. VobuAt(Landing) \in Vobus /\ (NoBlock => CellOf(VobuAt(Landing)) = cellN)
    BY <1>0, <2>1, VobuOfLanding
  <2> QED BY <1>0, <2>1, <2>2, ReadKeeps DEF CellOf
<1>7. CASE ReadBlock
  <2>1. ahead' = ahead + 1 /\ ahead + 1 < Blocks(vobu)
        /\ UNCHANGED <<chain, cellN, blockN, known, hop, chosen, vobu, cur_cell_time, agl, pgc_based, seeking, asked>>
    BY <1>7 DEF ReadBlock, vm
  <2>2. ahead' \in Nat /\ ahead' < Blocks(vobu)
    BY <1>0, <1>00, <2>1
  <2> QED BY <1>0, <2>1, <2>2, StaysKeeps
<1>8. CASE NextVobu
  <2>1. PICK v \in Followed(vobu, chosen) : ReadVobu(v)
    BY <1>8 DEF NextVobu
  <2>2. v \in Vobus
    BY DEF Followed, VobusOf
  <2>3. UNCHANGED <<chain, cellN, agl, pgc_based, known, hop, seeking>> /\ known
    BY <1>8 DEF NextVobu
  <2>4. ASSUME NoBlock PROVE chain.vobus[v].cell = cellN
    <3>1. Playing = cellN /\ CellOf(vobu) = cellN
      BY <1>0, <2>3, <2>4 DEF InStep, Playing
    <3> QED BY <1>0, <2>1, <2>4, <3>1, FollowedStays DEF CellOf
  <2> QED BY <1>0, <2>1, <2>2, <2>3, <2>4, ReadKeeps
<1>9. CASE NextCell
  <2> DEFINE n == CHOOSE n \in Following : \A m \in Following : n <= m
  <2>1. Enter(n, 0) /\ Following # {} /\ UNCHANGED <<chain, agl, pgc_based, hop, vobu, ahead, seeking>>
        /\ known /\ chosen' = agl
    BY <1>9 DEF NextCell, engine, Enter
  <2>2. n \in Cells
    <3>1. Following \in SUBSET Nat
      BY <1>0, CellNumbers DEF Following
    <3>2. n \in Following
      BY <2>1, <3>1, LeastNatural
    <3> QED BY <3>2 DEF Following
  <2> HIDE DEF n
  <2>3. Cell(n).first + 0 <= Cell(n).last
    BY <1>0, <2>2, CellFields
  <2>4. cellN' \in Cells' /\ known' = FALSE /\ Heading'
    BY <1>0, <2>1, <2>2, <2>3, EnterArrives
  <2>5. Timed' /\ InStep' /\ Remembers(seeking)'
    BY <1>0, <2>1, <2>4 DEF Timed, InStep, Remembers, NoBlock, Cells, Cell
  <2>6. Vobus' = Vobus /\ Blocks(vobu)' = Blocks(vobu)
    BY <2>1 DEF Vobus, Blocks, Start
  <2> QED BY <1>0, <2>1, <2>4, <2>5, <2>6 DEF IInv
<1>10. CASE UNCHANGED vars
  <2>1. UNCHANGED <<chain, cellN, blockN, known, hop, chosen, vobu, ahead, cur_cell_time, agl, pgc_based, seeking, asked>>
    BY <1>10 DEF vars
  <2> QED BY <1>0, <2>1, StaysKeeps
<1>11. CASE Hop
  BY <1>11, HopKeeps
<1> QED
  BY <1>1, <1>2, <1>3, <1>4, <1>5, <1>6, <1>7, <1>8, <1>9, <1>10, <1>11 DEF Next

LEMMA Invariance == Spec => []IInv
<1> QED BY Start0, Steps, PTL DEF Spec

-----------------------------------------------------------------------------
(* Positions *)

(* dvdnav_get_position: while the engine is in the cell the machine names,  *)
(* the sectors counted before it and those read of it stay below the length *)
(* of the program or chain; its assertion fails in the cells of the other   *)
(* angles and in no other.                                                  *)
THEOREM PositionIsWithin == Spec => []PositionWithin
<1>1. IInv => PositionWithin
  <2> SUFFICES ASSUME IInv PROVE PositionWithin
    OBVIOUS
  <2>1. chain \in Chains /\ cellN \in Cells /\ vobu \in Vobus /\ ahead \in Nat /\ ahead < Blocks(vobu)
    BY DEF IInv
  <2>2. AssertHolds <=> Cell(cellN).block # "in"
    BY <2>1, CountedCells
  <2>3. ASSUME AssertHolds, Playing = cellN PROVE Position \in 0..Length - 1
    <3> DEFINE B(n) == SumBefore(n, Size, Counted)
    <3>1. /\ Start(vobu) \in Nat /\ Blocks(vobu) \in Nat
          /\ Cell(cellN).first <= Start(vobu)
          /\ Start(vobu) + Blocks(vobu) - 1 <= Cell(cellN).last
      BY <2>1, <2>3, VobuPlaces DEF Playing, CellOf
    <3>2. Cell(cellN).first \in Nat /\ Cell(cellN).last \in Nat
      BY <2>1, CellFields
    <3>3. CurSector - Cell(cellN).first \in 0..Size[cellN] - 1
      <4>1. Size[cellN] = Cell(cellN).last - Cell(cellN).first + 1
        BY <2>1, SizesAreLengths
      <4>2. CurSector = Start(vobu) + ahead
        BY DEF CurSector
      <4> QED BY <2>1, <3>1, <3>2, <4>1, <4>2
    <3>4. LastCell \in Cells /\ cellN <= LastCell /\ Size \in Lengths /\ Cells = 1..Len(chain.cells)
          /\ Len(chain.cells) \in Nat
      BY <2>1, CountedCells, SizesAreLengths, CellNumbers
    <3>5. cellN \in Places /\ cellN + 1 \in Places /\ LastCell + 1 \in Places /\ cellN + 1 <= LastCell + 1
      BY <2>1, <3>4 DEF Places
    <3>6. B(cellN) \in Nat /\ B(cellN + 1) \in Nat /\ B(LastCell + 1) \in Nat
      BY <2>1, <3>4, <3>5, Sums
    <3>7. B(cellN + 1) <= B(LastCell + 1)
      BY <2>1, <3>4, <3>5, SumsGrow
    <3>8. B(cellN + 1) = B(cellN) + Size[cellN]
      <4>1. B(cellN + 1) = B(cellN) + Added(cellN, Size, Counted)
        BY <2>1, <3>4, Sums
      <4>2. Added(cellN, Size, Counted) = Size[cellN]
        BY <2>3 DEF AssertHolds, Added
      <4> QED BY <4>1, <4>2
    <3>9. Position = B(cellN) + CurSector - Cell(cellN).first /\ Length = B(LastCell + 1)
      BY DEF Position, Length, Before
    <3>10. Size[cellN] \in Nat /\ CurSector \in Nat
      BY <2>1, <3>1, SizesAreLengths DEF CurSector
    <3> HIDE DEF B
    <3> QED BY <3>2, <3>3, <3>6, <3>7, <3>8, <3>9, <3>10
  <2> QED BY <2>2, <2>3 DEF PositionWithin
<1> QED BY <1>1, Invariance, PTL

-----------------------------------------------------------------------------
(* Angle blocks and times *)

(* The cell a block begins with.                                           *)
BeginsBlock(f, n) == Cell(f).block # "in" /\ \A k \in f + 1..n : Cell(k).block = "in"

LEMMA BlockOfCell ==
  ASSUME chain \in Chains, NEW n \in Cells
  PROVE  /\ BlockOf(n) \in Cells /\ BlockOf(n) <= n /\ BeginsBlock(BlockOf(n), n)
         /\ \A g \in 1..n : BeginsBlock(g, n) => BlockOf(n) = g
         /\ Cell(n).block # "in" => BlockOf(n) = n
         /\ Cell(n).block # "none" => Cell(BlockOf(n)).block = "first"
<1>1. Cells = 1..Len(chain.cells) /\ Len(chain.cells) \in Nat /\ DOMAIN chain.cells = Cells
  BY CellNumbers DEF Cells
<1>2. n \in Nat /\ n \in 1..n /\ 1..n \subseteq Cells
  BY <1>1
<1>3. ASSUME Cell(n).block # "in" PROVE BeginsBlock(n, n)
  BY <1>2, <1>3 DEF BeginsBlock
<1>4. ASSUME Cell(n).block = "in"
      PROVE  \E f \in 1..n : BeginsBlock(f, n) /\ Cell(f).block = "first"
  <2>1. BlocksWhole(chain)
    BY ChainFields
  <2>2. PICK f \in 1..n - 1 : Cell(f).block = "first" /\ \A k \in f + 1..n : Cell(k).block = "in"
    BY <1>1, <1>4, <2>1 DEF BlocksWhole, Cell
  <2>3. f \in 1..n
    BY <1>2
  <2> QED BY <2>2, <2>3 DEF BeginsBlock
<1>5. ASSUME NEW f \in 1..n, NEW g \in 1..n, BeginsBlock(f, n), BeginsBlock(g, n) PROVE f = g
  <2>1. ~(f < g)
    <3> SUFFICES ASSUME f < g PROVE FALSE
      OBVIOUS
    <3>1. g \in f + 1..n
      BY <1>2
    <3> QED BY <1>5, <3>1 DEF BeginsBlock
  <2>2. ~(g < f)
    <3> SUFFICES ASSUME g < f PROVE FALSE
      OBVIOUS
    <3>1. f \in g + 1..n
      BY <1>2
    <3> QED BY <1>5, <3>1 DEF BeginsBlock
  <2> QED BY <1>2, <2>1, <2>2
<1>6. BlockOf(n) \in 1..n /\ BeginsBlock(BlockOf(n), n)
  <2>1. \E f \in 1..n : BeginsBlock(f, n)
    BY <1>2, <1>3, <1>4
  <2> QED BY <2>1 DEF BlockOf, BeginsBlock
<1>7. \A g \in 1..n : BeginsBlock(g, n) => BlockOf(n) = g
  BY <1>5, <1>6
<1>8. Cell(n).block # "in" => BlockOf(n) = n
  BY <1>2, <1>3, <1>7
<1>9. Cell(n).block # "none" => Cell(BlockOf(n)).block = "first"
  <2>1. CASE Cell(n).block = "in"
    BY <1>4, <1>7, <2>1
  <2>2. CASE Cell(n).block # "in"
    BY <1>8, <2>2, CellFields
  <2> QED BY <2>1, <2>2
<1> QED BY <1>2, <1>6, <1>7, <1>8, <1>9

(* The cell of an angle in the block of a cell.                            *)
LEMMA AngleOfBlock ==
  ASSUME chain \in Chains, NEW n \in Cells, Cell(n).block # "none", NEW a \in 1..chain.angles
  PROVE  LET m == BlockOf(n) + a - 1
         IN  m \in Cells /\ Cell(m).block # "none" /\ BlockOf(m) = BlockOf(n)
<1> DEFINE f == BlockOf(n)
           m == f + a - 1
<1>1. f \in Cells /\ Cell(f).block = "first"
  BY BlockOfCell
<1>2. Cells = 1..Len(chain.cells) /\ Len(chain.cells) \in Nat /\ DOMAIN chain.cells = Cells
      /\ chain.angles \in Nat /\ BlocksWhole(chain)
  BY CellNumbers, ChainFields DEF Cells
<1> HIDE DEF f
<1>3. \A b \in 2..chain.angles : f + b - 1 \in Cells /\ Cell(f + b - 1).block = "in"
  BY <1>1, <1>2 DEF BlocksWhole, Cell
<1>4. f \in Nat /\ a \in Nat /\ m \in Nat /\ f <= m /\ 1 <= f
  BY <1>1, <1>2
<1>5. a = 1 \/ a \in 2..chain.angles
  BY <1>2
<1>6. m \in Cells /\ Cell(m).block # "none"
  <2>1. CASE a = 1
    <3>1. m = f
      BY <1>4, <2>1
    <3> QED BY <1>1, <3>1
  <2>2. CASE a \in 2..chain.angles
    BY <1>3, <2>2
  <2> QED BY <1>5, <2>1, <2>2
<1>7. BeginsBlock(f, m)
  <2>1. ASSUME NEW k \in f + 1..m PROVE Cell(k).block = "in"
    <3> DEFINE b == k - f + 1
    <3>1. b \in 2..chain.angles /\ f + b - 1 = k
      BY <1>2, <1>4
    <3> HIDE DEF b
    <3> QED BY <1>3, <3>1
  <2>2. Cell(f).block # "in"
    BY <1>1
  <2> QED BY <2>1, <2>2 DEF BeginsBlock
<1>8. f \in 1..m
  BY <1>4
<1> HIDE DEF m
<1>9. BlockOf(m) = f
  BY <1>6, <1>7, <1>8, BlockOfCell
<1> USE DEF m, f
<1> QED BY <1>6, <1>9

(* dvdnav_get_current_time: outside the cells of other angles it is the     *)
(* time at which the VOBU that plays begins, and in those cells too late by *)
(* the length of the block; a search that failed, and nothing else, sets    *)
(* it back to the start of the cell.                                        *)
THEOREM TimeIsReported == Spec => []TimeReported
<1>1. IInv => TimeReported
  <2> SUFFICES ASSUME IInv, known PROVE VobuTime + Twice - CurrentTime \in {0} \cup Lost
    BY DEF TimeReported
  <2> DEFINE f == BlockOf(cellN)
             S(n) == SumBefore(n, Playtime, Outer)
             t == chain.vobus[vobu].time
  <2>1. chain \in Chains /\ cellN \in Cells /\ vobu \in Vobus /\ Timed
    BY DEF IInv
  <2>2. f \in Cells /\ f <= cellN /\ BeginsBlock(f, cellN) /\ (Cell(cellN).block # "in" => f = cellN)
    BY <2>1, BlockOfCell
  <2>3. Playtime \in Lengths /\ Cells = 1..Len(chain.cells) /\ Len(chain.cells) \in Nat
    BY <2>1, SizesAreLengths, CellNumbers
  <2> HIDE DEF f
  <2>4. f \in Places /\ f + 1 \in Places /\ cellN \in Places /\ f \in Nat /\ cellN \in Nat
    BY <2>1, <2>2, <2>3 DEF Places
  <2>5. S(f) \in Nat /\ S(cellN) \in Nat /\ Playtime[f] \in Nat /\ t \in Nat
    BY <2>1, <2>2, <2>3, <2>4, Sums, VobuPlaces DEF Lengths
  <2>6. S(cellN) = S(f) + Twice /\ Twice \in Nat
    <3>1. CASE Cell(cellN).block # "in"
      BY <2>2, <2>5, <3>1 DEF Twice
    <3>2. CASE Cell(cellN).block = "in"
      <4>1. f # cellN
        BY <2>2, <3>2 DEF BeginsBlock
      <4>2. f + 1 <= cellN
        BY <2>2, <2>4, <4>1
      <4>3. \A k \in Cells : f + 1 <= k /\ k < cellN => k \notin Outer
        <5> SUFFICES ASSUME NEW k \in Cells, f + 1 <= k, k < cellN PROVE Cell(k).block = "in"
          BY DEF Outer
        <5>1. k \in f + 1..cellN
          BY <2>3, <2>4
        <5> QED BY <2>2, <5>1 DEF BeginsBlock
      <4>4. S(cellN) = S(f + 1)
        BY <2>1, <2>3, <2>4, <4>2, <4>3, SumsAgree
      <4>5. S(f + 1) = S(f) + Added(f, Playtime, Outer)
        BY <2>1, <2>2, <2>3, Sums
      <4>6. Added(f, Playtime, Outer) = Playtime[f]
        BY <2>2 DEF Added, Outer, BeginsBlock
      <4>7. Twice = Playtime[f]
        BY <3>2 DEF Twice, f
      <4> QED BY <2>5, <4>4, <4>5, <4>6, <4>7
    <3> QED BY <3>1, <3>2
  <2>7. VobuTime = S(f) + t
    BY DEF VobuTime, f
  <2>8. CurrentTime = S(cellN) + cur_cell_time
    BY DEF CurrentTime
  <2>9. cur_cell_time = t \/ (cur_cell_time = 0 /\ asked # "none")
    BY <2>1 DEF Timed
  <2> HIDE DEF S, t
  <2>10. CASE cur_cell_time = t
    <3>1. VobuTime + Twice - CurrentTime = 0
      BY <2>5, <2>6, <2>7, <2>8, <2>10
    <3> QED BY <3>1
  <2>11. CASE cur_cell_time = 0 /\ asked # "none"
    <3>1. VobuTime + Twice - CurrentTime = t
      BY <2>5, <2>6, <2>7, <2>8, <2>11
    <3>2. t \in Lost
      BY <2>11 DEF Lost, t
    <3> QED BY <3>1, <3>2
  <2> QED BY <2>9, <2>10, <2>11
<1> QED BY <1>1, Invariance, PTL

(* What the blocks and the angle followed are does not depend on where the *)
(* machine and the engine are.                                             *)
LEMMA SameChain ==
  ASSUME chain' = chain
  PROVE  /\ \A n : BlockOf(n)' = BlockOf(n) /\ CellOf(n)' = CellOf(n) /\ Cell(n)' = Cell(n)
         /\ \A v, a : Followed(v, a)' = Followed(v, a)
         /\ \A v, sector : InVobu(v, sector)' <=> InVobu(v, sector)
<1>1. \A n : BlockOf(n)' = BlockOf(n)
  BY DEF BlockOf, Cell
<1>2. \A v : Rank(v)' = Rank(v)
  BY DEF Rank, VobusOf, CellOf, Vobus
<1>3. \A n : SameBlock(n)' = SameBlock(n) /\ VobusOf(n)' = VobusOf(n)
  BY <1>1 DEF SameBlock, VobusOf, Vobus, Cells, Cell
<1>4. \A n : CellOf(n)' = CellOf(n) /\ Cell(n)' = Cell(n)
  BY DEF CellOf, Cell
<1>5. \A v, a : Followed(v, a)' = Followed(v, a)
  <2> HIDE DEF Rank, BlockOf
  <2> QED BY <1>1, <1>2, <1>3, <1>4 DEF Followed
<1>6. \A v, sector : InVobu(v, sector)' <=> InVobu(v, sector)
  BY DEF InVobu, Start, Blocks
<1> QED BY <1>1, <1>4, <1>5, <1>6

(* A VOBU that is followed is of the angle asked for.                      *)
LEMMA FollowedAngle ==
  ASSUME chain \in Chains, NEW v \in Vobus, NEW a \in 1..chain.angles, NEW w \in Followed(v, a),
         Cell(CellOf(w)).block # "none"
  PROVE  CellOf(w) = BlockOf(CellOf(w)) + a - 1
<1> DEFINE p == CellOf(v)
           m == BlockOf(p) + a - 1
           n == IF Cell(p).block # "none" /\ m \in SameBlock(p) THEN m ELSE p
<1>1. w \in VobusOf(n)
  BY DEF Followed
<1>2. CellOf(w) = n
  BY <1>1 DEF VobusOf, CellOf
<1>3. p \in Cells
  BY VobuPlaces DEF CellOf
<1>4. Cell(p).block # "none"
  BY <1>2
<1> HIDE DEF p
<1>5. m \in Cells /\ Cell(m).block # "none" /\ BlockOf(m) = BlockOf(p)
  BY <1>3, <1>4, AngleOfBlock
<1>6. m \in SameBlock(p)
  BY <1>4, <1>5 DEF SameBlock
<1>7. CellOf(w) = m
  BY <1>2, <1>4, <1>6
<1> QED BY <1>5, <1>7

(* Before the engine arrives, and when it has announced a seek, the machine *)
(* points to a VOBU of the angle chosen, or to one that has none behind it. *)
OfAngle(v, a) == Cell(CellOf(v)).block # "none" => CellOf(v) = BlockOf(CellOf(v)) + a - 1
Last(v, a) == v = vobu /\ Followed(v, a) = {}
Aimed ==
  ~known /\ ~hop /\ chain.angles > 1 =>
    \A v \in Vobus : InVobu(v, Landing) => OfAngle(v, chosen) \/ Last(v, chosen)

(* The VOBU at the start of a cell is of that cell.                        *)
LEMMA FirstOfCell ==
  ASSUME chain \in Chains, NEW n \in Cells, NEW v \in Vobus, InVobu(v, Cell(n).first)
  PROVE  CellOf(v) = n
<1>1. PICK w \in Vobus : chain.vobus[w].cell = n /\ Start(w) = Cell(n).first
  BY VobuPlaces
<1>2. Blocks(w) \in Nat \ {0} /\ Start(w) \in Nat
  BY VobuPlaces
<1>3. InVobu(w, Cell(n).first)
  BY <1>1, <1>2 DEF InVobu
<1>4. v = w
  BY <1>1, <1>2, <1>3, OneVobu
<1> QED BY <1>1, <1>4 DEF CellOf

LEMMA AimedAtFirst == Init => Aimed
<1> SUFFICES ASSUME Init, NEW v \in Vobus, InVobu(v, Landing) PROVE OfAngle(v, chosen)
  BY DEF Aimed
<1>1. chain \in Chains /\ cellN = 1 /\ blockN = 0 /\ chosen = 1 /\ 1 \in Cells
  BY CellNumbers DEF Init
<1>2. Landing = Cell(1).first
  BY <1>1, CellFields DEF Landing
<1>3. CellOf(v) = 1
  BY <1>1, <1>2, FirstOfCell
<1>4. BlockOf(1) = 1
  <2>1. BlockOf(1) \in Cells /\ BlockOf(1) <= 1 /\ Cells = 1..Len(chain.cells)
    BY <1>1, BlockOfCell, CellNumbers
  <2> QED BY <2>1
<1> QED BY <1>1, <1>3, <1>4 DEF OfAngle

(* A cell that is jumped to, at its start, is the one of the angle.        *)
LEMMA EnterAims ==
  ASSUME chain \in Chains, chain' = chain, agl \in 1..chain.angles, NEW n \in Cells,
         Cell(n).block # "in", Enter(n, 0)
  PROVE  Aimed'
<1>1. cellN' = AngleCell(n) /\ blockN' = 0 /\ chosen' = agl /\ AngleCell(n) \in Cells
  BY DEF Enter, AngleCell
<1>2. Landing' = Cell(AngleCell(n)).first
  <2>1. Landing' = Cell(cellN').first + blockN'
    BY DEF Landing, Cell
  <2> QED BY <1>1, <2>1, CellFields
<1>3. ASSUME NEW v \in Vobus, InVobu(v, Landing') PROVE OfAngle(v, agl)
  <2>1. CellOf(v) = AngleCell(n)
    BY <1>1, <1>2, <1>3, FirstOfCell
  <2>2. CASE Cell(n).block = "none"
    <3>1. AngleCell(n) = n
      BY <2>2 DEF AngleCell
    <3> QED BY <2>1, <2>2, <3>1 DEF OfAngle
  <2>3. CASE Cell(n).block # "none"
    <3>1. Cell(n).block = "first" /\ BlockOf(n) = n
      BY <2>3, BlockOfCell, CellFields
    <3>2. LET m == n + agl - 1 IN m \in Cells /\ Cell(m).block # "none" /\ BlockOf(m) = n
      BY <2>3, <3>1, AngleOfBlock
    <3>3. AngleCell(n) = n + agl - 1
      BY <3>1, <3>2 DEF AngleCell
    <3> QED BY <2>1, <3>2, <3>3 DEF OfAngle
  <2> QED BY <2>2, <2>3
<1>4. \A v \in Vobus : InVobu(v, Landing)' => OfAngle(v, chosen)'
  <2>1. \A v : (InVobu(v, Landing)' <=> InVobu(v, Landing')) /\ (OfAngle(v, chosen)' <=> OfAngle(v, agl))
    BY <1>1, SameChain DEF InVobu, Start, Blocks, OfAngle
  <2> QED BY <1>3, <2>1
<1>5. Vobus' = Vobus
  BY DEF Vobus
<1> QED BY <1>4, <1>5 DEF Aimed

(* A seek that is announced aims at the VOBU it passes on to.              *)
LEMMA HopAims ==
  ASSUME IInv, Hop, chain.angles > 1
  PROVE  Aimed'
<1> DEFINE v == VobuAt(Landing)
           W == IF Followed(v, agl) = {} THEN {v} ELSE Followed(v, agl)
<1>1. /\ chain \in Chains /\ cellN \in Cells /\ agl \in 1..chain.angles /\ Heading /\ ~known
      /\ chain' = chain /\ cellN' = cellN /\ chosen' = agl /\ vobu' = v
  BY ChainFields DEF IInv, Hop
<1>2. PICK w \in W : blockN' = Start(w) - Cell(cellN).first
  BY ChainFields DEF IInv, Hop
<1>3. v \in Vobus
  BY <1>1, VobuOfLanding
<1> HIDE DEF v
<1>4. w \in Vobus
  BY <1>1, <1>3, FollowedStays
<1>5. Landing' = Start(w) /\ InVobu(w, Start(w)) /\ Start(w) \in Int
  <2>1. Landing' = Cell(cellN).first + blockN'
    BY <1>1 DEF Landing, Cell
  <2>2. Start(w) \in Nat /\ Blocks(w) \in Nat \ {0} /\ Cell(cellN).first \in Nat
    BY <1>1, <1>4, VobuPlaces, CellFields
  <2> QED BY <1>2, <2>1, <2>2 DEF InVobu
<1>6. OfAngle(w, agl) \/ (w = v /\ Followed(v, agl) = {})
  <2>1. CASE Followed(v, agl) = {}
    BY <2>1
  <2>2. CASE Followed(v, agl) # {}
    BY <1>1, <1>3, <2>2, FollowedAngle DEF OfAngle
  <2> QED BY <2>1, <2>2
<1>7. \A u \in Vobus : InVobu(u, Landing') => u = w
  BY <1>1, <1>4, <1>5, OneVobu
<1>8. \A u : /\ InVobu(u, Landing)' <=> InVobu(u, Landing')
             /\ OfAngle(u, chosen)' <=> OfAngle(u, agl)
             /\ Last(u, chosen)' <=> u = v /\ Followed(u, agl) = {}
  <2>1. \A u : Followed(u, chosen)' = Followed(u, agl)
    BY <1>1, SameChain
  <2> QED BY <1>1, <2>1, SameChain DEF InVobu, Start, Blocks, OfAngle, Last
<1>9. Vobus' = Vobus
  BY <1>1 DEF Vobus
<1> QED BY <1>6, <1>7, <1>8, <1>9 DEF Aimed

LEMMA AimKept ==
  ASSUME Aimed, UNCHANGED <<chain, cellN, blockN, known, hop, chosen, vobu>>
  PROVE  Aimed'
<1>1. \A v : Followed(v, chosen)' = Followed(v, chosen)
  BY SameChain
<1>2. \A v : /\ InVobu(v, Landing)' <=> InVobu(v, Landing)
             /\ OfAngle(v, chosen)' <=> OfAngle(v, chosen)
             /\ Last(v, chosen)' <=> Last(v, chosen)
  BY <1>1, SameChain DEF InVobu, Start, Blocks, Landing, Cell, OfAngle, Last
<1> QED BY <1>2 DEF Aimed, Vobus

LEMMA StaysAimed == IInv /\ Aimed /\ [Next]_vars => Aimed'
<1> SUFFICES ASSUME IInv, Aimed, [Next]_vars PROVE Aimed'
  OBVIOUS
<1>0. chain \in Chains /\ agl \in 1..chain.angles /\ chain.angles \in Nat /\ chain.angles >= 1
  BY ChainFields DEF IInv, BlocksWhole
<1>1. ASSUME NEW goal, Seek(goal), UNCHANGED <<chain, vobu>> PROVE Aimed'
  <2>1. CASE goal = Fails
    <3>1. UNCHANGED <<chain, cellN, blockN, known, hop, chosen, vobu>>
      BY <1>1, <2>1 DEF Seek, vm
    <3> QED BY <3>1, AimKept
  <2>2. CASE goal # Fails
    BY <1>1, <2>2 DEF Seek, Aimed
  <2> QED BY <2>1, <2>2
<1>2. CASE \E t \in Times : TimeSearch(t)
  BY <1>1, <1>2 DEF TimeSearch, engine
<1>3. CASE SectorJump
  <2>1. UNCHANGED <<chain, vobu>>
    BY <1>3 DEF SectorJump, engine
  <2>2. CASE Target(seeking) = Refused
    <3>1. UNCHANGED <<chain, cellN, blockN, known, hop, chosen, vobu>>
      BY <1>3, <2>1, <2>2 DEF SectorJump, vm
    <3> QED BY <3>1, AimKept
  <2>3. CASE Target(seeking) # Refused
    BY <1>1, <1>3, <2>1, <2>3 DEF SectorJump
  <2> QED BY <2>2, <2>3
<1>4. CASE Hop
  <2>1. CASE chain.angles > 1
    BY <1>4, <2>1, HopAims
  <2>2. CASE ~(chain.angles > 1)
    <3>1. chain' = chain
      BY <1>4 DEF Hop
    <3> QED BY <2>2, <3>1 DEF Aimed
  <2> QED BY <2>1, <2>2
<1>5. CASE Arrive \/ NextVobu \/ ReadBlock
  <2>1. known'
    BY <1>5 DEF Arrive, NextVobu, ReadBlock, vm
  <2> QED BY <2>1 DEF Aimed
<1>6. CASE NextCell
  <2> DEFINE n == CHOOSE n \in Following : \A m \in Following : n <= m
  <2>1. Enter(n, 0) /\ Following # {} /\ chain' = chain
    BY <1>6 DEF NextCell
  <2>2. n \in Following
    <3>1. Following \in SUBSET Nat
      BY <1>0, CellNumbers DEF Following
    <3> QED BY <2>1, <3>1, LeastNatural
  <2> HIDE DEF n
  <2>3. n \in Cells /\ Cell(n).block # "in"
    BY <2>2 DEF Following
  <2> QED BY <1>0, <2>1, <2>3, EnterAims
<1>7. CASE \E o \in Offsets, origin \in {"set", "cur", "end"} : SectorSearch(o, origin)
  <2>1. UNCHANGED <<chain, cellN, blockN, known, hop, chosen, vobu>>
    BY <1>7 DEF SectorSearch, vm, engine
  <2> QED BY <2>1, AimKept
<1>8. CASE (\E a \in Angles : AngleChange(a)) \/ SetPgcBased \/ UNCHANGED vars
  <2>1. UNCHANGED <<chain, cellN, blockN, known, hop, chosen, vobu>>
    BY <1>8 DEF AngleChange, SetPgcBased, vars, vm, engine
  <2> QED BY <2>1, AimKept
<1>9. CASE Arrive
  BY <1>5, <1>9
<1>10. CASE NextVobu
  BY <1>5, <1>10
<1>11. CASE ReadBlock
  BY <1>5, <1>11
<1>12. CASE \E a \in Angles : AngleChange(a)
  BY <1>8, <1>12
<1> QED BY <1>2, <1>3, <1>4, <1>6, <1>7, <1>8, <1>9, <1>10, <1>11, <1>12 DEF Next

(* dvdnav_get_next_cache_block, dvdnav_get_vobu and dvdnav_angle_change:    *)
(* however the angle is changed and wherever a search goes, the engine that *)
(* enters a VOBU of an angle block, in a title of several angles, enters    *)
(* one of the angle that was selected when it worked out where to go next.  *)
(* It passes over the VOBU a search led to; only when there is none behind  *)
(* that does it play it, whichever its angle.                               *)
THEOREM AngleIsFollowed == Spec => AngleFollowed
<1> DEFINE Follows ==
      (vobu' # vobu \/ ~known) /\ known' /\ chain.angles > 1 /\ Cell(Playing').block # "none" =>
        \/ Playing' = BlockOf(Playing') + chosen - 1
        \/ ~known /\ vobu' = vobu /\ Followed(vobu, chosen) = {}
<1>1. Init => IInv /\ Aimed
  BY Start0, AimedAtFirst
<1>2. IInv /\ Aimed /\ [Next]_vars => (IInv /\ Aimed)'
  BY Steps, StaysAimed
<1>3. IInv /\ Aimed /\ [Next]_vars => [Follows]_vars
  <2> SUFFICES ASSUME IInv, Aimed, Next, vobu' # vobu \/ ~known, known', chain.angles > 1,
                      Cell(Playing').block # "none"
               PROVE  \/ Playing' = BlockOf(Playing') + chosen - 1
                      \/ ~known /\ vobu' = vobu /\ Followed(vobu, chosen) = {}
    OBVIOUS
  <2>1. /\ chain \in Chains /\ cellN \in Cells /\ vobu \in Vobus /\ Heading
        /\ known \in BOOLEAN /\ chosen \in 1..chain.angles
    BY DEF IInv
  <2>2. CASE Arrive
    <3> DEFINE v == VobuAt(Landing)
    <3>1. ~known /\ ~hop /\ vobu' = v /\ chain' = chain
      BY <2>2 DEF Arrive, ReadVobu
    <3>2. v \in Vobus /\ InVobu(v, Landing)
      BY <2>1, <3>1, VobuOfLanding
    <3> HIDE DEF v
    <3>3. OfAngle(v, chosen) \/ Last(v, chosen)
      BY <3>1, <3>2 DEF Aimed
    <3>4. Playing' = CellOf(v)
      BY <3>1 DEF Playing, CellOf
    <3> QED BY <3>1, <3>3, <3>4 DEF OfAngle, Last
  <2>3. CASE NextVobu
    <3>1. PICK v \in Followed(vobu, chosen) : vobu' = v /\ chain' = chain
      BY <2>3 DEF NextVobu, ReadVobu
    <3>2. Playing' = CellOf(v)
      BY <3>1 DEF Playing, CellOf
    <3> QED BY <2>1, <3>2, FollowedAngle
  <2>4. Arrive \/ NextVobu
    <3>1. CASE known
      BY <3>1 DEF Next, TimeSearch, SectorSearch, SectorJump, AngleChange, SetPgcBased, Hop, ReadBlock,
             NextCell, Enter, engine, IInv
    <3>2. CASE ~known
      BY <3>2 DEF Next, TimeSearch, SectorSearch, SectorJump, AngleChange, SetPgcBased, Hop, ReadBlock,
             NextCell, Seek, Enter, vm
    <3> QED BY <3>1, <3>2
  <2> QED BY <2>2, <2>3, <2>4
<1>4. [][Follows]_vars <=> AngleFollowed
  BY DEF AngleFollowed
<1> QED BY <1>1, <1>2, <1>3, <1>4, PTL DEF Spec

-----------------------------------------------------------------------------
(* Sector searches *)

Below(sector) == {r \in Sectors : r < sector}

LEMMA CountedWithoutBlocks ==
  ASSUME chain \in Chains, cellN \in Cells, NoBlock
  PROVE  /\ Counted = FirstCell..LastCell /\ Counted \subseteq Cells
         /\ \A r \in Sectors : \E m \in Counted : r \in Cell(m).first..Cell(m).last
         /\ \A m \in Counted : Cell(m).first..Cell(m).last \subseteq Sectors
         /\ Sectors \subseteq Nat
<1>1. Counted \subseteq Cells /\ FirstCell \in Cells /\ LastCell \in Cells
  BY CountedCells
<1>2. FirstCell..LastCell \subseteq Cells
  BY <1>1, CellNumbers
<1>3. Counted = FirstCell..LastCell
  BY <1>2 DEF Counted, NoBlock
<1>4. /\ \A r \in Sectors : \E m \in Counted : r \in Cell(m).first..Cell(m).last
      /\ \A m \in Counted : Cell(m).first..Cell(m).last \subseteq Sectors
  BY DEF Sectors
<1>5. \A m \in Counted : Cell(m).first \in Nat /\ Cell(m).last \in Nat
  BY <1>1, CellFields
<1>6. Sectors \subseteq Nat
  BY <1>4, <1>5
<1> QED BY <1>1, <1>3, <1>4, <1>6

(* The sectors in front of a counted cell are as many as the loop adds up.  *)
LEMMA SectorsBelow ==
  ASSUME chain \in Chains, cellN \in Cells, NoBlock, NEW n \in Counted
  PROVE  IsFiniteSet(Below(Cell(n).first)) /\ Cardinality(Below(Cell(n).first)) = Before(n, Size)
<1> DEFINE Right(m) == IsFiniteSet(Below(Cell(m).first))
                       /\ Cardinality(Below(Cell(m).first)) = Before(m, Size)
           Good == {k \in Nat : FirstCell + k \in Counted => Right(FirstCell + k)}
<1>1. /\ Counted = FirstCell..LastCell /\ Counted \subseteq Cells
      /\ \A r \in Sectors : \E m \in Counted : r \in Cell(m).first..Cell(m).last
      /\ \A m \in Counted : Cell(m).first..Cell(m).last \subseteq Sectors
      /\ Sectors \subseteq Nat
  BY CountedWithoutBlocks
<1>2. FirstCell \in Nat /\ LastCell \in Nat /\ FirstCell <= LastCell /\ FirstCell \in Counted
      /\ FirstCell \in Places /\ 1 \in Places /\ 1 <= FirstCell
      /\ Cells = 1..Len(chain.cells) /\ Len(chain.cells) \in Nat
  <2>1. FirstCell \in Cells /\ LastCell \in Cells /\ FirstCell <= cellN /\ cellN <= LastCell
    BY CountedCells
  <2>2. Cells = 1..Len(chain.cells) /\ Len(chain.cells) \in Nat
    BY CellNumbers
  <2>3. FirstCell \in Nat /\ LastCell \in Nat /\ FirstCell <= LastCell
    BY <2>1, <2>2
  <2>4. FirstCell \in Places /\ 1 \in Places /\ 1 <= FirstCell
    BY <2>1, <2>2 DEF Places
  <2> QED BY <1>1, <2>2, <2>3, <2>4
<1>3. Size \in Lengths
  BY SizesAreLengths
<1>4. \A m \in Counted : Cell(m).first \in Nat /\ Cell(m).last \in Nat /\ Cell(m).first <= Cell(m).last
  BY <1>1, CellFields
<1>5. Right(FirstCell)
  <2>1. Below(Cell(FirstCell).first) = {}
    <3> SUFFICES ASSUME NEW r \in Sectors, r < Cell(FirstCell).first PROVE FALSE
      BY DEF Below
    <3>1. PICK m \in Counted : r \in Cell(m).first..Cell(m).last
      BY <1>1
    <3>2. m = FirstCell \/ FirstCell < m
      BY <1>1, <1>2
    <3>3. FirstCell < m => Cell(FirstCell).last < Cell(m).first
      BY <1>1, <1>2, CellsApart
    <3> QED BY <1>2, <1>4, <3>1, <3>2, <3>3
  <2>2. Before(FirstCell, Size) = 0
    <3>1. \A k \in Cells : 1 <= k /\ k < FirstCell => k \notin Counted
      BY <1>1, <1>2
    <3>2. SumBefore(FirstCell, Size, Counted) = SumBefore(1, Size, Counted)
      BY <1>2, <1>3, <3>1, SumsAgree
    <3>3. SumBefore(1, Size, Counted) = 0
      BY <1>3, Sums
    <3> QED BY <3>2, <3>3 DEF Before
  <2> QED BY <2>1, <2>2, FS_EmptySet
<1>6. 0 \in Good
  <2>1. FirstCell + 0 = FirstCell
    BY <1>2
  <2> HIDE DEF Right
  <2> QED BY <1>5, <2>1
<1>7. ASSUME NEW k \in Nat, k \in Good PROVE k + 1 \in Good
  <2> DEFINE m == FirstCell + k
  <2> SUFFICES ASSUME m + 1 \in Counted PROVE Right(m + 1)
    <3>1. FirstCell + (k + 1) = m + 1
      BY <1>2
    <3> HIDE DEF Right, m
    <3> QED BY <3>1
  <2>1. m \in Counted /\ m \in Nat
    BY <1>1, <1>2
  <2>2. Right(m)
    BY <1>7, <2>1
  <2> HIDE DEF m
  <2>3. Cell(m).last < Cell(m + 1).first
    BY <1>1, <2>1, CellsApart
  <2>4. Below(Cell(m + 1).first) = Below(Cell(m).first) \cup Cell(m).first..Cell(m).last
    <3>1. ASSUME NEW r \in Sectors, r < Cell(m + 1).first
          PROVE  r < Cell(m).first \/ r \in Cell(m).first..Cell(m).last
      <4>1. PICK j \in Counted : r \in Cell(j).first..Cell(j).last
        BY <1>1
      <4>2. j < m \/ j = m \/ j = m + 1 \/ m + 1 < j
        BY <1>1, <1>2, <2>1
      <4>3. j < m => Cell(j).last < Cell(m).first
        BY <1>1, <2>1, CellsApart
      <4>4. m + 1 < j => Cell(m + 1).last < Cell(j).first
        BY <1>1, CellsApart
      <4> QED BY <1>4, <2>1, <3>1, <4>1, <4>2, <4>3, <4>4
    <3>2. Cell(m).first..Cell(m).last \subseteq Sectors
      BY <1>1, <2>1
    <3>3. \A r \in Cell(m).first..Cell(m).last : r < Cell(m + 1).first
      BY <1>4, <2>1, <2>3
    <3>4. \A r \in Sectors : r < Cell(m).first => r < Cell(m + 1).first
      BY <1>1, <1>4, <2>1, <2>3
    <3> QED BY <3>1, <3>2, <3>3, <3>4 DEF Below
  <2>5. Below(Cell(m).first) \cap (Cell(m).first..Cell(m).last) = {}
    BY <1>1, <1>4, <2>1 DEF Below
  <2>6. IsFiniteSet(Cell(m).first..Cell(m).last) /\ Cardinality(Cell(m).first..Cell(m).last) = Size[m]
    <3>1. Cell(m).first \in Int /\ Cell(m).last \in Int /\ ~(Cell(m).first > Cell(m).last)
      BY <1>4, <2>1
    <3>2. IsFiniteSet(Cell(m).first..Cell(m).last)
          /\ Cardinality(Cell(m).first..Cell(m).last) = Cell(m).last - Cell(m).first + 1
      BY <3>1, FS_Interval
    <3> QED BY <1>1, <2>1, <3>2, SizesAreLengths
  <2>7. IsFiniteSet(Below(Cell(m + 1).first))
        /\ Cardinality(Below(Cell(m + 1).first)) = Cardinality(Below(Cell(m).first)) + Size[m] - Cardinality({})
    BY <2>2, <2>4, <2>5, <2>6, FS_Union
  <2>8. Before(m + 1, Size) = Before(m, Size) + Size[m]
    <3>1. SumBefore(m + 1, Size, Counted) = SumBefore(m, Size, Counted) + Added(m, Size, Counted)
      BY <1>1, <1>3, <2>1, Sums
    <3> QED BY <2>1, <3>1 DEF Before, Added
  <2>9. Cardinality({}) = 0 /\ Size[m] \in Nat /\ Before(m, Size) \in Nat
    <3>1. m \in Cells /\ m \in Places
      BY <1>1, <1>2, <2>1 DEF Places
    <3> QED BY <1>3, <3>1, Sums, SizesAreLengths, FS_EmptySet DEF Before
  <2>10. Cardinality(Below(Cell(m + 1).first)) = Before(m + 1, Size)
    BY <2>2, <2>7, <2>8, <2>9
  <2> QED BY <2>7, <2>10
<1>8. \A k \in Nat : k \in Good
  <2> HIDE DEF Good
  <2> QED BY <1>6, <1>7, Induction
<1>9. n - FirstCell \in Nat /\ FirstCell + (n - FirstCell) = n
  BY <1>1, <1>2
<1>10. Right(n)
  <2> HIDE DEF Right
  <2> QED BY <1>8, <1>9
<1> QED BY <1>10

(* The sector a search computes is the one its target asks for.            *)
LEMMA WantedSector ==
  ASSUME chain \in Chains, cellN \in Cells, NoBlock, NEW n \in Counted,
         NEW sector \in Cell(n).first..Cell(n).last
  PROVE  Wanted(Before(n, Size) + (sector - Cell(n).first)) = sector
<1> DEFINE target == Before(n, Size) + (sector - Cell(n).first)
<1>1. /\ n \in Cells /\ sector \in Sectors /\ Sectors \subseteq Nat
      /\ \A r \in Sectors : \E m \in Counted : r \in Cell(m).first..Cell(m).last
      /\ \A m \in Counted : Cell(m).first..Cell(m).last \subseteq Sectors
  BY CountedWithoutBlocks
<1>2. ASSUME NEW m \in Counted, NEW s \in Cell(m).first..Cell(m).last
      PROVE  /\ IsFiniteSet(Below(s)) /\ s \in Sectors
             /\ Cardinality(Below(s)) = Before(m, Size) + (s - Cell(m).first)
  <2>1. m \in Cells /\ Cell(m).first..Cell(m).last \subseteq Sectors
    BY <1>1, CountedWithoutBlocks
  <2>2. Cell(m).first \in Nat /\ Cell(m).last \in Nat /\ s \in Nat /\ Cell(m).first <= s /\ s <= Cell(m).last
    BY <2>1, CellFields
  <2>3. Below(s) = Below(Cell(m).first) \cup Cell(m).first..s - 1
    <3>1. Cell(m).first..s - 1 \subseteq Cell(m).first..Cell(m).last
      BY <2>2
    <3>2. \A r \in Sectors : r < s <=> r < Cell(m).first \/ r \in Cell(m).first..s - 1
      BY <1>1, <2>2
    <3> QED BY <2>1, <3>1, <3>2 DEF Below
  <2>4. Below(Cell(m).first) \cap (Cell(m).first..s - 1) = {}
    BY <1>1, <2>2 DEF Below
  <2>5. IsFiniteSet(Cell(m).first..s - 1) /\ Cardinality(Cell(m).first..s - 1) = s - Cell(m).first
    <3>1. s - 1 \in Int /\ Cell(m).first \in Int
      BY <2>2
    <3>2. IsFiniteSet(Cell(m).first..s - 1)
          /\ Cardinality(Cell(m).first..s - 1) = IF Cell(m).first > s - 1 THEN 0 ELSE (s - 1) - Cell(m).first + 1
      BY <3>1, FS_Interval
    <3> QED BY <2>2, <3>2
  <2>6. IsFiniteSet(Below(Cell(m).first)) /\ Cardinality(Below(Cell(m).first)) = Before(m, Size)
    BY SectorsBelow
  <2>7. IsFiniteSet(Below(s))
        /\ Cardinality(Below(s)) = Before(m, Size) + (s - Cell(m).first) - Cardinality({})
    BY <2>3, <2>4, <2>5, <2>6, FS_Union
  <2>8. Cardinality({}) = 0 /\ Before(m, Size) \in Nat
    BY <2>6, FS_EmptySet, FS_CardinalityType
  <2> QED BY <2>1, <2>2, <2>7, <2>8
<1>3. ASSUME NEW r \in Sectors, NEW s \in Sectors, r < s,
             IsFiniteSet(Below(s)), Cardinality(Below(r)) = Cardinality(Below(s))
      PROVE  FALSE
  <2>0. \A q \in Sectors : q \in Nat
    BY <1>1
  <2>1. \A q \in Sectors : q < r => q < s
    BY <1>3, <2>0
  <2>2. ~(r < r)
    BY <2>0
  <2>3. Below(r) \subseteq Below(s) /\ r \in Below(s) /\ r \notin Below(r)
    BY <1>3, <2>1, <2>2 DEF Below
  <2>4. Below(s) = Below(r)
    BY <1>3, <2>3, FS_Subset
  <2> QED BY <2>3, <2>4
<1>4. Cardinality(Below(sector)) = target /\ IsFiniteSet(Below(sector))
  BY <1>2
<1> HIDE DEF target
<1>5. ASSUME NEW s \in Sectors, Cardinality(Below(s)) = target PROVE s = sector
  <2>1. PICK m \in Counted : s \in Cell(m).first..Cell(m).last
    BY <1>1
  <2>2. IsFiniteSet(Below(s))
    BY <1>2, <2>1
  <2>3. s \in Nat /\ sector \in Nat
    BY <1>1
  <2>4. ~(s < sector) /\ ~(sector < s)
    BY <1>1, <1>3, <1>4, <1>5, <2>2
  <2> QED BY <2>3, <2>4
<1>6. Wanted(target) = sector
  <2>1. Wanted(target) = CHOOSE s \in Sectors : Cardinality(Below(s)) = target
    BY DEF Wanted, Below
  <2> QED BY <1>1, <1>4, <1>5, <2>1
<1> QED BY <1>6 DEF target

LEMMA SmallModulo ==
  ASSUME NEW w \in Nat \ {0}, NEW k \in Int
  PROVE  /\ 0 <= k /\ k < w => k % w = k
         /\ -w <= k /\ k < 0 => k % w = k + w
<1>1. k = w * (k \div w) + (k % w) /\ k % w \in 0..w - 1 /\ k \div w \in Int
  BY SMTT(30)
<1> DEFINE q == k \div w
           r == k % w
<1>2. q \in Int /\ r \in 0..w - 1 /\ k = w * q + r
  BY <1>1
<1> HIDE DEF q, r
<1>3. ASSUME q >= 1 PROVE w * q >= w
  BY <1>2, <1>3, SMTT(30)
<1>4. ASSUME q <= -1 PROVE w * q <= -w
  BY <1>2, <1>4, SMTT(30)
<1>5. ASSUME q <= -2 PROVE w * q <= -(2 * w)
  BY <1>2, <1>5, SMTT(30)
<1>6. q = 0 => w * q = 0
  BY <1>2
<1>7. q = -1 => w * q = -w
  BY <1>2
<1>8. w * q \in Int
  BY <1>2
<1> DEFINE p == w * q
<1>9. /\ p \in Int /\ k = p + r
      /\ q >= 1 => p >= w
      /\ q <= -1 => p <= -w
      /\ q <= -2 => p <= -(2 * w)
      /\ q = 0 => p = 0
      /\ q = -1 => p = -w
  BY <1>2, <1>3, <1>4, <1>5, <1>6, <1>7, <1>8
<1> HIDE DEF p
<1>10. 0 <= k /\ k < w => r = k
  BY <1>2, <1>9
<1>11. -w <= k /\ k < 0 => r = k + w
  BY <1>2, <1>9
<1> QED BY <1>10, <1>11 DEF r

(* A search that finds a cell looks for the target that was asked for: one  *)
(* whose narrowing to 32 bits changes it lies behind all cells.            *)
LEMMA TargetAskedFor ==
  ASSUME IInv, NoBlock, OffsetsFit, seeking # NotSeeking,
         Target(seeking) # Refused, NEW n \in Holding(Target(seeking), Size)
  PROVE  Target(seeking) = SeekTarget(seeking) /\ SeekTarget(seeking) \in 0..Length - 1
<1> DEFINE half == Wrap \div 2
           T == Target(seeking)
           o == seeking.offset
<1>1. /\ chain \in Chains /\ cellN \in Cells /\ o \in Offsets /\ o \in Int
      /\ seeking.pos \in Int /\ seeking.len \in Int /\ seeking.origin \in {"set", "cur", "end"}
      /\ seeking.len <= half
  <2>1. chain \in Chains /\ cellN \in Cells /\ Remembers(seeking)
    BY DEF IInv
  <2>2. seeking \in [offset : Offsets, origin : {"set", "cur", "end"}, pos : Int, len : Int]
        /\ seeking.len <= half
    BY <2>1 DEF Remembers, Seekings
  <2> HIDE DEF half
  <2> QED BY <2>1, <2>2, RequestsAssumption
<1>2. half \in Nat /\ Wrap \in Nat \ {0} /\ half + half <= Wrap
  BY WrapAssumption
<1>3. -half < o /\ o < half
  BY <1>1 DEF OffsetsFit
<1>4. T \in Int
  BY TargetIsNumber DEF IInv, Remembers
<1> HIDE DEF half, T, o
<1>5. 0 <= T /\ T < Length /\ Length \in Nat /\ Length <= half
  <2>1. /\ n \in Cells /\ Before(n, Size) \in Nat /\ Size[n] \in Nat
        /\ Before(n, Size) <= T /\ T < Before(n, Size) + Size[n]
    BY <1>1, <1>4, HoldingIsWithin, SizesAreLengths DEF T
  <2>2. n \in Counted /\ Counted = FirstCell..LastCell
    BY <1>1, CountedWithoutBlocks DEF Holding
  <2>3. LastCell \in Cells /\ FirstCell \in Cells /\ Size \in Lengths /\ Cells = 1..Len(chain.cells)
        /\ Len(chain.cells) \in Nat
    BY <1>1, CountedCells, SizesAreLengths, CellNumbers
  <2>4. n + 1 \in Places /\ LastCell + 1 \in Places /\ n + 1 <= LastCell + 1
    BY <2>1, <2>2, <2>3 DEF Places
  <2>5. SumBefore(n + 1, Size, Counted) = Before(n, Size) + Size[n]
    BY <1>1, <2>1, <2>2, <2>3, Sums DEF Before, Added
  <2>6. SumBefore(n + 1, Size, Counted) <= Length /\ Length \in Nat
    BY <1>1, <2>3, <2>4, Sums, SumsGrow DEF Length, Before
  <2>7. Length <= half
    BY <1>1, LengthFits DEF half
  <2> QED BY <1>2, <1>4, <2>1, <2>5, <2>6, <2>7
<1>6. T = SeekTarget(seeking)
  <2>1. CASE seeking.origin = "set"
    <3>1. T = o % Wrap /\ SeekTarget(seeking) = o /\ o < seeking.len
      <4>1. T = IF o >= seeking.len THEN Refused ELSE o % Wrap
        BY <2>1 DEF Target, T, o
      <4>2. T # Refused
        BY DEF T
      <4>3. SeekTarget(seeking) = o
        BY <2>1 DEF SeekTarget, o
      <4> QED BY <1>1, <4>1, <4>2, <4>3
    <3>2. 0 <= o /\ o < Wrap => o % Wrap = o
      BY <1>1, <1>2, SmallModulo
    <3>3. -Wrap <= o /\ o < 0 => o % Wrap = o + Wrap
      BY <1>1, <1>2, SmallModulo
    <3> QED BY <1>1, <1>2, <1>3, <1>4, <1>5, <3>1, <3>2, <3>3
  <2>2. CASE seeking.origin = "cur"
    <3>1. T = IF seeking.pos + o >= seeking.len \/ seeking.pos + o < 0 THEN Refused ELSE seeking.pos + o
      BY <2>2 DEF Target, T, o
    <3>2. SeekTarget(seeking) = seeking.pos + o
      BY <2>2 DEF SeekTarget, o
    <3>3. T # Refused
      BY DEF T
    <3> QED BY <3>1, <3>2, <3>3
  <2>3. CASE seeking.origin = "end"
    <3>1. T = IF seeking.len < o THEN Refused ELSE (seeking.len - o) % Wrap
      BY <2>3 DEF Target, T, o
    <3>2. SeekTarget(seeking) = seeking.len - o
      BY <2>3 DEF SeekTarget, o
    <3>3. T # Refused
      BY DEF T
    <3>4. T = (seeking.len - o) % Wrap /\ ~(seeking.len < o)
      BY <3>1, <3>3
    <3>5. seeking.len - o \in Int /\ 0 <= seeking.len - o /\ seeking.len - o < Wrap
      BY <1>1, <1>2, <1>3, <3>4
    <3>6. (seeking.len - o) % Wrap = seeking.len - o
      BY <1>2, <3>5, SmallModulo
    <3> QED BY <3>2, <3>4, <3>6
  <2> QED BY <1>1, <2>1, <2>2, <2>3
<1>7. SeekTarget(seeking) \in 0..Length - 1
  BY <1>4, <1>5, <1>6
<1> QED BY <1>6, <1>7 DEF T

(* What a sector search has found: the counted cell n and the sector asked  *)
(* for, in VOBU v, and the place it goes to instead when it seeks forward   *)
(* and would not get past the current sector.                               *)
Near(n, v, forward) == forward /\ n = cellN /\ Start(v) <= CurSector
Found(n, sector, v, target) ==
  /\ n \in Holding(target, Size) /\ n \in Counted /\ sector \in Cell(n).first..Cell(n).last
  /\ target = Before(n, Size) + (sector - Cell(n).first)
  /\ v \in Vobus /\ InVobu(v, sector)
Aims(goal, n, v, near) ==
  /\ goal.cell \in Counted /\ Within(goal)
  /\ ~near \/ v = Len(chain.vobus) => goal.cell = n /\ InVobu(v, goal.sector)
  /\ near /\ v < Len(chain.vobus) => InVobu(v + 1, goal.sector)

(* Behind the last VOBU of a cell follows the first one of the next cell.   *)
LEMMA NextCellsVobu ==
  ASSUME chain \in Chains, NoBlock, NEW n \in Cells, n + 1 \in Cells, NEW v \in Vobus,
         v < Len(chain.vobus), Start(v) <= Cell(n).last, Start(v + 1) > Cell(n).last
  PROVE  InVobu(v + 1, Cell(n + 1).first)
<1>1. v + 1 \in Vobus /\ v \in Nat /\ n \in Nat
  <2>1. Vobus = 1..Len(chain.vobus) /\ Len(chain.vobus) \in Nat
    BY VobuPlaces
  <2>2. Cells = 1..Len(chain.cells)
    BY CellNumbers
  <2> QED BY <2>1, <2>2
<1> DEFINE c == chain.vobus[v + 1].cell
<1>2. /\ Start(v + 1) \in Nat /\ Blocks(v + 1) \in Nat \ {0} /\ c \in Cells
      /\ Cell(c).first <= Start(v + 1) /\ Start(v + 1) + Blocks(v + 1) - 1 <= Cell(c).last
  BY <1>1, VobuPlaces
<1> HIDE DEF c
<1>3. /\ Cell(c).first \in Nat /\ Cell(c).last \in Nat /\ Cell(n).last \in Nat
      /\ Cell(n + 1).first \in Nat /\ Cell(n + 1).last \in Nat /\ c \in Nat /\ Start(v) \in Nat
      /\ Cell(n).first \in Nat /\ Cell(n).first <= Cell(n).last
      /\ Cell(n + 1).first <= Cell(n + 1).last
  <2>1. \A k \in Cells : Cell(k).first \in Nat /\ Cell(k).last \in Nat /\ Cell(k).first <= Cell(k).last
    BY CellFields
  <2>2. c \in Nat
    BY <1>2, CellNumbers
  <2>3. Start(v) \in Nat
    BY VobuPlaces
  <2> QED BY <1>2, <2>1, <2>2, <2>3
<1>4. Cell(n).last < Cell(n + 1).first
  BY <1>1, CellsApart
<1>5. PICK w \in Vobus : Start(w) = Cell(n + 1).first
  BY VobuPlaces
<1>6. v + 1 <= w /\ w \in Nat
  <2>1. w \in Nat
    BY VobuPlaces
  <2>2. w <= v => Start(w) <= Start(v)
    BY VobusRise
  <2>3. ~(w <= v)
    BY <1>3, <1>4, <1>5, <2>2
  <2> QED BY <1>1, <2>1, <2>3
<1>7. Start(v + 1) <= Cell(n + 1).first
  BY <1>1, <1>5, <1>6, VobusRise
<1>8. Cell(c).last >= Start(v + 1)
  BY <1>2, <1>3
<1>9. ~(c < n) /\ c # n
  <2>1. c < n => Cell(c).last < Cell(n).first
    BY <1>2, CellsApart
  <2> QED BY <1>2, <1>3, <1>8, <2>1
<1>10. c = n + 1 \/ n + 1 < c
  BY <1>1, <1>3, <1>9
<1>11. n + 1 < c => Cell(n + 1).last < Cell(c).first
  BY <1>2, CellsApart
<1>12. Start(v + 1) = Cell(n + 1).first
  BY <1>2, <1>3, <1>7, <1>10, <1>11
<1> QED BY <1>2, <1>12 DEF InVobu

LEMMA GoalAims ==
  ASSUME chain \in Chains, cellN \in Cells, NoBlock, NEW target \in Int, NEW forward \in BOOLEAN,
         Goal(target, forward) # Fails
  PROVE  \E n, sector, v : /\ Found(n, sector, v, target)
                          /\ Aims(Goal(target, forward), n, v, Near(n, v, forward))
<1> DEFINE n == CHOOSE n \in Holding(target, Size) : TRUE
           sector == Cell(n).first + target - Before(n, Size)
           next == ScanAdmap(sector, TRUE)
           near == forward /\ n = cellN /\ ScanAdmap(sector, FALSE) <= CurSector
           G == Goal(target, forward)
<1>1. G = CASE Holding(target, Size) = {} -> Fails
            [] Holding(target, Size) # {} /\ ~near -> [cell |-> n, sector |-> sector]
            [] OTHER -> IF next <= Cell(n).last THEN [cell |-> n, sector |-> next]
                        ELSE IF n = LastCell THEN Fails
                        ELSE [cell |-> n + 1, sector |-> Cell(n + 1).first]
  BY Zenon DEF Goal
<1>2. Holding(target, Size) # {}
  <2> HIDE DEF n, sector, next, near
  <2> QED BY <1>1
<1>3. n \in Holding(target, Size)
  BY <1>2
<1>4. Within(G)
  BY GoalIsWithin
<1> HIDE DEF n
<1>5. /\ n \in Cells /\ Before(n, Size) \in Nat /\ Size[n] \in Nat
      /\ Before(n, Size) <= target /\ target < Before(n, Size) + Size[n]
  BY <1>3, HoldingIsWithin, SizesAreLengths
<1>6. Size[n] = Cell(n).last - Cell(n).first + 1 /\ Cell(n).first \in Nat /\ Cell(n).last \in Nat
  BY <1>5, CellFields, SizesAreLengths
<1>7. sector \in Cell(n).first..Cell(n).last /\ target = Before(n, Size) + (sector - Cell(n).first)
  BY <1>5, <1>6
<1>8. n \in Counted /\ Counted = FirstCell..LastCell /\ Counted \subseteq Cells
      /\ FirstCell \in Nat /\ LastCell \in Nat /\ n \in Nat
  <2>1. n \in Counted
    BY <1>3 DEF Holding
  <2>2. Counted = FirstCell..LastCell /\ Counted \subseteq Cells
    BY CountedWithoutBlocks
  <2>3. FirstCell \in Nat /\ LastCell \in Nat /\ n \in Nat
    BY <1>5, CountedCells, CellNumbers
  <2> QED BY <2>1, <2>2, <2>3
<1> HIDE DEF sector
<1>9. PICK v \in Vobus :
        /\ InVobu(v, sector) /\ Start(v) >= Cell(n).first
        /\ ScanAdmap(sector, FALSE) = Start(v)
        /\ v < Len(chain.vobus) => next = Start(v + 1)
        /\ v = Len(chain.vobus) => next = Start(v)
  BY <1>5, <1>7, ScanFindsVobu
<1>10. near <=> Near(n, v, forward)
  BY <1>9 DEF Near
<1>11. Found(n, sector, v, target)
  BY <1>3, <1>7, <1>8, <1>9 DEF Found
<1>12. /\ Start(v) \in Nat /\ Blocks(v) \in Nat \ {0} /\ v \in Nat /\ Len(chain.vobus) \in Nat
       /\ v <= Len(chain.vobus) /\ sector \in Nat
       /\ Start(v) <= sector /\ sector <= Cell(n).last
  <2>1. Start(v) \in Nat /\ Blocks(v) \in Nat \ {0}
    BY <1>9, VobuPlaces
  <2>2. Len(chain.vobus) \in Nat /\ Vobus = 1..Len(chain.vobus)
    BY VobuPlaces
  <2>3. v \in Nat /\ v <= Len(chain.vobus)
    BY <2>2
  <2>4. sector \in Nat /\ sector <= Cell(n).last
    BY <1>6, <1>7
  <2>5. Start(v) <= sector
    BY <1>9 DEF InVobu
  <2> QED BY <2>1, <2>2, <2>3, <2>4, <2>5
<1> HIDE DEF next
<1>13. Aims(G, n, v, near)
  <2>1. CASE ~near
    <3>1. G = [cell |-> n, sector |-> sector]
      BY <1>1, <1>2, <2>1
    <3> HIDE DEF G, near
    <3> QED BY <1>4, <1>8, <1>9, <2>1, <3>1 DEF Aims
  <2>2. CASE near
    <3>1. G = IF next <= Cell(n).last THEN [cell |-> n, sector |-> next]
              ELSE IF n = LastCell THEN Fails
              ELSE [cell |-> n + 1, sector |-> Cell(n + 1).first]
      <4> HIDE DEF near
      <4> QED BY <1>1, <1>2, <2>2
    <3> HIDE DEF near
    <3>2. CASE next <= Cell(n).last
      <4>1. G = [cell |-> n, sector |-> next]
        BY <3>1, <3>2
      <4>2. v = Len(chain.vobus) => InVobu(v, next)
        BY <1>9, <1>12 DEF InVobu
      <4>3. v < Len(chain.vobus) => InVobu(v + 1, next)
        <5> SUFFICES ASSUME v < Len(chain.vobus) PROVE InVobu(v + 1, next)
          OBVIOUS
        <5>1. v + 1 \in Vobus
          BY <1>12, VobuPlaces
        <5>2. Start(v + 1) \in Nat /\ Blocks(v + 1) \in Nat \ {0}
          BY <5>1, VobuPlaces
        <5> QED BY <1>9, <5>2 DEF InVobu
      <4> HIDE DEF G
      <4> QED BY <1>4, <1>8, <2>2, <4>1, <4>2, <4>3 DEF Aims
    <3>3. CASE ~(next <= Cell(n).last)
      <4>1. n # LastCell
        BY <3>1, <3>3
      <4>2. G = [cell |-> n + 1, sector |-> Cell(n + 1).first]
        BY <3>1, <3>3, <4>1
      <4>3. n + 1 \in Counted /\ n + 1 \in Cells
        BY <1>8, <4>1
      <4>4. v < Len(chain.vobus)
        <5>1. v # Len(chain.vobus)
          <6> SUFFICES ASSUME v = Len(chain.vobus) PROVE FALSE
            OBVIOUS
          <6>1. next = Start(v)
            BY <1>9
          <6> QED BY <1>6, <1>12, <3>3, <6>1
        <5> QED BY <1>12, <5>1
      <4>5. v + 1 \in Vobus
        BY <1>12, <4>4, VobuPlaces
      <4>6. Start(v + 1) > Cell(n).last /\ Start(v) <= Cell(n).last
        <5>1. Start(v + 1) \in Nat
          BY <4>5, VobuPlaces
        <5> QED BY <1>6, <1>9, <1>12, <3>3, <4>4, <5>1
      <4>7. InVobu(v + 1, Cell(n + 1).first)
        BY <1>5, <4>3, <4>4, <4>6, NextCellsVobu
      <4>8. v # Len(chain.vobus)
        BY <1>12, <4>4
      <4> HIDE DEF G
      <4> QED BY <1>4, <2>2, <4>2, <4>3, <4>7, <4>8 DEF Aims
    <3> QED BY <3>2, <3>3
  <2> QED BY <2>1, <2>2
<1>14. Aims(G, n, v, Near(n, v, forward))
  <2> HIDE DEF near, G
  <2> QED BY <1>10, <1>13 DEF Aims
<1> HIDE DEF near
<1> QED BY <1>11, <1>14

(* Where the machine is then.                                              *)
LEMMA SeekArrives ==
  ASSUME chain \in Chains, chain' = chain, NoBlock, NEW goal, Within(goal), goal # Fails, Seek(goal),
         NEW v \in Vobus, InVobu(v, goal.sector)
  PROVE  cellN' = goal.cell /\ v \in VobusOf(goal.cell) /\ Landing' = Start(v)
<1> DEFINE block == ScanAdmap(goal.sector, FALSE) - Cell(goal.cell).first
<1>1. goal.cell \in Cells /\ goal.sector \in Cell(goal.cell).first..Cell(goal.cell).last
  BY DEF Within
<1>2. Cell(goal.cell).first \in Nat /\ Cell(goal.cell).last \in Nat /\ goal.sector \in Int
      /\ Cell(goal.cell).first <= goal.sector /\ goal.sector <= Cell(goal.cell).last
  BY <1>1, CellFields
<1>3. PICK u \in Vobus : InVobu(u, goal.sector) /\ ScanAdmap(goal.sector, FALSE) = Start(u)
  BY <1>1, ScanFindsVobu
<1>4. u = v
  BY <1>2, <1>3, OneVobu
<1>5. chain.vobus[v].cell = goal.cell
  BY <1>1, <1>2, VobuOfSector
<1>6. Enter(goal.cell, block)
  BY DEF Seek
<1>7. AngleCell(goal.cell) = goal.cell
  BY <1>1 DEF AngleCell, NoBlock
<1>8. cellN' = goal.cell /\ blockN' = Start(v) - Cell(goal.cell).first
  BY <1>3, <1>4, <1>6, <1>7 DEF Enter
<1>9. Landing' = Cell(goal.cell).first + blockN'
  BY <1>8 DEF Landing, Cell
<1>10. Start(v) \in Nat
  BY VobuPlaces
<1>11. Landing' = Start(v)
  BY <1>2, <1>8, <1>9, <1>10
<1> QED BY <1>5, <1>8, <1>11 DEF VobusOf

(* A sector search that succeeds, outside angle blocks.                    *)
LEMMA Jumped ==
  ASSUME IInv, Next, Jumps, NoBlock, OffsetsFit
  PROVE  LET target == SeekTarget(seeking)
             forward == target > seeking.pos
         IN  /\ chain' = chain /\ target \in 0..Length - 1 /\ target \in Int
             /\ \E n, sector, v, w :
                  /\ Found(n, sector, v, target)
                  /\ w \in Vobus /\ w \in VobusOf(cellN') /\ cellN' \in Counted /\ Landing' = Start(w)
                  /\ w = IF Near(n, v, forward) /\ v # Len(chain.vobus) THEN v + 1 ELSE v
<1> DEFINE T == Target(seeking)
           forward == T > seeking.pos
           goal == Goal(T, forward)
<1>1. SectorJump
  BY DEF Jumps, Next, TimeSearch, SectorSearch, AngleChange, SetPgcBased, Hop, Arrive, ReadBlock,
         NextVobu, NextCell
<1>2. T # Refused /\ Seek(goal) /\ goal # Fails /\ chain' = chain /\ seeking # NotSeeking
  <2>1. T # Refused
    BY <1>1 DEF SectorJump, Jumps
  <2>2. Seek(goal)
    BY <1>1, <2>1 DEF SectorJump
  <2> HIDE DEF goal
  <2>3. goal # Fails
    BY <2>2 DEF Seek, Jumps
  <2> QED BY <1>1, <2>1, <2>2, <2>3 DEF SectorJump
<1>3. chain \in Chains /\ cellN \in Cells /\ Remembers(seeking)
  BY DEF IInv
<1>4. T \in Int /\ forward \in BOOLEAN
  BY <1>2, <1>3, TargetIsNumber DEF Remembers
<1>5. PICK n, sector, v : Found(n, sector, v, T) /\ Aims(goal, n, v, Near(n, v, forward))
  <2> HIDE DEF T
  <2> QED BY <1>2, <1>3, <1>4, GoalAims
<1>6. n \in Holding(T, Size)
  BY <1>5 DEF Found
<1>7. T = SeekTarget(seeking) /\ SeekTarget(seeking) \in 0..Length - 1
  BY <1>2, <1>6, TargetAskedFor
<1> HIDE DEF T, goal
<1> DEFINE near == Near(n, v, forward)
           w == IF near /\ v # Len(chain.vobus) THEN v + 1 ELSE v
<1>8. v \in Vobus /\ Within(goal) /\ goal.cell \in Counted
  BY <1>5 DEF Found, Aims
<1>9. Vobus = 1..Len(chain.vobus) /\ Len(chain.vobus) \in Nat
  BY <1>3, VobuPlaces
<1>10. w \in Vobus /\ InVobu(w, goal.sector)
  <2>1. CASE near /\ v # Len(chain.vobus)
    <3>1. v < Len(chain.vobus) /\ v + 1 \in Vobus
      BY <1>8, <1>9, <2>1
    <3>2. InVobu(v + 1, goal.sector)
      BY <1>5, <2>1, <3>1 DEF Aims
    <3> QED BY <2>1, <3>1, <3>2
  <2>2. CASE ~(near /\ v # Len(chain.vobus))
    <3>1. InVobu(v, goal.sector)
      BY <1>5, <2>2 DEF Aims
    <3> QED BY <1>8, <2>2, <3>1
  <2> QED BY <2>1, <2>2
<1> HIDE DEF w
<1>11. cellN' = goal.cell /\ w \in VobusOf(goal.cell) /\ Landing' = Start(w)
  BY <1>2, <1>3, <1>8, <1>10, SeekArrives
<1>12. /\ Found(n, sector, v, SeekTarget(seeking)) /\ w \in Vobus /\ w \in VobusOf(cellN')
       /\ cellN' \in Counted /\ Landing' = Start(w)
       /\ w = IF Near(n, v, SeekTarget(seeking) > seeking.pos) /\ v # Len(chain.vobus) THEN v + 1 ELSE v
  BY <1>5, <1>7, <1>8, <1>10, <1>11 DEF w
<1> QED BY <1>2, <1>4, <1>7, <1>12

(* dvdnav_sector_search: in a chain without angle blocks, and for every     *)
(* offset whose target 32 bits hold, a search that succeeds goes to the     *)
(* start of the VOBU with the sector asked for, or to the one behind it     *)
(* when it seeks forward and would not get past the current sector;         *)
(* whatever was played between its two locks.                              *)
THEOREM SeeksLand == ASSUME OffsetsFit PROVE Spec => SeekLands
<1> DEFINE Lands ==
      Jumps /\ NoBlock =>
       LET target == SeekTarget(seeking)
           v == VobuAt(Wanted(target))
       IN  /\ target \in 0..Length - 1
           /\ cellN' \in FirstCell..LastCell
           /\ \E w \in VobusOf(cellN') :
                /\ Landing' = Start(w)
                /\ \/ w = v
                   \/ w = v + 1 /\ target > seeking.pos /\ Start(v) <= CurSector
<1>1. IInv /\ [Next]_vars => [Lands]_vars
  <2> SUFFICES ASSUME IInv, Next, Jumps, NoBlock PROVE Lands
    OBVIOUS
  <2> DEFINE target == SeekTarget(seeking)
             forward == target > seeking.pos
  <2>1. chain \in Chains /\ cellN \in Cells
    BY DEF IInv
  <2>2. target \in 0..Length - 1 /\ target \in Int
    BY Jumped
  <2>3. PICK n, sector, v, w :
          /\ Found(n, sector, v, target)
          /\ w \in Vobus /\ w \in VobusOf(cellN') /\ cellN' \in Counted /\ Landing' = Start(w)
          /\ w = IF Near(n, v, forward) /\ v # Len(chain.vobus) THEN v + 1 ELSE v
    BY Jumped
  <2>4. cellN' \in FirstCell..LastCell
    BY <2>1, <2>3, CountedWithoutBlocks
  <2>5. Wanted(target) = sector
    BY <2>1, <2>3, WantedSector DEF Found
  <2>6. VobuAt(sector) = v
    <3>1. v \in Vobus /\ InVobu(v, sector) /\ n \in Counted /\ sector \in Cell(n).first..Cell(n).last
      BY <2>3 DEF Found
    <3>2. Cell(n).first \in Nat /\ Cell(n).last \in Nat
      BY <2>1, <3>1, CountedCells, CellFields
    <3>3. sector \in Int
      BY <3>1, <3>2
    <3>4. VobuAt(sector) \in Vobus /\ InVobu(VobuAt(sector), sector)
      BY <3>1 DEF VobuAt, InVobu
    <3> QED BY <2>1, <3>1, <3>3, <3>4, OneVobu
  <2>7. w = v \/ (w = v + 1 /\ target > seeking.pos /\ Start(v) <= CurSector)
    BY <2>3 DEF Near
  <2> HIDE DEF target
  <2>8. Lands
    BY <2>2, <2>3, <2>4, <2>5, <2>6, <2>7 DEF target
  <2> QED BY <2>8
<1>2. [][Lands]_vars <=> SeekLands
  BY DEF SeekLands
<1> QED BY <1>1, <1>2, Invariance, PTL DEF Spec

(* A search forward gets past the current sector, in a chain without angle  *)
(* blocks, unless the engine is in the last VOBU of the address map: the    *)
(* scan for the VOBU behind that one finds itself.                         *)
THEOREM ForwardSeeksMoveOn == ASSUME OffsetsFit PROVE Spec => ForwardMovesOn
<1> DEFINE MovesOn ==
      Jumps /\ NoBlock /\ known /\ seeking.pos = Position /\ SeekTarget(seeking) > seeking.pos =>
        (Landing' > CurSector <=> vobu # Len(chain.vobus))
<1>1. IInv /\ [Next]_vars => [MovesOn]_vars
  <2> SUFFICES ASSUME IInv, Next, Jumps, NoBlock, known, seeking.pos = Position,
                      SeekTarget(seeking) > seeking.pos
               PROVE  Landing' > CurSector <=> vobu # Len(chain.vobus)
    OBVIOUS
  <2> DEFINE target == SeekTarget(seeking)
             forward == target > seeking.pos
             last == Len(chain.vobus)
  <2>1. /\ chain \in Chains /\ cellN \in Cells /\ vobu \in Vobus /\ ahead \in Nat
        /\ ahead < Blocks(vobu) /\ InStep
    BY DEF IInv
  <2>2. target \in Int /\ target > Position
    BY Jumped
  <2>3. PICK n, sector, v, w :
          /\ Found(n, sector, v, target)
          /\ w \in Vobus /\ w \in VobusOf(cellN') /\ cellN' \in Counted /\ Landing' = Start(w)
          /\ w = IF Near(n, v, forward) /\ v # last THEN v + 1 ELSE v
    BY Jumped
  <2>4. /\ n \in Counted /\ n \in Cells /\ sector \in Cell(n).first..Cell(n).last
        /\ target = Before(n, Size) + (sector - Cell(n).first)
        /\ v \in Vobus /\ InVobu(v, sector)
    BY <2>1, <2>3, CountedCells DEF Found
  <2> HIDE DEF target
  <2>5. /\ Start(vobu) \in Nat /\ Blocks(vobu) \in Nat /\ Cell(cellN).first <= Start(vobu)
        /\ Start(vobu) + Blocks(vobu) - 1 <= Cell(cellN).last
    BY <2>1, VobuPlaces DEF InStep, Playing, CellOf
  <2>6. CurSector = Start(vobu) + ahead /\ CurSector \in Nat /\ InVobu(vobu, CurSector)
        /\ CurSector <= Cell(cellN).last /\ Cell(cellN).first <= CurSector
    <3>1. CurSector = Start(vobu) + ahead
      BY DEF CurSector
    <3>2. Cell(cellN).first \in Nat /\ Cell(cellN).last \in Nat
      BY <2>1, CellFields
    <3> QED BY <2>1, <2>5, <3>1, <3>2 DEF InVobu
  <2>7. /\ Cell(n).first \in Nat /\ Cell(n).last \in Nat /\ Cell(n).first <= Cell(n).last
        /\ Cell(cellN).first \in Nat /\ Cell(cellN).last \in Nat /\ n \in Nat /\ cellN \in Nat
    BY <2>1, <2>4, CellFields, CellNumbers
  <2>8. Position = Before(cellN, Size) + CurSector - Cell(cellN).first
    BY DEF Position
  <2>9. ~(n < cellN)
    <3> SUFFICES ASSUME n < cellN PROVE FALSE
      OBVIOUS
    <3>1. Size \in Lengths /\ Size[n] = Cell(n).last - Cell(n).first + 1
      BY <2>1, <2>4, SizesAreLengths
    <3>2. n \in Places /\ n + 1 \in Places /\ cellN \in Places /\ n + 1 <= cellN
      BY <2>1, <2>4, CellNumbers DEF Places
    <3>3. SumBefore(n + 1, Size, Counted) = Before(n, Size) + Size[n]
      BY <2>1, <2>4, <3>1, Sums DEF Before, Added
    <3>4. SumBefore(n + 1, Size, Counted) <= Before(cellN, Size)
      BY <2>1, <3>1, <3>2, SumsGrow DEF Before
    <3>5. Before(n, Size) \in Nat /\ Before(cellN, Size) \in Nat
      BY <2>1, <3>1, <3>2, Sums DEF Before
    <3>6. sector \in Int /\ sector <= Cell(n).last
      BY <2>4, <2>7
    <3> QED BY <2>2, <2>4, <2>6, <2>7, <2>8, <3>1, <3>3, <3>4, <3>5, <3>6
  <2>10. sector > CurSector /\ sector \in Nat
    <3>1. sector \in Nat /\ Cell(n).first <= sector
      BY <2>4, <2>7
    <3>2. CASE n = cellN
      <4>1. Before(n, Size) \in Nat
        BY <2>1, <2>3, HoldingIsWithin, SizesAreLengths, <2>2 DEF Found
      <4> QED BY <2>2, <2>4, <2>6, <2>7, <2>8, <3>1, <3>2, <4>1
    <3>3. CASE cellN < n
      <4>1. Cell(cellN).last < Cell(n).first
        BY <2>1, <2>4, <3>3, CellsApart
      <4> QED BY <2>6, <2>7, <3>1, <4>1
    <3> QED BY <2>7, <2>9, <3>2, <3>3
  <2>11. last \in Nat /\ Vobus = 1..last
    BY <2>1, VobuPlaces
  <2>12. /\ Start(v) \in Nat /\ Start(v) <= sector /\ v \in Nat /\ vobu \in Nat
         /\ v <= last /\ vobu <= last
    BY <2>1, <2>4, <2>11, VobuPlaces DEF InVobu
  <2>13. CASE Start(v) > CurSector
    <3>1. ~Near(n, v, forward)
      BY <2>6, <2>12, <2>13 DEF Near
    <3>2. Landing' > CurSector
      BY <2>3, <2>13, <3>1
    <3>3. v <= vobu => Start(v) <= Start(vobu)
      BY <2>1, <2>4, VobusRise
    <3>4. vobu < v
      BY <2>1, <2>5, <2>6, <2>12, <2>13, <3>3
    <3>5. vobu # last
      BY <2>11, <2>12, <3>4
    <3> QED BY <3>2, <3>5
  <2>14. CASE Start(v) <= CurSector
    <3>1. InVobu(v, CurSector)
      <4>1. Blocks(v) \in Nat
        BY <2>1, <2>4, VobuPlaces
      <4> QED BY <2>4, <2>6, <2>10, <2>12, <2>14, <4>1 DEF InVobu
    <3>2. v = vobu
      BY <2>1, <2>4, <2>6, <3>1, OneVobu
    <3>3. n = cellN
      <4>1. chain.vobus[v].cell = n
        BY <2>1, <2>4, <2>7, <2>10, VobuOfSector
      <4>2. chain.vobus[v].cell = cellN
        BY <2>1, <3>2 DEF InStep, Playing, CellOf
      <4> QED BY <4>1, <4>2
    <3>4. Near(n, v, forward)
      BY <2>14, <3>3 DEF Near, target
    <3>5. CASE vobu = last
      <4>1. Landing' = Start(v)
        BY <2>3, <3>2, <3>5
      <4> QED BY <2>6, <2>12, <2>14, <3>5, <4>1
    <3>6. CASE vobu # last
      <4>1. Landing' = Start(v + 1)
        BY <2>3, <3>2, <3>4, <3>6
      <4>2. Start(v) + Blocks(v) = Start(v + 1)
        BY <2>1, <2>4, <2>12, <3>2, <3>6, VobuPlaces
      <4> QED BY <2>1, <2>5, <2>6, <3>2, <3>6, <4>1, <4>2
    <3> QED BY <3>5, <3>6
  <2>15. Start(v) > CurSector \/ Start(v) <= CurSector
    BY <2>6, <2>12
  <2> QED BY <2>13, <2>14, <2>15
<1>2. [][MovesOn]_vars <=> ForwardMovesOn
  BY DEF ForwardMovesOn
<1> QED BY <1>1, <1>2, Invariance, PTL DEF Spec

-----------------------------------------------------------------------------
(* Time searches *)

(* How a part of the time compares with a part of the sectors.             *)
LEMMA Proportions ==
  ASSUME NEW p \in Nat \ {0}, NEW z \in Nat \ {0}, NEW i \in Nat, NEW k \in Nat
  PROVE  /\ k <= (i * z) \div p => (k * p) \div z <= i
         /\ k > (i * z) \div p => i <= (k * p) \div z
<1> DEFINE b == (i * z) \div p
           t == (k * p) \div z
<1>1. b \in Nat /\ b * p <= i * z /\ i * z < b * p + p
  BY SMTT(30)
<1>2. t \in Nat /\ t * z <= k * p /\ k * p < t * z + z
  BY SMTT(30)
<1> HIDE DEF b, t
<1>3. ASSUME k <= b PROVE t <= i
  <2> SUFFICES ASSUME t >= i + 1 PROVE FALSE
    BY <1>2
  <2>1. k * p <= b * p
    BY <1>1, <1>3, SMTT(30)
  <2>2. t * z >= (i + 1) * z
    BY <1>2, SMTT(30)
  <2>3. (i + 1) * z = i * z + z
    BY SMTT(30)
  <2> DEFINE kp == k * p
             bp == b * p
             tz == t * z
             iz == i * z
  <2>4. kp \in Nat /\ bp \in Nat /\ tz \in Nat /\ iz \in Nat /\ kp <= bp /\ tz >= iz + z
        /\ bp <= iz /\ tz <= kp
    BY <1>1, <1>2, <2>1, <2>2, <2>3
  <2> HIDE DEF kp, bp, tz, iz
  <2> QED BY <2>4
<1>4. ASSUME k > b PROVE i <= t
  <2> SUFFICES ASSUME i >= t + 1 PROVE FALSE
    BY <1>2
  <2>1. k * p >= (b + 1) * p
    BY <1>1, <1>4, SMTT(30)
  <2>2. (b + 1) * p = b * p + p
    BY <1>1, SMTT(30)
  <2>3. i * z >= (t + 1) * z
    BY <1>2, SMTT(30)
  <2>4. (t + 1) * z = t * z + z
    BY <1>2, SMTT(30)
  <2> DEFINE kp == k * p
             bp == b * p
             tz == t * z
             iz == i * z
  <2>5. kp \in Nat /\ bp \in Nat /\ tz \in Nat /\ iz \in Nat /\ kp >= bp + p /\ iz >= tz + z
        /\ iz < bp + p /\ kp < tz + z
    BY <1>1, <1>2, <2>1, <2>2, <2>3, <2>4
  <2> HIDE DEF kp, bp, tz, iz
  <2> QED BY <2>5
<1> USE DEF b, t
<1> QED BY <1>3, <1>4

(* dvdnav_time_search: in a chain without angle blocks whose blocks take    *)
(* equal times, a search that succeeds goes to the VOBU that plays at the   *)
(* time asked for.                                                         *)
THEOREM TimesLand == ASSUME EvenTimes PROVE Spec => TimeLands
<1> DEFINE Lands ==
      \A t \in Times : asked' = "ok" /\ NoBlock /\ UNCHANGED seeking /\ TimeSearch(t) =>
       \E w \in VobusOf(cellN') :
         LET at(v) == Before(cellN', Playtime) + chain.vobus[v].time
         IN  /\ Landing' = Start(w) /\ at(w) <= t
             /\ \A v \in VobusOf(cellN') : v > w => t <= at(v)
<1>1. IInv /\ [Next]_vars => [Lands]_vars
  <2> SUFFICES ASSUME IInv, NEW t \in Times, asked' = "ok", NoBlock, TimeSearch(t)
               PROVE  \E w \in VobusOf(cellN') :
                        /\ Landing' = Start(w)
                        /\ Before(cellN', Playtime) + chain.vobus[w].time <= t
                        /\ \A v \in VobusOf(cellN') :
                             v > w => t <= Before(cellN', Playtime) + chain.vobus[v].time
    OBVIOUS
  <2> DEFINE found == Holding(t, Playtime)
             n == CHOOSE n \in found : TRUE
             B == Before(n, Playtime)
             b == ((t - B) * Size[n]) \div Playtime[n]
             goal == IF found = {} THEN Fails ELSE [cell |-> n, sector |-> Cell(n).first + b]
  <2>1. Seek(goal) /\ chain' = chain
    BY DEF TimeSearch
  <2>2. goal # Fails /\ found # {}
    <3>1. goal # Fails
      <4> HIDE DEF goal
      <4> QED BY <2>1 DEF Seek
    <3> QED BY <3>1
  <2>3. n \in found /\ goal = [cell |-> n, sector |-> Cell(n).first + b]
    BY <2>2
  <2>4. chain \in Chains /\ cellN \in Cells /\ t \in Nat
    BY RequestsAssumption DEF IInv
  <2> HIDE DEF n
  <2>5. Within(goal)
    BY <2>3, <2>4, TimeGoalIsWithin
  <2>6. /\ n \in Cells /\ B \in Nat /\ Playtime[n] \in Nat /\ B <= t /\ t < B + Playtime[n]
    BY <2>3, <2>4, HoldingIsWithin, SizesAreLengths
  <2>7. Size[n] = Cell(n).last - Cell(n).first + 1 /\ Size[n] \in Nat \ {0} /\ Playtime[n] = Cell(n).time
        /\ Cell(n).first \in Nat /\ Cell(n).last \in Nat
    BY <2>4, <2>6, SizesAreLengths, CellFields DEF Playtime
  <2>8. goal.cell = n /\ goal.sector = Cell(n).first + b
    BY <2>3
  <2>9. goal.sector \in Cell(n).first..Cell(n).last
    BY <2>5, <2>8 DEF Within
  <2> HIDE DEF goal, found, B
  <2>10. PICK w \in Vobus : InVobu(w, goal.sector)
    BY <2>4, <2>6, <2>9, ScanFindsVobu
  <2>11. cellN' = n /\ w \in VobusOf(n) /\ Landing' = Start(w)
    BY <2>1, <2>2, <2>4, <2>5, <2>8, <2>10, SeekArrives
  <2>12. b \in 0..Size[n] - 1
    <3>1. t - B \in Nat /\ t - B < Playtime[n]
      BY <2>4, <2>6
    <3> QED BY <2>6, <2>7, <3>1, Portion
  <2> DEFINE k(v) == Start(v) - Cell(n).first
  <2>13. ASSUME NEW v \in VobusOf(n)
         PROVE  k(v) \in Nat /\ v \in Vobus /\ chain.vobus[v].time = (k(v) * Playtime[n]) \div Size[n]
    <3>1. v \in Vobus /\ chain.vobus[v].cell = n
      BY DEF VobusOf
    <3>2. Cell(n).first <= Start(v) /\ Start(v) \in Nat
      BY <2>4, <3>1, VobuPlaces
    <3>3. chain.vobus[v].time = ((Start(v) - Cell(n).first) * Cell(n).time) \div (Cell(n).last - Cell(n).first + 1)
      <4>1. \A m \in DOMAIN chain.cells : chain.cells[m].block = "none"
        BY DEF NoBlock, Cells, Cell
      <4>2. v \in DOMAIN chain.vobus
        BY <3>1 DEF Vobus
      <4> QED BY <2>4, <3>1, <4>1, <4>2 DEF EvenTimes, Start, Cell
    <3> QED BY <2>7, <3>1, <3>2, <3>3
  <2>14. t - B \in Nat /\ Playtime[n] \in Nat \ {0}
    BY <2>4, <2>6
  <2>15. k(w) <= b
    <3>1. Start(w) \in Nat
      BY <2>4, <2>10, VobuPlaces
    <3>2. Start(w) <= Cell(n).first + b
      BY <2>8, <2>10 DEF InVobu
    <3>3. b \in Nat
      BY <2>7, <2>12
    <3> HIDE DEF b
    <3> QED BY <2>7, <3>1, <3>2, <3>3
  <2>16. chain.vobus[w].time <= t - B
    <3>1. k(w) \in Nat /\ chain.vobus[w].time = (k(w) * Playtime[n]) \div Size[n]
      BY <2>11, <2>13
    <3>2. Size[n] \in Nat \ {0}
      BY <2>7
    <3> HIDE DEF k
    <3>3. (k(w) * Playtime[n]) \div Size[n] <= t - B
      BY <2>14, <2>15, <3>1, <3>2, Proportions
    <3> QED BY <3>1, <3>3
  <2>17. \A v \in Vobus : chain.vobus[v].time \in Nat
    BY <2>4, VobuPlaces
  <2>18. ASSUME NEW v \in VobusOf(n), v > w PROVE t <= B + chain.vobus[v].time
    <3>1. v \in Vobus /\ v \in Nat /\ w \in Nat
      BY <2>4, <2>10, <2>13, VobuPlaces
    <3>2. Start(w) + Blocks(w) <= Start(v)
      <4>1. Len(chain.vobus) \in Nat /\ Vobus = 1..Len(chain.vobus)
        BY <2>4, VobuPlaces
      <4>2. w + 1 \in Vobus /\ w + 1 <= v /\ w < Len(chain.vobus)
        BY <2>18, <3>1, <4>1
      <4>3. Start(w) + Blocks(w) = Start(w + 1)
        BY <2>4, <2>10, <4>2, VobuPlaces
      <4>4. Start(w + 1) <= Start(v)
        BY <2>4, <3>1, <4>2, VobusRise
      <4> QED BY <4>3, <4>4
    <3>3. k(v) > b
      <4>1. Start(w) \in Nat /\ Blocks(w) \in Nat /\ Start(v) \in Nat
        BY <2>4, <2>10, <3>1, VobuPlaces
      <4>2. Cell(n).first + b < Start(w) + Blocks(w)
        BY <2>8, <2>10 DEF InVobu
      <4> QED BY <2>7, <2>12, <3>2, <4>1, <4>2
    <3>4. t - B <= chain.vobus[v].time
      <4>1. k(v) \in Nat /\ chain.vobus[v].time = (k(v) * Playtime[n]) \div Size[n]
        BY <2>13
      <4>2. Size[n] \in Nat \ {0}
        BY <2>7
      <4> HIDE DEF k
      <4>3. t - B <= (k(v) * Playtime[n]) \div Size[n]
        BY <2>14, <3>3, <4>1, <4>2, Proportions
      <4> QED BY <4>1, <4>3
    <3> QED BY <2>4, <2>6, <2>17, <3>1, <3>4
  <2>19. B + chain.vobus[w].time <= t
    BY <2>4, <2>6, <2>10, <2>16, <2>17
  <2> QED BY <2>11, <2>18, <2>19 DEF B
<1>2. [][Lands]_vars <=> TimeLands
  BY DEF TimeLands
<1> QED BY <1>1, <1>2, Invariance, PTL DEF Spec

-----------------------------------------------------------------------------
(* The chapters of a title *)

(* The fields of a part.                                                   *)
LEMMA PartFields ==
  ASSUME NEW title \in Titles
  PROVE  /\ Len(title) \in Nat /\ DOMAIN title = 1..Len(title)
         /\ \A i \in DOMAIN title :
              /\ title[i].pgn \in Nat \ {0}
              /\ Usable(title[i]) =>
                   LET c == title[i].pgc IN
                   /\ Len(c.cells) \in Nat /\ DOMAIN c.cells = 1..Len(c.cells)
                   /\ Len(c.map) \in Nat /\ DOMAIN c.map = 1..Len(c.map)
                   /\ ProgramsInOrder(c)
                   /\ \A n \in 1..Len(c.cells) : c.cells[n].time \in Nat
<1>1. title \in Seq(PartType)
  BY TitlesAssumption
<1>2. Len(title) \in Nat /\ DOMAIN title = 1..Len(title)
  BY <1>1
<1>3. ASSUME NEW i \in DOMAIN title
      PROVE  /\ title[i].pgn \in Nat \ {0}
             /\ Usable(title[i]) =>
                  LET c == title[i].pgc IN
                  /\ Len(c.cells) \in Nat /\ DOMAIN c.cells = 1..Len(c.cells)
                  /\ Len(c.map) \in Nat /\ DOMAIN c.map = 1..Len(c.map)
                  /\ ProgramsInOrder(c)
                  /\ \A n \in 1..Len(c.cells) : c.cells[n].time \in Nat
  <2>1. title[i] \in PartType
    BY <1>1, <1>2
  <2>2. title[i].pgn \in Nat \ {0} /\ (title[i].pgc # NoChain => title[i].pgc \in ChainType)
    BY <2>1 DEF PartType
  <2> SUFFICES ASSUME Usable(title[i])
               PROVE  LET c == title[i].pgc IN
                      /\ Len(c.cells) \in Nat /\ DOMAIN c.cells = 1..Len(c.cells)
                      /\ Len(c.map) \in Nat /\ DOMAIN c.map = 1..Len(c.map)
                      /\ ProgramsInOrder(c)
                      /\ \A n \in 1..Len(c.cells) : c.cells[n].time \in Nat
    BY <2>2
  <2> DEFINE c == title[i].pgc
  <2>3. c \in ChainType /\ ProgramsInOrder(c)
    BY <2>2, TitlesAssumption DEF Usable, HasPrograms
  <2>4. c.cells \in Seq(CellType) /\ c.map \in Seq(Nat)
    BY <2>3 DEF ChainType
  <2>5. /\ Len(c.cells) \in Nat /\ DOMAIN c.cells = 1..Len(c.cells)
        /\ Len(c.map) \in Nat /\ DOMAIN c.map = 1..Len(c.map)
        /\ \A n \in 1..Len(c.cells) : c.cells[n] \in CellType
    BY <2>4
  <2>6. \A n \in 1..Len(c.cells) : c.cells[n].time \in Nat
    BY <2>5 DEF CellType
  <2> QED BY <2>3, <2>5, <2>6
<1> QED BY <1>2, <1>3

(* Sums over what is in one of two disjoint sets are the sums over both.    *)
LEMMA SumsSplit ==
  ASSUME NEW L \in Nat, NEW length \in [1..L -> Nat], NEW N, NEW M, N \cap M = {}
  PROVE  \A k \in 0..L : SumTo(k, length, N \cup M) = SumTo(k, length, N) + SumTo(k, length, M)
<1> DEFINE S(k) == SumTo(k, length, N)
           T(k) == SumTo(k, length, M)
           U(k) == SumTo(k, length, N \cup M)
           Good == {k \in Nat : k \in 0..L => U(k) = S(k) + T(k)}
<1>1. /\ \A k \in 0..L : S(k) \in Nat
      /\ S(0) = 0
      /\ \A k \in 1..L : S(k) = S(k - 1) + AddedAt(k, length, N)
  BY SumsTo
<1>2. /\ \A k \in 0..L : T(k) \in Nat
      /\ T(0) = 0
      /\ \A k \in 1..L : T(k) = T(k - 1) + AddedAt(k, length, M)
  BY SumsTo
<1>3. /\ \A k \in 0..L : U(k) \in Nat
      /\ U(0) = 0
      /\ \A k \in 1..L : U(k) = U(k - 1) + AddedAt(k, length, N \cup M)
  BY SumsTo
<1>4. \A k \in 1..L : /\ AddedAt(k, length, N) \in Nat /\ AddedAt(k, length, M) \in Nat
                      /\ AddedAt(k, length, N \cup M) = AddedAt(k, length, N) + AddedAt(k, length, M)
  BY DEF AddedAt
<1> HIDE DEF S, T, U
<1>5. 0 \in Good
  BY <1>1, <1>2, <1>3
<1>6. ASSUME NEW k \in Nat, k \in Good PROVE k + 1 \in Good
  <2> SUFFICES ASSUME k + 1 \in 0..L PROVE U(k + 1) = S(k + 1) + T(k + 1)
    OBVIOUS
  <2>1. k \in 0..L /\ k + 1 \in 1..L /\ (k + 1) - 1 = k
    OBVIOUS
  <2>2. U(k) = S(k) + T(k) /\ S(k) \in Nat /\ T(k) \in Nat
    BY <1>1, <1>2, <1>6, <2>1
  <2> DEFINE a == AddedAt(k + 1, length, N)
             b == AddedAt(k + 1, length, M)
             d == AddedAt(k + 1, length, N \cup M)
  <2>3. S(k + 1) = S(k) + a /\ T(k + 1) = T(k) + b /\ U(k + 1) = U(k) + d
    BY <1>1, <1>2, <1>3, <2>1
  <2>4. a \in Nat /\ b \in Nat /\ d = a + b
    BY <1>4, <2>1
  <2> HIDE DEF a, b, d
  <2> QED BY <2>2, <2>3, <2>4
<1>7. \A k \in Nat : k \in Good
  <2> HIDE DEF Good
  <2> QED BY <1>5, <1>6, Induction
<1>8. \A k \in 0..L : U(k) = S(k) + T(k)
  BY <1>7
<1> QED BY <1>8 DEF S, T, U

(* The cells of a part are those the code adds up for it and those it      *)
(* misses; so is their time.                                               *)
LEMMA CellsOfPart ==
  ASSUME NEW title \in Titles, NEW i \in DOMAIN title, Usable(title[i]),
         \A j \in DOMAIN title : HasPrograms(title[j]) => title[j].pgn <= Len(title[j].pgc.map)
  PROVE  /\ CellsOf(title, i) = PartCells(title[i]) \cup Missed(title, i)
         /\ PartCells(title[i]) \cap Missed(title, i) = {}
<1> DEFINE p == title[i]
           map == p.pgc.map
           next == {title[j].pgn : j \in {k \in DOMAIN title : title[k].pgc = p.pgc /\ title[k].pgn > p.pgn}}
           L == Len(p.pgc.cells)
           counted(n) == p.pgc.cells[n].block # "in"
<1>1. /\ L \in Nat /\ Len(map) \in Nat /\ DOMAIN map = 1..Len(map) /\ p.pgn \in Nat \ {0}
      /\ DOMAIN p.pgc.cells = 1..L /\ ProgramsInOrder(p.pgc)
  BY PartFields
<1>2. p.pgn \in 1..Len(map)
  BY <1>1 DEF Usable
<1>3. /\ \A q \in 1..Len(map) : map[q] \in 1..L
      /\ \A q, r \in 1..Len(map) : q < r => map[q] < map[r]
  BY <1>1 DEF ProgramsInOrder
<1>4. \A q \in next : q \in 1..Len(map) /\ p.pgn < q
  <2> SUFFICES ASSUME NEW k \in DOMAIN title, title[k].pgc = p.pgc, title[k].pgn > p.pgn
               PROVE  title[k].pgn \in 1..Len(map) /\ p.pgn < title[k].pgn
    OBVIOUS
  <2>1. HasPrograms(title[k])
    BY DEF Usable, HasPrograms
  <2>2. title[k].pgn \in Nat \ {0}
    BY PartFields
  <2>3. title[k].pgn <= Len(map)
    BY <2>1
  <2> QED BY <1>1, <2>2, <2>3
<1>5. CellsOf(title, i) = {n \in map[p.pgn]..L : counted(n) /\ \A q \in next : n < map[q]}
  BY DEF CellsOf
<1>6. CASE p.pgn = Len(map)
  <2>1. next = {}
    BY <1>1, <1>4, <1>6
  <2>2. CellsOf(title, i) = {n \in map[p.pgn]..L : counted(n)}
    BY <1>5, <2>1
  <2>3. Missed(title, i) = {n \in CellsOf(title, i) : n > map[p.pgn]}
    BY <1>6 DEF Missed
  <2>4. PartCells(p) = {n \in {map[p.pgn]} \cup map[p.pgn]..0 : counted(n)}
    <3>1. ~(p.pgn < Len(map))
      BY <1>1, <1>6
    <3> QED BY <3>1 DEF PartCells
  <2>5. map[p.pgn] \in 1..L
    BY <1>2, <1>3
  <2>6. map[p.pgn]..0 = {}
    BY <1>1, <2>5
  <2>7. \A n : n \in PartCells(p) <=> n = map[p.pgn] /\ counted(n)
    BY <2>4, <2>6
  <2>8. \A n : n \in CellsOf(title, i) <=> n \in map[p.pgn]..L /\ counted(n)
    BY <2>2
  <2>9. \A n : n \in Missed(title, i) <=> n \in map[p.pgn]..L /\ counted(n) /\ n > map[p.pgn]
    BY <2>3, <2>8
  <2>10. \A n : n \in map[p.pgn]..L => n = map[p.pgn] \/ n > map[p.pgn]
    BY <1>1, <2>5
  <2>11. map[p.pgn] \in map[p.pgn]..L /\ ~(map[p.pgn] > map[p.pgn])
    BY <1>1, <2>5
  <2> HIDE DEF map, L, counted, p, next
  <2>12. \A n : n \in CellsOf(title, i) <=> n \in PartCells(p) \/ n \in Missed(title, i)
    BY <2>7, <2>8, <2>9, <2>10, <2>11, Zenon
  <2>13. \A n : ~(n \in PartCells(p) /\ n \in Missed(title, i))
    BY <2>7, <2>9, <2>11, Zenon
  <2> QED BY <2>12, <2>13 DEF p
<1>7. CASE p.pgn < Len(map)
  <2>1. p.pgn + 1 \in 1..Len(map)
    BY <1>1, <1>7
  <2>2. map[p.pgn] \in 1..L /\ map[p.pgn + 1] \in 1..L /\ map[p.pgn] < map[p.pgn + 1]
    BY <1>1, <1>2, <1>3, <2>1
  <2>3. \A q \in next : map[q] \in 1..L /\ map[p.pgn + 1] <= map[q]
    <3> SUFFICES ASSUME NEW q \in next PROVE map[q] \in 1..L /\ map[p.pgn + 1] <= map[q]
      OBVIOUS
    <3>1. q \in 1..Len(map) /\ p.pgn < q
      BY <1>4
    <3>2. q = p.pgn + 1 \/ p.pgn + 1 < q
      BY <1>1, <3>1
    <3> QED BY <1>1, <1>3, <2>1, <2>2, <3>1, <3>2
  <2>4. Missed(title, i) = {n \in CellsOf(title, i) : n >= map[p.pgn + 1]}
    <3>1. p.pgn # Len(map)
      BY <1>1, <1>7
    <3> QED BY <3>1 DEF Missed
  <2>5. PartCells(p) = {n \in {map[p.pgn]} \cup map[p.pgn]..map[p.pgn + 1] - 1 : counted(n)}
    BY <1>7 DEF PartCells
  <2>6. map[p.pgn] \in map[p.pgn]..map[p.pgn + 1] - 1
    BY <2>2
  <2>7. \A n : n \in PartCells(p) <=> n \in map[p.pgn]..map[p.pgn + 1] - 1 /\ counted(n)
    BY <2>5, <2>6
  <2>8. \A n : n \in CellsOf(title, i)
             <=> n \in map[p.pgn]..L /\ counted(n) /\ \A q \in next : n < map[q]
    BY <1>5
  <2>9. \A n : n \in Missed(title, i) <=> n \in CellsOf(title, i) /\ n >= map[p.pgn + 1]
    BY <2>4
  <2>10. \A n : n \in map[p.pgn]..map[p.pgn + 1] - 1
              <=> n \in map[p.pgn]..L /\ ~(n >= map[p.pgn + 1])
    BY <1>1, <2>2
  <2>11. ASSUME NEW n \in map[p.pgn]..map[p.pgn + 1] - 1, NEW q \in next PROVE n < map[q]
    <3>1. map[q] \in 1..L /\ map[p.pgn + 1] <= map[q]
      BY <2>3
    <3>2. map[p.pgn] \in Int /\ map[p.pgn + 1] \in Int /\ L \in Int
      BY <1>1, <2>2
    <3> HIDE DEF next, L, map
    <3> QED BY <3>1, <3>2
  <2> HIDE DEF map, L, counted, p, next
  <2>12. \A n : n \in CellsOf(title, i) <=> n \in PartCells(p) \/ n \in Missed(title, i)
    BY <2>7, <2>8, <2>9, <2>10, <2>11, Zenon
  <2>13. \A n : ~(n \in PartCells(p) /\ n \in Missed(title, i))
    BY <2>7, <2>9, <2>10, Zenon
  <2> QED BY <2>12, <2>13 DEF p
<1> QED BY <1>2, <1>6, <1>7

(* The times of the parts, with the cells that are given for each.         *)
PartTimes(title, cells) ==
  [j \in DOMAIN title |-> IF Usable(title[j]) THEN TimeOf(title[j], cells[j]) ELSE 0]

LEMMA TimeOfPart ==
  ASSUME NEW title \in Titles, NEW j \in DOMAIN title, Usable(title[j])
  PROVE  /\ \A N : TimeOf(title[j], N) \in Nat
         /\ \A N, M : N \cap M = {} =>
              TimeOf(title[j], N \cup M) = TimeOf(title[j], N) + TimeOf(title[j], M)
<1> DEFINE c == title[j].pgc
           L == Len(c.cells)
           length == [n \in DOMAIN c.cells |-> c.cells[n].time]
<1>1. L \in Nat /\ DOMAIN c.cells = 1..L /\ \A n \in 1..L : c.cells[n].time \in Nat
  BY PartFields
<1>2. length \in [1..L -> Nat]
  BY <1>1
<1>3. \A N : TimeOf(title[j], N) = SumTo(L, length, N)
  BY DEF TimeOf
<1>4. L \in 0..L
  BY <1>1
<1> HIDE DEF length, L
<1>5. ASSUME NEW N PROVE SumTo(L, length, N) \in Nat
  BY <1>1, <1>2, <1>4, SumsTo
<1>6. ASSUME NEW N, NEW M, N \cap M = {}
      PROVE  SumTo(L, length, N \cup M) = SumTo(L, length, N) + SumTo(L, length, M)
  BY <1>1, <1>2, <1>4, <1>6, SumsSplit
<1> QED BY <1>3, <1>5, <1>6

LEMMA TimesOfParts ==
  ASSUME NEW title \in Titles, NEW cells
  PROVE  /\ PartTimes(title, cells) \in [1..Len(title) -> Nat]
         /\ \A k : Upto(title, cells, k) = SumTo(k, PartTimes(title, cells), 1..Len(title))
         /\ \A k \in 0..Len(title) : Upto(title, cells, k) \in Nat
         /\ Upto(title, cells, 0) = 0
         /\ \A k \in 1..Len(title) :
              Upto(title, cells, k) = Upto(title, cells, k - 1) + PartTimes(title, cells)[k]
<1> DEFINE f == PartTimes(title, cells)
<1>1. Len(title) \in Nat /\ DOMAIN title = 1..Len(title)
  BY PartFields
<1>2. f \in [1..Len(title) -> Nat]
  BY <1>1, TimeOfPart DEF PartTimes
<1>3. \A k : Upto(title, cells, k) = SumTo(k, f, 1..Len(title))
  BY <1>1 DEF Upto, PartTimes
<1> HIDE DEF f
<1>4. /\ \A k \in 0..Len(title) : SumTo(k, f, 1..Len(title)) \in Nat
      /\ SumTo(0, f, 1..Len(title)) = 0
      /\ \A k \in 1..Len(title) : SumTo(k, f, 1..Len(title))
                = SumTo(k - 1, f, 1..Len(title)) + AddedAt(k, f, 1..Len(title))
  BY <1>1, <1>2, SumsTo
<1>5. \A k \in 1..Len(title) : AddedAt(k, f, 1..Len(title)) = f[k]
  BY DEF AddedAt
<1>6. f = PartTimes(title, cells)
  BY DEF f
<1> QED BY <1>2, <1>3, <1>4, <1>5, <1>6

(* The times at the ends of the parts never decrease.                      *)
LEMMA TimesRise ==
  ASSUME NEW title \in Titles, NEW cells, NEW i \in 0..Len(title), NEW j \in 0..Len(title), i <= j
  PROVE  Upto(title, cells, i) <= Upto(title, cells, j)
<1> DEFINE U(k) == Upto(title, cells, k)
           f == PartTimes(title, cells)
           Good == {k \in Nat : i + k \in 0..Len(title) => U(i) <= U(i + k)}
<1>1. Len(title) \in Nat
  BY PartFields
<1>2. /\ f \in [1..Len(title) -> Nat]
      /\ \A k \in 0..Len(title) : U(k) \in Nat
      /\ \A k \in 1..Len(title) : U(k) = U(k - 1) + f[k]
  BY TimesOfParts
<1> HIDE DEF U, f
<1>3. 0 \in Good
  BY <1>2
<1>4. ASSUME NEW k \in Nat, k \in Good PROVE k + 1 \in Good
  <2> SUFFICES ASSUME i + (k + 1) \in 0..Len(title) PROVE U(i) <= U(i + (k + 1))
    OBVIOUS
  <2>1. i + k \in 0..Len(title) /\ i + (k + 1) \in 1..Len(title) /\ (i + (k + 1)) - 1 = i + k
    BY <1>1
  <2>2. U(i) <= U(i + k)
    BY <1>4, <2>1
  <2>3. f[i + (k + 1)] \in Nat
    BY <1>2, <2>1
  <2>4. U(i + (k + 1)) = U(i + k) + f[i + (k + 1)]
    BY <1>2, <2>1
  <2>5. U(i) \in Nat /\ U(i + k) \in Nat
    BY <1>2, <2>1
  <2> QED BY <2>2, <2>3, <2>4, <2>5
<1>5. \A k \in Nat : k \in Good
  <2> HIDE DEF Good
  <2> QED BY <1>3, <1>4, Induction
<1>6. j - i \in Nat /\ i + (j - i) = j
  OBVIOUS
<1>7. U(i) <= U(j)
  BY <1>5, <1>6
<1> QED BY <1>7 DEF U

(* What is counted of the parts and what is left out add up to the whole.  *)
LEMMA WholeIsSum ==
  ASSUME NEW title \in Titles,
         \A j \in DOMAIN title : HasPrograms(title[j]) => title[j].pgn <= Len(title[j].pgc.map)
  PROVE  Upto(title, Whole(title), Len(title))
           = Upto(title, Played(title), Len(title)) + Upto(title, LeftOut(title), Len(title))
<1> DEFINE W(k) == Upto(title, Whole(title), k)
           P(k) == Upto(title, Played(title), k)
           O(k) == Upto(title, LeftOut(title), k)
           w == PartTimes(title, Whole(title))
           p == PartTimes(title, Played(title))
           o == PartTimes(title, LeftOut(title))
           Good == {k \in Nat : k \in 0..Len(title) => W(k) = P(k) + O(k)}
<1>1. Len(title) \in Nat /\ DOMAIN title = 1..Len(title)
  BY PartFields
<1>2. /\ w \in [1..Len(title) -> Nat] /\ W(0) = 0
      /\ \A k \in 0..Len(title) : W(k) \in Nat
      /\ \A k \in 1..Len(title) : W(k) = W(k - 1) + w[k]
  BY TimesOfParts
<1>3. /\ p \in [1..Len(title) -> Nat] /\ P(0) = 0
      /\ \A k \in 0..Len(title) : P(k) \in Nat
      /\ \A k \in 1..Len(title) : P(k) = P(k - 1) + p[k]
  BY TimesOfParts
<1>4. /\ o \in [1..Len(title) -> Nat] /\ O(0) = 0
      /\ \A k \in 0..Len(title) : O(k) \in Nat
      /\ \A k \in 1..Len(title) : O(k) = O(k - 1) + o[k]
  BY TimesOfParts
<1>5. ASSUME NEW k \in 1..Len(title) PROVE w[k] = p[k] + o[k]
  <2>1. CASE Usable(title[k])
    <3>1. k \in UsableParts(title)
      BY <1>1, <2>1 DEF UsableParts
    <3>2. /\ w[k] = TimeOf(title[k], CellsOf(title, k))
          /\ p[k] = TimeOf(title[k], PartCells(title[k]))
          /\ o[k] = TimeOf(title[k], Missed(title, k))
      BY <1>1, <2>1, <3>1 DEF PartTimes, Whole, Played, LeftOut
    <3>3. /\ CellsOf(title, k) = PartCells(title[k]) \cup Missed(title, k)
          /\ PartCells(title[k]) \cap Missed(title, k) = {}
      BY <1>1, <2>1, CellsOfPart
    <3> QED BY <1>1, <2>1, <3>2, <3>3, TimeOfPart
  <2>2. CASE ~Usable(title[k])
    <3>1. w[k] = 0 /\ p[k] = 0 /\ o[k] = 0
      BY <1>1, <2>2 DEF PartTimes
    <3> QED BY <3>1
  <2> QED BY <2>1, <2>2
<1> HIDE DEF W, P, O, w, p, o
<1>6. 0 \in Good
  BY <1>2, <1>3, <1>4
<1>7. ASSUME NEW k \in Nat, k \in Good PROVE k + 1 \in Good
  <2> SUFFICES ASSUME k + 1 \in 0..Len(title) PROVE W(k + 1) = P(k + 1) + O(k + 1)
    OBVIOUS
  <2>1. k \in 0..Len(title) /\ k + 1 \in 1..Len(title) /\ (k + 1) - 1 = k
    BY <1>1
  <2>2. W(k) = P(k) + O(k) /\ P(k) \in Nat /\ O(k) \in Nat
    BY <1>3, <1>4, <1>7, <2>1
  <2>3. p[k + 1] \in Nat /\ o[k + 1] \in Nat
    BY <1>3, <1>4, <2>1
  <2>4. W(k + 1) = W(k) + w[k + 1] /\ P(k + 1) = P(k) + p[k + 1] /\ O(k + 1) = O(k) + o[k + 1]
    BY <1>2, <1>3, <1>4, <2>1
  <2>5. w[k + 1] = p[k + 1] + o[k + 1]
    BY <1>5, <2>1
  <2> QED BY <2>2, <2>3, <2>4, <2>5
<1>8. \A k \in Nat : k \in Good
  <2> HIDE DEF Good
  <2> QED BY <1>6, <1>7, Induction
<1>9. W(Len(title)) = P(Len(title)) + O(Len(title))
  BY <1>1, <1>8
<1> QED BY <1>9 DEF W, P, O

(* For every set of titles, however parts share chains and whatever their  *)
(* order, the chapter times of dvdnav_describe_title_chapters never        *)
(* decrease, and the duration is the time of all cells but those left out  *)
(* of the last program of a chain and of parts of several programs.        *)
THEOREM ChaptersAreCovered == Spec => []ChaptersCover
<1>1. ChaptersCover
  <2> SUFFICES ASSUME NEW title \in Titles, Chapters(title).times # <<>>
               PROVE  LET c == Chapters(title)
                          timed == {i \in UsableParts(title) : PartCells(title[i]) # {}}
                      IN  /\ c.duration = Upto(title, Whole(title), Len(title))
                                          - Upto(title, LeftOut(title), Len(title))
                          /\ \A i, j \in timed : i < j => c.times[i] <= c.times[j]
                          /\ \A i \in timed : c.times[i] <= c.duration
    BY DEF ChaptersCover
  <2> DEFINE U(k) == Upto(title, Played(title), k)
             timed == {i \in UsableParts(title) : PartCells(title[i]) # {}}
             c == Chapters(title)
  <2>1. Len(title) \in Nat /\ DOMAIN title = 1..Len(title)
    BY PartFields
  <2>2. ~\E i \in DOMAIN title : HasPrograms(title[i]) /\ title[i].pgn > Len(title[i].pgc.map)
    BY DEF Chapters
  <2>3. \A j \in DOMAIN title : HasPrograms(title[j]) => title[j].pgn <= Len(title[j].pgc.map)
    <3> SUFFICES ASSUME NEW j \in DOMAIN title, HasPrograms(title[j])
                 PROVE  title[j].pgn <= Len(title[j].pgc.map)
      OBVIOUS
    <3>1. title[j].pgn \in Nat
      BY PartFields
    <3>2. Len(title[j].pgc.map) \in Nat
      <4>1. title[j] \in PartType
        BY TitlesAssumption, <2>1
      <4>2. title[j].pgc \in ChainType
        BY <4>1 DEF PartType, HasPrograms
      <4>3. title[j].pgc.map \in Seq(Nat)
        BY <4>2 DEF ChainType
      <4> QED BY <4>3
    <3> QED BY <2>2, <3>1, <3>2
  <2>4. c = [times |-> [i \in DOMAIN title |->
                          IF Usable(title[i]) /\ PartCells(title[i]) # {} THEN U(i) ELSE 0],
             duration |-> U(Len(title))]
    BY <2>2, Zenon DEF Chapters
  <2>5. c.duration = U(Len(title)) /\ \A i \in timed : c.times[i] = U(i) /\ i \in 1..Len(title)
    BY <2>1, <2>4 DEF UsableParts
  <2>6. Upto(title, Whole(title), Len(title)) = U(Len(title)) + Upto(title, LeftOut(title), Len(title))
    BY <2>3, WholeIsSum
  <2>7. U(Len(title)) \in Nat /\ Upto(title, LeftOut(title), Len(title)) \in Nat
    <3>1. Len(title) \in 0..Len(title)
      BY <2>1
    <3> QED BY <3>1, TimesOfParts
  <2>8. \A i, j \in 1..Len(title) : i <= j => U(i) <= U(j)
    BY <2>1, TimesRise
  <2> HIDE DEF U, timed, c
  <2>9. c.duration = Upto(title, Whole(title), Len(title)) - Upto(title, LeftOut(title), Len(title))
    BY <2>5, <2>6, <2>7
  <2>10. \A i, j \in timed : i < j => c.times[i] <= c.times[j]
    BY <2>1, <2>5, <2>8
  <2>11. \A i \in timed : c.times[i] <= c.duration
    <3>1. \A i \in 1..Len(title) : i <= Len(title) /\ Len(title) \in 1..Len(title)
      BY <2>1
    <3> QED BY <2>5, <2>8, <3>1
  <2> QED BY <2>9, <2>10, <2>11 DEF timed, c
<1> QED BY <1>1, PTL
=============================================================================
