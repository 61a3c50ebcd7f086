----------------------------- MODULE PartsProofs -----------------------------
(***************************************************************************)
(* Proofs about block remapping (Remap), the streams the machine announces *)
(* (Streams) and the buttons of menus (Buttons), for all maps, lists of    *)
(* ranges, chains, control words and screens.                              *)
(*                                                                         *)
(* Where a search or a recursive function is reasoned about, induction is  *)
(* replaced by a least counterexample, which the naturals always have.     *)
(***************************************************************************)
EXTENDS Remap, Streams, Buttons, FiniteSetTheorems, WellFoundedInduction, TLAPS

(* Every set of naturals has a least element. *)
LEMMA LeastNatural ==
  ASSUME NEW S \in SUBSET Nat, S # {}
  PROVE  \E n \in S : \A m \in S : n <= m
<1>1. IsWellFoundedOn(OpToRel(<, Nat), Nat)
  BY NatLessThanWellFounded
<1>2. \E n \in S : \A m \in S : <<m, n>> \notin OpToRel(<, Nat)
  BY <1>1, WFMin
<1>3. \A m, n \in Nat : m < n => <<m, n>> \in OpToRel(<, Nat)
  BY DEF OpToRel
<1>4. PICK n \in S : \A m \in S : <<m, n>> \notin OpToRel(<, Nat)
  BY <1>2
<1>5. \A m \in S : ~(m < n)
  BY <1>3, <1>4
<1>6. \A m \in S : n <= m
  BY <1>5
<1> QED BY <1>6

-----------------------------------------------------------------------------
(* The binary search *)

(* One step of it: what it finds between r[1] and r[2], when g says what it *)
(* finds in narrower intervals.                                             *)
Look(map, key, g, r) ==
  LET mid == r[1] + (r[2] - r[1]) \div 2
      res == Compare(key, map[mid])
  IN  IF r[1] > r[2] THEN NotFound
      ELSE IF res < 0 THEN g[<<r[1], mid - 1>>]
      ELSE IF res > 0 THEN g[<<mid + 1, r[2]>>]
      ELSE mid

Intervals(n) == (1..n + 1) \X (0..n)
Width(r) == r[2] - r[1] + 1
Middle(r) == r[1] + (r[2] - r[1]) \div 2

(* Both halves of an interval around its middle are narrower than it.      *)
LEMMA Halves ==
  ASSUME NEW n \in Nat, NEW r \in Intervals(n)
  PROVE  /\ r[1] \in 1..n + 1 /\ r[2] \in 0..n /\ Width(r) \in Int
         /\ r[1] > r[2] <=> Width(r) <= 0
         /\ r[1] <= r[2] =>
              LET low == <<r[1], Middle(r) - 1>>
                  high == <<Middle(r) + 1, r[2]>>
              IN  /\ Middle(r) \in r[1]..r[2] /\ Middle(r) \in 1..n
                  /\ low \in Intervals(n) /\ Width(low) < Width(r)
                  /\ high \in Intervals(n) /\ Width(high) < Width(r)
<1>1. r[1] \in 1..n + 1 /\ r[2] \in 0..n
  BY DEF Intervals
<1>2. r[1] <= r[2] => Middle(r) \in r[1]..r[2]
  BY <1>1 DEF Middle
<1>3. r[1] <= r[2] => Middle(r) \in 1..n
  BY <1>1, <1>2
<1>4. ASSUME r[1] <= r[2]
      PROVE  LET low == <<r[1], Middle(r) - 1>>
                 high == <<Middle(r) + 1, r[2]>>
             IN  /\ low \in Intervals(n) /\ Width(low) < Width(r)
                 /\ high \in Intervals(n) /\ Width(high) < Width(r)
  BY <1>1, <1>2, <1>3, <1>4 DEF Intervals, Width
<1> QED BY <1>1, <1>2, <1>3, <1>4 DEF Width

(* The step with the middle of the interval by its name.                   *)
LEMMA LookUnfolds ==
  ASSUME NEW map, NEW key, NEW g, NEW r
  PROVE  Look(map, key, g, r) =
           IF r[1] > r[2] THEN NotFound
           ELSE IF Compare(key, map[Middle(r)]) < 0 THEN g[<<r[1], Middle(r) - 1>>]
           ELSE IF Compare(key, map[Middle(r)]) > 0 THEN g[<<Middle(r) + 1, r[2]>>]
           ELSE Middle(r)
BY DEF Look, Middle

(* The search ends: the recursive function is one.  If it were not, there  *)
(* would be a least width up to which no function does what Look says.     *)
LEMMA SearchIsFunction ==
  ASSUME NEW map, NEW key, NEW n \in Nat
  PROVE  \E g : g = [r \in Intervals(n) |-> Look(map, key, g, r)]
<1> DEFINE D == Intervals(n)
           L(g, r) == Look(map, key, g, r)
           UpTo(k) == \E g \in [D -> Nat] : \A r \in D : Width(r) <= k => g[r] = L(g, r)
           Bad == {k \in Nat : ~UpTo(k)}
<1>1. \A r \in D : Width(r) \in Int /\ Width(r) <= n
  <2> SUFFICES ASSUME NEW r \in D PROVE Width(r) \in Int /\ Width(r) <= n
    OBVIOUS
  <2>1. r[1] \in 1..n + 1 /\ r[2] \in 0..n
    BY Halves
  <2> QED BY <2>1 DEF Width
<1>2. ASSUME NEW g \in [D -> Nat], NEW r \in D PROVE L(g, r) \in Nat
  <2> DEFINE low == <<r[1], Middle(r) - 1>>
             high == <<Middle(r) + 1, r[2]>>
  <2>1. CASE r[1] > r[2]
    BY <2>1, LookUnfolds DEF NotFound
  <2>2. CASE r[1] <= r[2]
    <3>1. low \in D /\ high \in D /\ Middle(r) \in 1..n
      BY <2>2, Halves
    <3>2. g[low] \in Nat /\ g[high] \in Nat /\ Middle(r) \in Nat
      BY <3>1
    <3> HIDE DEF D
    <3> QED BY <2>2, <3>2, LookUnfolds DEF NotFound
  <2>3. r[1] \in 1..n + 1 /\ r[2] \in 0..n
    BY Halves
  <2> QED BY <2>1, <2>2, <2>3
<1>3. UpTo(0)
  <2> DEFINE g == [r \in D |-> 0]
  <2>1. \A r \in D : Width(r) <= 0 => L(g, r) = 0
    BY LookUnfolds, Halves DEF NotFound
  <2>2. g \in [D -> Nat]
    OBVIOUS
  <2> QED BY <2>1, <2>2
<1>4. ASSUME NEW k \in Nat, UpTo(k) PROVE UpTo(k + 1)
  <2>1. PICK g \in [D -> Nat] : \A r \in D : Width(r) <= k => g[r] = L(g, r)
    BY <1>4
  <2> DEFINE h == [r \in D |-> L(g, r)]
  <2>2. h \in [D -> Nat]
    BY <1>2
  <2>3. \A r \in D : Width(r) <= k => h[r] = g[r]
    BY <2>1
  <2> HIDE DEF h
  <2>4. ASSUME NEW r \in D, Width(r) <= k + 1 PROVE L(h, r) = L(g, r)
    <3>1. CASE r[1] > r[2]
      BY <3>1, LookUnfolds
    <3>2. CASE r[1] <= r[2]
      <4> DEFINE low == <<r[1], Middle(r) - 1>>
                 high == <<Middle(r) + 1, r[2]>>
      <4>1. low \in D /\ high \in D /\ Width(low) <= k /\ Width(high) <= k
        BY <1>1, <2>4, <3>2, Halves
      <4>2. h[low] = g[low] /\ h[high] = g[high]
        BY <2>3, <4>1
      <4> HIDE DEF D
      <4> QED BY <4>2, LookUnfolds
    <3>3. r[1] \in 1..n + 1 /\ r[2] \in 0..n
      BY Halves
    <3> QED BY <3>1, <3>2, <3>3
  <2>5. \A r \in D : Width(r) <= k + 1 => h[r] = L(h, r)
    BY <2>4 DEF h
  <2> QED BY <2>2, <2>5
<1>5. Bad = {}
  <2> SUFFICES ASSUME Bad # {} PROVE FALSE
    OBVIOUS
  <2>1. Bad \in SUBSET Nat
    OBVIOUS
  <2>2. PICK m \in Bad : \A k \in Bad : m <= k
    BY <2>1, LeastNatural
  <2>3. m \in Nat /\ m # 0
    BY <1>3, <2>2
  <2>4. m - 1 \in Nat /\ m - 1 \notin Bad
    BY <2>2, <2>3
  <2>5. UpTo(m - 1)
    BY <2>4
  <2>6. UpTo(m - 1 + 1)
    BY <1>4, <2>4, <2>5
  <2> HIDE DEF UpTo
  <2>7. UpTo(m)
    BY <2>3, <2>6
  <2> QED BY <2>2, <2>7
<1>6. UpTo(n)
  BY <1>5
<1>7. PICK g \in [D -> Nat] : \A r \in D : Width(r) <= n => g[r] = L(g, r)
  BY <1>6
<1>8. g = [r \in D |-> L(g, r)]
  BY <1>1, <1>7
<1> QED BY <1>8

(* What it finds overlaps the key; it finds nothing only if nothing does,  *)
(* when the entries are in order.                                          *)
InOrderAround(map, key) ==
  \A i, j \in 1..Len(map) :
     i < j => /\ Compare(key, map[i]) < 0 => Compare(key, map[j]) < 0
              /\ Compare(key, map[j]) > 0 => Compare(key, map[i]) > 0

(* What a search of an array finds, by the least width at which it would   *)
(* be wrong.                                                               *)
LEMMA Search ==
  ASSUME NEW map, NEW key, Len(map) \in Nat,
         \A i \in 1..Len(map) : Compare(key, map[i]) \in {-1, 0, 1}
  PROVE  LET i == FindBlock(map, key)
         IN  /\ i = NotFound \/ (i \in 1..Len(map) /\ Compare(key, map[i]) = 0)
             /\ i = NotFound /\ InOrderAround(map, key) =>
                  \A j \in 1..Len(map) : Compare(key, map[j]) # 0
<1> DEFINE n == Len(map)
           D == Intervals(n)
           L(g, r) == Look(map, key, g, r)
           f == CHOOSE g : g = [r \in D |-> L(g, r)]
           Right(r) ==
             /\ f[r] = NotFound \/ (f[r] \in 1..n /\ Compare(key, map[f[r]]) = 0)
             /\ f[r] = NotFound /\ InOrderAround(map, key) =>
                  \A j \in r[1]..r[2] : Compare(key, map[j]) # 0
           Bad == {k \in Nat : \E r \in D : Width(r) <= k /\ ~Right(r)}
<1>1. f = [r \in D |-> L(f, r)]
  BY SearchIsFunction, Zenon
<1>2. FindBlock(map, key) = f[<<1, n>>]
  BY Zenon DEF FindBlock, Look, Intervals
<1> HIDE DEF f
<1>3. ASSUME NEW r \in D, \A s \in D : Width(s) < Width(r) => Right(s) PROVE Right(r)
  <2>0. f[r] = IF r[1] > r[2] THEN NotFound
               ELSE IF Compare(key, map[Middle(r)]) < 0 THEN f[<<r[1], Middle(r) - 1>>]
               ELSE IF Compare(key, map[Middle(r)]) > 0 THEN f[<<Middle(r) + 1, r[2]>>]
               ELSE Middle(r)
    BY <1>1, LookUnfolds
  <2>00. r[1] \in 1..n + 1 /\ r[2] \in 0..n
    BY Halves
  <2>1. CASE r[1] > r[2]
    <3>1. f[r] = NotFound /\ r[1]..r[2] = {}
      BY <2>0, <2>00, <2>1
    <3> QED BY <3>1
  <2>2. CASE r[1] <= r[2]
    <3> DEFINE low == <<r[1], Middle(r) - 1>>
               high == <<Middle(r) + 1, r[2]>>
    <3>1. low \in D /\ high \in D /\ Middle(r) \in 1..n /\ Middle(r) \in r[1]..r[2]
      BY <2>2, Halves
    <3>2. Right(low) /\ Right(high)
      BY <1>3, <2>2, Halves
    <3>3. r[1] \in 1..n + 1 /\ r[2] \in 0..n
      BY Halves
    <3>4. \A j \in r[1]..r[2] : j \in 1..n
      BY <3>3
    <3>5. CASE Compare(key, map[Middle(r)]) < 0
      <4>1. f[r] = f[low]
        BY <2>0, <2>2, <3>3, <3>5
      <4>2. InOrderAround(map, key) => \A j \in Middle(r)..r[2] : Compare(key, map[j]) # 0
        <5> SUFFICES ASSUME InOrderAround(map, key), NEW j \in Middle(r)..r[2]
                     PROVE  Compare(key, map[j]) # 0
          OBVIOUS
        <5>1. j \in 1..n /\ (j = Middle(r) \/ Middle(r) < j)
          BY <3>1, <3>3
        <5> QED BY <3>1, <3>5, <5>1 DEF InOrderAround
      <4>3. \A j \in r[1]..r[2] : j \in r[1]..Middle(r) - 1 \/ j \in Middle(r)..r[2]
        BY <3>1, <3>3
      <4>4. Right(low) /\ low[1] = r[1] /\ low[2] = Middle(r) - 1
        BY <3>2
      <4> HIDE DEF low
      <4> QED BY <4>1, <4>2, <4>3, <4>4
    <3>6. CASE Compare(key, map[Middle(r)]) > 0
      <4>0. Compare(key, map[Middle(r)]) = 1
        BY <3>1, <3>6
      <4>1. f[r] = f[high]
        BY <2>0, <2>2, <3>3, <4>0
      <4>2. InOrderAround(map, key) => \A j \in r[1]..Middle(r) : Compare(key, map[j]) # 0
        <5> SUFFICES ASSUME InOrderAround(map, key), NEW j \in r[1]..Middle(r)
                     PROVE  Compare(key, map[j]) # 0
          OBVIOUS
        <5>1. j \in 1..n /\ (j = Middle(r) \/ j < Middle(r))
          BY <3>1, <3>3
        <5> QED BY <3>1, <3>6, <5>1 DEF InOrderAround
      <4>3. \A j \in r[1]..r[2] : j \in r[1]..Middle(r) \/ j \in Middle(r) + 1..r[2]
        BY <3>1, <3>3
      <4>4. Right(high) /\ high[1] = Middle(r) + 1 /\ high[2] = r[2]
        BY <3>2
      <4> HIDE DEF high
      <4> QED BY <4>1, <4>2, <4>3, <4>4
    <3>7. CASE Compare(key, map[Middle(r)]) = 0
      <4>1. f[r] = Middle(r)
        BY <2>0, <2>2, <3>3, <3>7
      <4> QED BY <3>1, <3>7, <4>1 DEF NotFound
    <3> QED BY <3>1, <3>5, <3>6, <3>7
  <2> QED BY <2>00, <2>1, <2>2
<1>4. Bad = {}
  <2> SUFFICES ASSUME Bad # {} PROVE FALSE
    OBVIOUS
  <2> HIDE DEF Right
  <2>1. PICK m \in Bad : \A k \in Bad : m <= k
    BY LeastNatural
  <2>2. PICK r \in D : Width(r) <= m /\ ~Right(r)
    BY <2>1
  <2>3. PICK s \in D : Width(s) < Width(r) /\ ~Right(s)
    BY <1>3, <2>2
  <2>4. Width(r) \in Int /\ Width(s) \in Int /\ m \in Nat
    BY <2>1, Halves
  <2>5. CASE m = 0
    <3>1. r[1] > r[2] /\ r[1] \in 1..n + 1 /\ r[2] \in 0..n
      BY <2>2, <2>5, Halves
    <3>2. f[r] = NotFound
      BY <1>1, <3>1, LookUnfolds
    <3>3. r[1]..r[2] = {}
      BY <3>1
    <3> QED BY <2>2, <3>2, <3>3 DEF Right
  <2>6. CASE m # 0
    <3>1. m - 1 \in Nat /\ Width(s) <= m - 1
      BY <2>2, <2>3, <2>4, <2>6
    <3>2. m - 1 \in Bad
      BY <2>3, <3>1
    <3> QED BY <2>1, <2>4, <3>2
  <2> QED BY <2>5, <2>6
<1>5. <<1, n>> \in D /\ Width(<<1, n>>) <= n
  BY DEF Intervals, Width
<1>6. Right(<<1, n>>)
  BY <1>4, <1>5
<1> QED BY <1>2, <1>6

-----------------------------------------------------------------------------
(* The order of ranges *)

Ranges == [place : Places, start : Blocks, end : Blocks]
Before(a, b) == Precedes(a.place, b.place) \/ (a.place = b.place /\ a.end < b.start)
Forward(a) == a.start <= a.end

(* What ranges consist of, and the order of places, field by field.        *)
LEMMA RangeParts ==
  ASSUME NEW a \in Ranges
  PROVE  /\ a.place \in Places /\ a.start \in Blocks /\ a.end \in Blocks
         /\ a.start \in Nat /\ a.end \in Nat
<1>1. a.place \in Places /\ a.start \in Blocks /\ a.end \in Blocks
  BY DEF Ranges
<1> QED BY <1>1, BlocksAssumption

LEMMA Places3 ==
  ASSUME NEW p \in Places, NEW q \in Places
  PROVE  /\ p[1] \in Int /\ p[2] \in Int /\ p[3] \in Int
         /\ p = <<p[1], p[2], p[3]>>
         /\ Precedes(p, q) <=>
              \/ p[1] < q[1]
              \/ p[1] = q[1] /\ p[2] < q[2]
              \/ p[1] = q[1] /\ p[2] = q[2] /\ p[3] < q[3]
<1>1. p \in Int \X Int \X Int
  BY PlacesAssumption
<1>2. \A i \in 1..3 : i \in {1, 2, 3}
  OBVIOUS
<1>3. 1..1 - 1 = {} /\ 1..2 - 1 = {1} /\ 1..3 - 1 = {1, 2}
  OBVIOUS
<1>4. Precedes(p, q) <=> \E i \in {1, 2, 3} : p[i] < q[i] /\ \A j \in 1..i - 1 : p[j] = q[j]
  BY <1>2 DEF Precedes
<1>5. Precedes(p, q) <=>
        \/ p[1] < q[1]
        \/ p[1] = q[1] /\ p[2] < q[2]
        \/ p[1] = q[1] /\ p[2] = q[2] /\ p[3] < q[3]
  BY <1>3, <1>4
<1> QED BY <1>1, <1>5

(* Places are in a strict total order.                                     *)
LEMMA PlacesInOrder ==
  ASSUME NEW p \in Places, NEW q \in Places, NEW r \in Places
  PROVE  /\ Precedes(p, q) \/ Precedes(q, p) \/ p = q
         /\ ~Precedes(p, p)
         /\ ~(Precedes(p, q) /\ Precedes(q, p))
         /\ Precedes(p, q) /\ Precedes(q, r) => Precedes(p, r)
<1>1. /\ p[1] \in Int /\ p[2] \in Int /\ p[3] \in Int
      /\ q[1] \in Int /\ q[2] \in Int /\ q[3] \in Int
      /\ r[1] \in Int /\ r[2] \in Int /\ r[3] \in Int
  BY Places3
<1>2. p[1] = q[1] /\ p[2] = q[2] /\ p[3] = q[3] => p = q
  BY Places3
<1> QED BY <1>1, <1>2, Places3

(* What compare_block's three results say of two ranges.                   *)
LEMMA Comparing ==
  ASSUME NEW a \in Ranges, NEW b \in Ranges
  PROVE  /\ Compare(a, b) \in {-1, 0, 1}
         /\ Compare(a, b) < 0 <=> Before(a, b)
         /\ Compare(a, b) > 0 <=> Before(b, a) /\ ~Before(a, b)
         /\ Compare(a, b) = 0 <=> a.place = b.place /\ b.start <= a.end /\ a.start <= b.end
<1>1. a.place \in Places /\ b.place \in Places
  BY RangeParts
<1>2. a.start \in Nat /\ a.end \in Nat /\ b.start \in Nat /\ b.end \in Nat
  BY RangeParts
<1> DEFINE P == Precedes(a.place, b.place)
           Q == Precedes(b.place, a.place)
<1>3. (P \/ Q \/ a.place = b.place) /\ ~(P /\ Q) /\ (a.place = b.place => ~P /\ ~Q)
  BY <1>1, PlacesInOrder
<1>4. CASE P
  BY <1>3, <1>4 DEF Compare, Before
<1>5. CASE Q
  BY <1>3, <1>5 DEF Compare, Before
<1>6. CASE a.place = b.place
  <2>1. Compare(a, b) = IF a.end < b.start THEN -1 ELSE IF a.start > b.end THEN 1 ELSE 0
    BY <1>3, <1>6 DEF Compare
  <2>2. Before(a, b) <=> a.end < b.start
    BY <1>3, <1>6 DEF Before
  <2>3. Before(b, a) <=> b.end < a.start
    BY <1>3, <1>6 DEF Before
  <2> QED BY <1>2, <1>6, <2>1, <2>2, <2>3
<1> QED BY <1>3, <1>4, <1>5, <1>6

(* Ranges that do not end before their start are in a strict order.        *)
LEMMA BeforeIsOrder ==
  ASSUME NEW a \in Ranges, NEW b \in Ranges, NEW c \in Ranges
  PROVE  /\ Forward(b) /\ Before(a, b) /\ Before(b, c) => Before(a, c)
         /\ Forward(a) /\ Forward(b) => ~(Before(a, b) /\ Before(b, a))
<1>1. a.place \in Places /\ b.place \in Places /\ c.place \in Places
  BY RangeParts
<1>2. /\ a.start \in Nat /\ a.end \in Nat /\ b.start \in Nat /\ b.end \in Nat
      /\ c.start \in Nat
  BY RangeParts
<1>3. Forward(b) /\ Before(a, b) /\ Before(b, c) => Before(a, c)
  BY <1>1, <1>2, PlacesInOrder DEF Before, Forward
<1>4. Forward(a) /\ Forward(b) => ~(Before(a, b) /\ Before(b, a))
  BY <1>1, <1>2, PlacesInOrder DEF Before, Forward
<1> QED BY <1>3, <1>4

(* The block remap_block looks for.                                        *)
OneBlock(place, n) == [place |-> place, start |-> n, end |-> n]

(* findblock in the map, in whatever order its entries are: the entry it   *)
(* finds overlaps the key.                                                 *)
LEMMA Finds ==
  ASSUME NEW map \in Seq(Ranges), NEW key \in Ranges
  PROVE  LET i == FindBlock(map, key)
         IN  i = NotFound \/ (i \in 1..Len(map) /\ Compare(key, map[i]) = 0)
<1>1. Len(map) \in Nat /\ \A i \in 1..Len(map) : map[i] \in Ranges
  OBVIOUS
<1>2. \A i \in 1..Len(map) : Compare(key, map[i]) \in {-1, 0, 1}
  BY <1>1, Comparing
<1> QED BY <1>1, <1>2, Search

(* Entries in order, none of which ends before its start. *)
InOrder(map) ==
  /\ \A i \in 1..Len(map) : Forward(map[i])
  /\ \A i, j \in 1..Len(map) : i < j => Before(map[i], map[j])

(* When they are in order, it finds one if there is one.                   *)
LEMMA FindsAny ==
  ASSUME NEW map \in Seq(Ranges), NEW key \in Ranges, Forward(key), InOrder(map),
         FindBlock(map, key) = NotFound
  PROVE  \A j \in 1..Len(map) : Compare(key, map[j]) # 0
<1>1. Len(map) \in Nat /\ \A i \in 1..Len(map) : map[i] \in Ranges
  OBVIOUS
<1>2. \A i \in 1..Len(map) : Compare(key, map[i]) \in {-1, 0, 1}
  BY <1>1, Comparing
<1>3. InOrderAround(map, key)
  <2> SUFFICES ASSUME NEW i \in 1..Len(map), NEW j \in 1..Len(map), i < j
               PROVE  /\ Compare(key, map[i]) < 0 => Compare(key, map[j]) < 0
                      /\ Compare(key, map[j]) > 0 => Compare(key, map[i]) > 0
    BY DEF InOrderAround
  <2>1. map[i] \in Ranges /\ map[j] \in Ranges /\ Before(map[i], map[j])
        /\ Forward(map[i]) /\ Forward(map[j])
    BY <1>1 DEF InOrder
  <2>2. Before(key, map[i]) => Before(key, map[j])
    BY <2>1, BeforeIsOrder
  <2>3. Before(map[j], key) => Before(map[i], key) /\ ~Before(key, map[i])
    BY <2>1, BeforeIsOrder
  <2> QED BY <2>1, <2>2, <2>3, Comparing
<1> QED BY <1>1, <1>2, <1>3, Search

-----------------------------------------------------------------------------
(* The map and the lines it was made of *)

TypeInv == blocks \in Seq(Ranges) /\ added \in Seq(Lines)
(* Two blocks in a row that an entry holds are linked by a line. *)
Linked ==
  \A i \in 1..Len(blocks) : \A k \in Nat :
     blocks[i].start <= k /\ k < blocks[i].end => Linking(blocks[i].place, k) # {}

(* The entries after one was inserted behind the first `at'.               *)
LEMMA Joining ==
  ASSUME NEW S, NEW a \in Seq(S), NEW b \in Seq(S)
  PROVE  /\ a \o b \in Seq(S) /\ Len(a \o b) = Len(a) + Len(b)
         /\ \A i \in 1..Len(a) + Len(b) :
              (a \o b)[i] = IF i <= Len(a) THEN a[i] ELSE b[i - Len(a)]
OBVIOUS

LEMMA Inserted ==
  ASSUME NEW map \in Seq(Ranges), NEW r \in Ranges, NEW at \in 0..Len(map)
  PROVE  LET new == InsertAt(map, at + 1, r)
         IN  /\ new \in Seq(Ranges) /\ Len(new) = Len(map) + 1
             /\ \A i \in 1..Len(map) + 1 :
                  new[i] = IF i <= at THEN map[i] ELSE IF i = at + 1 THEN r ELSE map[i - 1]
<1> DEFINE low == SubSeq(map, 1, at)
           high == SubSeq(map, at + 1, Len(map))
           new == InsertAt(map, at + 1, r)
<1>1. low \in Seq(Ranges) /\ Len(low) = at /\ \A i \in 1..at : low[i] = map[i]
  OBVIOUS
<1>2. high \in Seq(Ranges) /\ Len(high) = Len(map) - at
      /\ \A i \in 1..Len(map) - at : high[i] = map[at + i]
  OBVIOUS
<1>3. new = (low \o <<r>>) \o high
  <2>1. (at + 1) - 1 = at
    OBVIOUS
  <2>2. SubSeq(map, 1, (at + 1) - 1) = low
    BY <2>1
  <2>3. InsertAt(map, at + 1, r) = SubSeq(map, 1, (at + 1) - 1) \o <<r>> \o SubSeq(map, at + 1, Len(map))
    BY DEF InsertAt
  <2> HIDE DEF low
  <2> QED BY <2>2, <2>3
<1> HIDE DEF low, high, new
<1> DEFINE front == low \o <<r>>
<1>4. front \in Seq(Ranges) /\ Len(front) = at + 1
      /\ \A i \in 1..at + 1 : front[i] = IF i <= at THEN map[i] ELSE r
  BY <1>1
<1> HIDE DEF front
<1>5. new = front \o high
  BY <1>3 DEF front
<1>6. /\ new \in Seq(Ranges) /\ Len(new) = Len(map) + 1
      /\ \A i \in 1..Len(map) + 1 : new[i] = IF i <= at + 1 THEN front[i] ELSE high[i - (at + 1)]
  <2>1. Len(front) + Len(high) = Len(map) + 1
    BY <1>2, <1>4
  <2> QED BY <1>2, <1>4, <1>5, <2>1, Joining
<1>7. ASSUME NEW i \in 1..Len(map) + 1
      PROVE  new[i] = IF i <= at THEN map[i] ELSE IF i = at + 1 THEN r ELSE map[i - 1]
  <2>1. CASE i <= at + 1
    BY <1>4, <1>6, <2>1
  <2>2. CASE i > at + 1
    <3>1. i - (at + 1) \in 1..Len(map) - at /\ at + (i - (at + 1)) = i - 1
      BY <2>2
    <3>2. new[i] = high[i - (at + 1)]
      BY <1>6, <2>2
    <3>3. high[i - (at + 1)] = map[at + (i - (at + 1))]
      BY <1>2, <3>1
    <3>4. ~(i <= at) /\ i # at + 1
      BY <2>2
    <3> QED BY <3>1, <3>2, <3>3, <3>4, Zenon
  <2> QED BY <2>1, <2>2
<1> QED BY <1>6, <1>7 DEF new

(* Where AddNode inserts: behind the last entry the range does not precede. *)
Place(map, r) ==
  LET kept == {n \in 0..Len(map) : n = 0 \/ Compare(r, map[n]) >= 0}
  IN  CHOOSE n \in kept : \A m \in kept : m <= n

(* That place, and what the range precedes.                                *)
LEMMA PlaceIsLast ==
  ASSUME NEW map \in Seq(Ranges), NEW r \in Ranges
  PROVE  LET at == Place(map, r)
         IN  /\ at \in 0..Len(map)
             /\ at = 0 \/ Compare(r, map[at]) >= 0
             /\ \A n \in 1..Len(map) : n > at => Compare(r, map[n]) < 0
<1> DEFINE kept == {n \in 0..Len(map) : n = 0 \/ Compare(r, map[n]) >= 0}
           gaps == {Len(map) - n : n \in kept}
<1>1. Len(map) \in Nat /\ \A i \in 1..Len(map) : map[i] \in Ranges
  OBVIOUS
<1>2. \A i \in 1..Len(map) : Compare(r, map[i]) \in {-1, 0, 1}
  BY <1>1, Comparing
<1>3. gaps \in SUBSET Nat /\ gaps # {}
  BY <1>1
<1>4. PICK g \in gaps : \A h \in gaps : g <= h
  BY <1>3, LeastNatural
<1>5. PICK n \in kept : g = Len(map) - n
  BY <1>4
<1>6. \A m \in kept : m <= n
  <2> SUFFICES ASSUME NEW m \in kept PROVE m <= n
    OBVIOUS
  <2>1. Len(map) - m \in gaps /\ m \in Nat /\ n \in Nat
    BY <1>1
  <2>2. Len(map) - n <= Len(map) - m
    BY <1>4, <1>5, <2>1
  <2> QED BY <1>1, <2>1, <2>2
<1>7. Place(map, r) \in kept /\ \A m \in kept : m <= Place(map, r)
  BY <1>6 DEF Place
<1>8. ASSUME NEW m \in 1..Len(map), m > Place(map, r) PROVE Compare(r, map[m]) < 0
  <2>1. m \notin kept
    BY <1>1, <1>7, <1>8
  <2> QED BY <1>1, <1>2, <2>1
<1> QED BY <1>7, <1>8

(* remap_add_node merges or inserts.                                       *)
LEMMA Adding ==
  ASSUME NEW map \in Seq(Ranges), NEW r \in Ranges
  PROVE  LET i == FindBlock(map, r)
         IN  /\ i # NotFound => AddNode(map, r) = [map EXCEPT ![i] = Merge(map[i], r)]
             /\ i = NotFound => AddNode(map, r) = InsertAt(map, Place(map, r) + 1, r)
BY DEF AddNode, Place

(* mergeblock: the merged range holds both and links no more than both do. *)
LEMMA Merging ==
  ASSUME NEW b \in Ranges, NEW r \in Ranges, Compare(r, b) = 0
  PROVE  LET m == Merge(b, r)
         IN  /\ m \in Ranges /\ m.place = b.place /\ m.place = r.place
             /\ m.start = b.start \/ m.start = r.start
             /\ m.end = b.end \/ m.end = r.end
             /\ m.start <= b.start /\ m.start <= r.start /\ b.end <= m.end /\ r.end <= m.end
             /\ r.start <= b.end /\ b.start <= r.end
             /\ \A k \in Nat : m.start <= k /\ k < m.end =>
                  (b.start <= k /\ k < b.end) \/ (r.start <= k /\ k < r.end)
<1>1. /\ b.place \in Places /\ b.start \in Blocks /\ b.end \in Blocks
      /\ r.place \in Places /\ r.start \in Blocks /\ r.end \in Blocks
      /\ b.start \in Nat /\ b.end \in Nat /\ r.start \in Nat /\ r.end \in Nat
  BY RangeParts
<1>2. b.place = r.place /\ r.start <= b.end /\ b.start <= r.end
  BY Comparing
<1> DEFINE m == Merge(b, r)
<1>4. m.place = b.place /\ m.start = (IF r.start < b.start THEN r.start ELSE b.start)
      /\ m.end = IF r.end > b.end THEN r.end ELSE b.end
  BY DEF Merge, Ranges
<1>5. m \in Ranges
  BY <1>1 DEF Merge, Ranges
<1> HIDE DEF m
<1> QED BY <1>1, <1>2, <1>4, <1>5 DEF m

(* What a step adds to the lines stays linked. *)
LEMMA StillLinked ==
  ASSUME added \in Seq(Lines), NEW r \in Lines, added' = Append(added, r)
  PROVE  /\ ToSet(added') = ToSet(added) \cup {r}
         /\ \A place, k : Listing(place, k) \subseteq Listing(place, k)'
         /\ \A place, k : Linking(place, k) \subseteq Linking(place, k)'
         /\ \A k \in Nat : r.start <= k /\ k < r.end => Linking(r.place, k)' # {}
<1>1. ToSet(added') = ToSet(added) \cup {r}
  BY DEF ToSet
<1>2. \A place, k : Listing(place, k) \subseteq Listing(place, k)'
  BY <1>1 DEF Listing
<1>3. \A place, k : Linking(place, k) \subseteq Linking(place, k)'
  BY <1>2 DEF Linking
<1>4. ASSUME NEW k \in Nat, r.start <= k, k < r.end PROVE r \in Linking(r.place, k)'
  <2>1. r.start \in Nat /\ r.end \in Nat
    BY LinesAssumption, BlocksAssumption
  <2>2. r.start <= k + 1 /\ k + 1 <= r.end /\ k <= r.end
    BY <1>4, <2>1
  <2> QED BY <1>1, <1>4, <2>2 DEF Linking, Listing
<1> QED BY <1>1, <1>2, <1>3, <1>4

(* Whatever lines the file holds, every entry of the map is linked.        *)
THEOREM LinksInvariant == RemapSpec => [](TypeInv /\ Linked)
<1>1. RemapInit => TypeInv /\ Linked
  BY DEF RemapInit, TypeInv, Linked
<1>2. TypeInv /\ Linked /\ [RemapNext]_remapVars => (TypeInv /\ Linked)'
  <2> SUFFICES ASSUME TypeInv, Linked, [RemapNext]_remapVars PROVE (TypeInv /\ Linked)'
    OBVIOUS
  <2>1. UNCHANGED <<blocks, added>> => (TypeInv /\ Linked)'
    BY DEF TypeInv, Linked, Linking, Listing
  <2>2. ASSUME NEW r \in Lines, RangeLine(r, TRUE) PROVE (TypeInv /\ Linked)'
    <3>1. r \in Ranges /\ blocks \in Seq(Ranges)
      BY LinesAssumption DEF Ranges, TypeInv
    <3>2. blocks' = AddNode(blocks, r) /\ added' = Append(added, r) /\ added' \in Seq(Lines)
      BY <2>2 DEF RangeLine, TypeInv
    <3>3. \A place, k : Linking(place, k) # {} => Linking(place, k)' # {}
      BY <3>2, StillLinked DEF TypeInv
    <3>4. \A k \in Nat : r.start <= k /\ k < r.end => Linking(r.place, k)' # {}
      BY <3>2, StillLinked DEF TypeInv
    <3>5. \A i \in 1..Len(blocks) : blocks[i] \in Ranges
      BY <3>1
    <3>6. CASE FindBlock(blocks, r) = NotFound
      <4> DEFINE at == Place(blocks, r)
      <4>1. at \in 0..Len(blocks)
        BY <3>1, PlaceIsLast
      <4>2. blocks' = InsertAt(blocks, at + 1, r)
        BY <3>1, <3>2, <3>6, Adding
      <4> HIDE DEF at
      <4>3. /\ blocks' \in Seq(Ranges) /\ Len(blocks') = Len(blocks) + 1
            /\ \A i \in 1..Len(blocks) + 1 :
                 blocks'[i] = IF i <= at THEN blocks[i] ELSE IF i = at + 1 THEN r ELSE blocks[i - 1]
        <5>1. LET new == InsertAt(blocks, at + 1, r)
              IN  /\ new \in Seq(Ranges) /\ Len(new) = Len(blocks) + 1
                  /\ \A i \in 1..Len(blocks) + 1 :
                       new[i] = IF i <= at THEN blocks[i] ELSE IF i = at + 1 THEN r ELSE blocks[i - 1]
          BY <3>1, <4>1, Inserted, Zenon
        <5> QED BY <4>2, <5>1, Zenon
      <4>4. ASSUME NEW i \in 1..Len(blocks')
            PROVE  blocks'[i] = r \/ \E j \in 1..Len(blocks) : blocks'[i] = blocks[j]
        <5>1. CASE i <= at
          BY <4>1, <4>3, <5>1
        <5>2. CASE i = at + 1
          BY <4>1, <4>3, <5>2
        <5>3. CASE i > at + 1
          <6>1. i - 1 \in 1..Len(blocks) /\ blocks'[i] = blocks[i - 1]
            BY <3>1, <4>1, <4>3, <5>3
          <6> QED BY <6>1
        <5> QED BY <4>1, <5>1, <5>2, <5>3
      <4>5. Linked'
        BY <3>3, <3>4, <4>4 DEF Linked
      <4> QED BY <3>2, <4>3, <4>5 DEF TypeInv
    <3>7. CASE FindBlock(blocks, r) # NotFound
      <4>1. PICK i \in 1..Len(blocks) : i = FindBlock(blocks, r) /\ Compare(r, blocks[i]) = 0
        BY <3>1, <3>7, Finds
      <4>2. PICK b \in Ranges : b = blocks[i]
        BY <3>5
      <4>3. PICK m \in Ranges :
              /\ m = Merge(b, r) /\ m.place = b.place /\ m.place = r.place
              /\ \A k \in Nat : m.start <= k /\ k < m.end =>
                   (b.start <= k /\ k < b.end) \/ (r.start <= k /\ k < r.end)
        BY <3>1, <4>1, <4>2, Merging
      <4>4. blocks' = [blocks EXCEPT ![i] = m]
        BY <3>1, <3>2, <3>7, <4>1, <4>2, <4>3, Adding
      <4>5. /\ blocks' \in Seq(Ranges) /\ Len(blocks') = Len(blocks) /\ blocks'[i] = m
            /\ \A j \in 1..Len(blocks) : j # i => blocks'[j] = blocks[j]
        BY <3>1, <4>1, <4>4
      <4>6. ASSUME NEW k \in Nat, m.start <= k, k < m.end PROVE Linking(m.place, k)' # {}
        <5>1. CASE b.start <= k /\ k < b.end
          <6>1. Linking(b.place, k) # {}
            BY <4>1, <4>2, <5>1 DEF Linked
          <6> QED BY <3>3, <4>3, <6>1
        <5>2. CASE r.start <= k /\ k < r.end
          BY <3>4, <4>3, <5>2
        <5> QED BY <4>3, <4>6, <5>1, <5>2
      <4>7. ASSUME NEW j \in 1..Len(blocks'), NEW c, c = blocks'[j],
                   NEW k \in Nat, c.start <= k, k < c.end
            PROVE  Linking(c.place, k)' # {}
        <5>1. CASE j = i
          BY <4>5, <4>6, <4>7, <5>1
        <5>2. CASE j # i
          <6>1. c = blocks[j] /\ j \in 1..Len(blocks)
            BY <4>5, <4>7, <5>2
          <6>2. Linking(c.place, k) # {}
            BY <4>7, <6>1 DEF Linked
          <6> QED BY <3>3, <6>2
        <5> QED BY <5>1, <5>2
      <4>8. Linked'
        BY <4>7 DEF Linked
      <4> QED BY <3>2, <4>5, <4>8 DEF TypeInv
    <3> QED BY <3>6, <3>7
  <2>3. ASSUME NEW r \in Lines, RangeLine(r, FALSE) PROVE (TypeInv /\ Linked)'
    BY <2>1, <2>3 DEF RangeLine
  <2>4. CASE DebugLine
    BY <2>1, <2>4 DEF DebugLine
  <2>5. CASE EndOfFile
    BY <2>1, <2>5 DEF EndOfFile
  <2>6. CASE UNCHANGED remapVars
    BY <2>1, <2>6 DEF remapVars
  <2> QED BY <2>2, <2>3, <2>4, <2>5, <2>6 DEF RemapNext
<1> QED BY <1>1, <1>2, PTL DEF RemapSpec

(* Remapping (remap_block) never plays backwards, nor skips a block that   *)
(* no line of the file lists.                                              *)
THEOREM NothingUnlistedIsSkipped == RemapSpec => []SkipsListedOnly
<1>1. TypeInv /\ Linked => SkipsListedOnly
  <2> SUFFICES ASSUME TypeInv, Linked, NEW place \in Places, NEW n \in Blocks
               PROVE  LET m == GoesOn(place, n)
                      IN  m >= n /\ (m > n => \A k \in n..m - 1 : Linking(place, k) # {})
    BY DEF SkipsListedOnly
  <2> DEFINE key == OneBlock(place, n)
             i == FindBlock(blocks, key)
  <2>1. n \in Nat /\ n + 0 = n /\ 0 + n = n
    BY BlocksAssumption
  <2>2. key \in Ranges
    BY DEF OneBlock, Ranges
  <2>3. GoesOn(place, n) = IF i = NotFound THEN n ELSE blocks[i].end - 0
    BY <2>1 DEF GoesOn, RemapBlock, OneBlock
  <2>4. CASE i = NotFound
    BY <2>1, <2>3, <2>4
  <2>5. CASE i # NotFound
    <3>1. i \in 1..Len(blocks) /\ Compare(key, blocks[i]) = 0 /\ blocks[i] \in Ranges
      BY <2>2, <2>5, Finds DEF TypeInv
    <3>2. key.place = blocks[i].place /\ blocks[i].start <= key.end /\ key.start <= blocks[i].end
      BY <2>2, <3>1, Comparing
    <3>3. blocks[i].start \in Nat /\ blocks[i].end \in Nat
      BY <3>1, BlocksAssumption DEF Ranges
    <3>4. place = blocks[i].place /\ blocks[i].start <= n /\ n <= blocks[i].end
      BY <3>2 DEF OneBlock
    <3> HIDE DEF i, key
    <3>5. GoesOn(place, n) = blocks[i].end
      BY <2>3, <2>5, <3>3
    <3>6. ASSUME NEW k \in n..blocks[i].end - 1 PROVE Linking(place, k) # {}
      <4>1. k \in Nat /\ blocks[i].start <= k /\ k < blocks[i].end
        BY <2>1, <3>3, <3>4
      <4> QED BY <3>1, <3>4, <4>1 DEF Linked
    <3> QED BY <3>4, <3>5, <3>6
  <2> QED BY <2>4, <2>5
<1> QED BY <1>1, LinksInvariant, PTL

-----------------------------------------------------------------------------
(* Nothing listed is played *)

(* A set that has no two elements.                                         *)
LEMMA AtMostOne ==
  ASSUME NEW S, IsFiniteSet(S), ~(Cardinality(S) > 1), NEW i \in S, NEW j \in S
  PROVE  i = j
<1> SUFFICES ASSUME i # j PROVE FALSE
  OBVIOUS
<1>1. {i, j} \subseteq S
  OBVIOUS
<1>2. Cardinality({i, j}) <= Cardinality(S) /\ Cardinality(S) \in Nat
  BY <1>1, FS_Subset, FS_CardinalityType
<1>3. IsFiniteSet({i}) /\ Cardinality({i}) = 1
  BY FS_Singleton
<1>4. {i, j} = {i} \cup {j} /\ j \notin {i}
  OBVIOUS
<1>5. Cardinality({i, j}) = 2
  BY <1>3, <1>4, FS_AddElement
<1> QED BY <1>2, <1>5

(* As long as no line overlaps several entries, nor ends before its start, *)
(* the entries are in order and every line is within one of them.          *)
Inside(r, b) == r.place = b.place /\ b.start <= r.start /\ r.end <= b.end
Whole ==
  ~spanned =>
    /\ InOrder(blocks)
    /\ \A r \in ToSet(added) : Forward(r) /\ \E i \in 1..Len(blocks) : Inside(r, blocks[i])

(* An entry grown by a range that another entry does not overlap keeps its *)
(* side of that entry.                                                     *)
LEMMA Grown ==
  ASSUME NEW b \in Ranges, NEW r \in Ranges, NEW c \in Ranges,
         Forward(b), Forward(r), Forward(c),
         Compare(r, b) = 0, Compare(r, c) # 0
  PROVE  LET m == Merge(b, r)
         IN  /\ Forward(m)
             /\ Before(c, b) => Before(c, m)
             /\ Before(b, c) => Before(m, c)
<1> DEFINE m == Merge(b, r)
<1>1. /\ m \in Ranges /\ m.place = b.place /\ m.place = r.place
      /\ m.start = b.start \/ m.start = r.start
      /\ m.end = b.end \/ m.end = r.end
      /\ m.start <= b.start /\ m.start <= r.start /\ b.end <= m.end /\ r.end <= m.end
      /\ r.start <= b.end /\ b.start <= r.end
  BY Merging
<1>2. /\ b.start \in Nat /\ b.end \in Nat /\ r.start \in Nat /\ r.end \in Nat
      /\ c.start \in Nat /\ c.end \in Nat /\ m.start \in Nat /\ m.end \in Nat
  BY <1>1, RangeParts
<1>3. r.place = c.place => r.end < c.start \/ c.end < r.start
  BY <1>2, Comparing
<1>4. b.place \in Places /\ c.place \in Places
  BY RangeParts
<1>5. b.place = c.place => ~Precedes(b.place, c.place) /\ ~Precedes(c.place, b.place)
  BY <1>4, PlacesInOrder
<1> HIDE DEF m
<1>6. Forward(m)
  BY <1>1, <1>2 DEF Forward
<1>7. Before(c, b) => Before(c, m)
  BY <1>1, <1>2, <1>3, <1>5 DEF Before, Forward
<1>8. Before(b, c) => Before(m, c)
  BY <1>1, <1>2, <1>3, <1>5 DEF Before, Forward
<1> QED BY <1>6, <1>7, <1>8 DEF m

(* remap_add_node keeps the map in order and every line within it, until a *)
(* line overlaps several entries or ends before its start.                 *)
THEOREM WholeInvariant == RemapSpec => []Whole
<1>1. RemapInit => Whole
  BY DEF RemapInit, Whole, InOrder, ToSet
<1>2. TypeInv /\ Whole /\ [RemapNext]_remapVars => Whole'
  <2> SUFFICES ASSUME TypeInv, Whole, [RemapNext]_remapVars PROVE Whole'
    OBVIOUS
  <2>1. UNCHANGED <<blocks, added, spanned>> => Whole'
    BY DEF Whole, InOrder
  <2>2. ASSUME NEW r \in Lines, RangeLine(r, TRUE), ~spanned' PROVE Whole'
    <3>0. r \in Ranges /\ blocks \in Seq(Ranges)
      BY LinesAssumption DEF Ranges, TypeInv
    <3>1. r \in Ranges /\ blocks \in Seq(Ranges) /\ \A i \in 1..Len(blocks) : blocks[i] \in Ranges
      BY <3>0
    <3>2. blocks' = AddNode(blocks, r) /\ added' = Append(added, r)
      BY <2>2 DEF RangeLine
    <3>3. /\ ~spanned /\ ~(r.end < r.start)
          /\ ~(Cardinality({n \in DOMAIN blocks : Compare(r, blocks[n]) = 0}) > 1)
      BY <2>2, Zenon DEF RangeLine
    <3>4. Forward(r)
      BY <3>1, <3>3, RangeParts DEF Forward
    <3>5. ToSet(added') = ToSet(added) \cup {r}
      BY <3>2, StillLinked DEF TypeInv
    <3>6. InOrder(blocks)
      BY <3>3 DEF Whole
    <3>7. \A s \in ToSet(added) : Forward(s) /\ \E i \in 1..Len(blocks) : Inside(s, blocks[i])
      BY <3>3 DEF Whole
    <3>8. SUFFICES /\ InOrder(blocks')
                   /\ \E i \in 1..Len(blocks') : Inside(r, blocks'[i])
                   /\ \A i \in 1..Len(blocks) : \E j \in 1..Len(blocks') :
                        \A s : s \in Ranges /\ Inside(s, blocks[i]) => Inside(s, blocks'[j])
      <4>1. ToSet(added) \subseteq Ranges
        BY LinesAssumption DEF TypeInv, ToSet, Ranges
      <4>2. ASSUME NEW s \in ToSet(added) PROVE \E j \in 1..Len(blocks') : Inside(s, blocks'[j])
        BY <3>7, <3>8, <4>1
      <4> QED BY <3>4, <3>5, <3>7, <3>8, <4>2 DEF Whole
    <3>9. CASE FindBlock(blocks, r) = NotFound
      <4>1. PICK at \in 0..Len(blocks) :
              /\ at = Place(blocks, r)
              /\ at = 0 \/ Compare(r, blocks[at]) >= 0
              /\ \A n \in 1..Len(blocks) : n > at => Compare(r, blocks[n]) < 0
        BY <3>1, PlaceIsLast
      <4>2. blocks' = InsertAt(blocks, at + 1, r)
        BY <3>1, <3>2, <3>9, <4>1, Adding
      <4>3. /\ Len(blocks') = Len(blocks) + 1
            /\ \A i \in 1..Len(blocks) + 1 :
                 blocks'[i] = IF i <= at THEN blocks[i] ELSE IF i = at + 1 THEN r ELSE blocks[i - 1]
        <5>1. LET new == InsertAt(blocks, at + 1, r)
              IN  /\ new \in Seq(Ranges) /\ Len(new) = Len(blocks) + 1
                  /\ \A i \in 1..Len(blocks) + 1 :
                       new[i] = IF i <= at THEN blocks[i] ELSE IF i = at + 1 THEN r ELSE blocks[i - 1]
          BY <3>1, <4>1, Inserted, Zenon
        <5> QED BY <4>2, <5>1, Zenon
      <4>4. \A j \in 1..Len(blocks) : Compare(r, blocks[j]) # 0
        BY <3>1, <3>4, <3>6, <3>9, FindsAny
      <4>5. \A j \in 1..Len(blocks) : j > at => Before(r, blocks[j])
        BY <3>1, <4>1, Comparing
      <4>6. ASSUME NEW j \in 1..Len(blocks), j <= at PROVE Before(blocks[j], r)
        <5>1. at \in 1..Len(blocks) /\ Compare(r, blocks[at]) >= 0 /\ Compare(r, blocks[at]) # 0
          BY <4>1, <4>4, <4>6
        <5>2. Compare(r, blocks[at]) \in {-1, 0, 1}
          BY <3>1, <5>1, Comparing
        <5>3. Before(blocks[at], r)
          BY <3>1, <5>1, <5>2, Comparing
        <5>4. j = at \/ Before(blocks[j], blocks[at])
          BY <3>6, <4>6, <5>1 DEF InOrder
        <5>5. Forward(blocks[at])
          BY <3>6, <5>1 DEF InOrder
        <5> QED BY <3>1, <5>1, <5>3, <5>4, <5>5, BeforeIsOrder
      <4>7. ASSUME NEW i \in 1..Len(blocks) + 1 PROVE Forward(blocks'[i])
        <5>1. blocks'[i] = r \/ \E j \in 1..Len(blocks) : blocks'[i] = blocks[j]
          <6>1. i > at + 1 => i - 1 \in 1..Len(blocks)
            BY <4>1
          <6>2. i <= at => i \in 1..Len(blocks)
            BY <4>1
          <6> QED BY <4>1, <4>3, <6>1, <6>2
        <5> QED BY <3>4, <3>6, <5>1 DEF InOrder
      <4>8. ASSUME NEW i \in 1..Len(blocks) + 1, NEW j \in 1..Len(blocks) + 1, i < j
            PROVE  Before(blocks'[i], blocks'[j])
        <5>1. \A k \in 1..Len(blocks) + 1 : (k > at + 1 => k - 1 \in 1..Len(blocks))
                                            /\ (k <= at => k \in 1..Len(blocks))
          BY <4>1
        <5>2. CASE j <= at
          <6>1. blocks'[i] = blocks[i] /\ blocks'[j] = blocks[j]
                /\ i \in 1..Len(blocks) /\ j \in 1..Len(blocks)
            BY <4>1, <4>3, <4>8, <5>2
          <6> QED BY <3>6, <4>8, <6>1 DEF InOrder
        <5>3. CASE j = at + 1
          <6>1. blocks'[i] = blocks[i] /\ blocks'[j] = r /\ i \in 1..Len(blocks) /\ i <= at
            BY <4>1, <4>3, <4>8, <5>3
          <6> QED BY <4>6, <6>1
        <5>4. CASE j > at + 1
          <6>1. blocks'[j] = blocks[j - 1] /\ j - 1 \in 1..Len(blocks) /\ j - 1 > at
            BY <4>1, <4>3, <5>1, <5>4
          <6>2. CASE i = at + 1
            <7>1. blocks'[i] = r
              BY <4>1, <4>3, <6>2
            <7> QED BY <4>5, <6>1, <7>1
          <6>3. CASE i <= at
            <7>1. blocks'[i] = blocks[i] /\ i \in 1..Len(blocks) /\ i < j - 1
              BY <4>1, <4>3, <5>4, <6>3
            <7> QED BY <3>6, <6>1, <7>1 DEF InOrder
          <6>4. CASE i > at + 1
            <7>1. blocks'[i] = blocks[i - 1] /\ i - 1 \in 1..Len(blocks) /\ i - 1 < j - 1
              BY <4>1, <4>3, <4>8, <5>1, <6>4
            <7> QED BY <3>6, <6>1, <7>1 DEF InOrder
          <6> QED BY <4>1, <6>2, <6>3, <6>4
        <5> QED BY <4>1, <5>2, <5>3, <5>4
      <4>9. InOrder(blocks')
        BY <4>3, <4>7, <4>8 DEF InOrder
      <4>10. Inside(r, blocks'[at + 1]) /\ at + 1 \in 1..Len(blocks')
        <5>1. blocks'[at + 1] = r /\ at + 1 \in 1..Len(blocks')
          BY <4>1, <4>3
        <5>2. r.start \in Nat /\ r.end \in Nat
          BY <3>1, RangeParts
        <5> QED BY <5>1, <5>2 DEF Inside
      <4>11. ASSUME NEW i \in 1..Len(blocks)
             PROVE  \E j \in 1..Len(blocks') : blocks'[j] = blocks[i]
        <5>1. CASE i <= at
          <6>1. i \in 1..Len(blocks') /\ blocks'[i] = blocks[i]
            BY <4>1, <4>3, <5>1
          <6> QED BY <6>1
        <5>2. CASE i > at
          <6>1. i + 1 \in 1..Len(blocks') /\ (i + 1) - 1 = i /\ ~(i + 1 <= at) /\ i + 1 # at + 1
            BY <4>1, <4>3, <5>2
          <6>2. blocks'[i + 1] = blocks[i]
            BY <4>3, <6>1
          <6> QED BY <6>1, <6>2
        <5> QED BY <4>1, <5>1, <5>2
      <4>12. ASSUME NEW i \in 1..Len(blocks)
             PROVE  \E j \in 1..Len(blocks') :
                      \A s : s \in Ranges /\ Inside(s, blocks[i]) => Inside(s, blocks'[j])
        BY <4>11
      <4> QED BY <4>9, <4>10, <4>12
    <3>10. CASE FindBlock(blocks, r) # NotFound
      <4>1. PICK i \in 1..Len(blocks) : i = FindBlock(blocks, r) /\ Compare(r, blocks[i]) = 0
        BY <3>1, <3>10, Finds
      <4>2. ASSUME NEW j \in 1..Len(blocks), j # i PROVE Compare(r, blocks[j]) # 0
        <5> DEFINE S == {n \in DOMAIN blocks : Compare(r, blocks[n]) = 0}
        <5>1. DOMAIN blocks = 1..Len(blocks) /\ Len(blocks) \in Nat
          BY <3>1
        <5>2. S \subseteq 1..Len(blocks) /\ IsFiniteSet(1..Len(blocks))
          BY <5>1, FS_Interval
        <5>3. IsFiniteSet(S)
          BY <5>2, FS_Subset
        <5>4. j \in S => i = j
          <6>1. i \in S
            BY <4>1, <5>1
          <6>2. ~(Cardinality(S) > 1)
            BY <3>3
          <6> HIDE DEF S
          <6> QED BY <5>3, <6>1, <6>2, AtMostOne
        <5> QED BY <4>2, <5>1, <5>4
      <4>3. PICK b \in Ranges : b = blocks[i]
        BY <3>1
      <4>4. Forward(b)
        BY <3>6, <4>3 DEF InOrder
      <4>5. PICK m \in Ranges :
              /\ m = Merge(b, r) /\ m.place = b.place /\ m.place = r.place
              /\ m.start <= b.start /\ m.start <= r.start /\ b.end <= m.end /\ r.end <= m.end
        BY <3>1, <4>1, <4>3, Merging
      <4>6. blocks' = [blocks EXCEPT ![i] = m]
        BY <3>1, <3>2, <3>10, <4>1, <4>3, <4>5, Adding
      <4>7. /\ Len(blocks') = Len(blocks) /\ blocks'[i] = m
            /\ \A j \in 1..Len(blocks) : j # i => blocks'[j] = blocks[j]
        BY <3>1, <4>1, <4>6
      <4>8. ASSUME NEW j \in 1..Len(blocks), j # i
            PROVE  /\ Forward(m)
                   /\ Before(blocks[j], b) => Before(blocks[j], m)
                   /\ Before(b, blocks[j]) => Before(m, blocks[j])
        <5>1. blocks[j] \in Ranges /\ Forward(blocks[j]) /\ Compare(r, blocks[j]) # 0
          BY <3>1, <3>6, <4>2, <4>8 DEF InOrder
        <5> QED BY <3>1, <3>4, <4>1, <4>3, <4>4, <4>5, <5>1, Grown
      <4>9. Forward(m)
        BY <3>1, <3>4, <4>5, RangeParts DEF Forward
      <4>10. ASSUME NEW j \in 1..Len(blocks), NEW k \in 1..Len(blocks), j < k
             PROVE  Before(blocks'[j], blocks'[k])
        <5>1. Before(blocks[j], blocks[k])
          BY <3>6, <4>10 DEF InOrder
        <5>2. CASE j = i
          BY <4>3, <4>7, <4>8, <4>10, <5>1, <5>2
        <5>3. CASE k = i
          BY <4>3, <4>7, <4>8, <4>10, <5>1, <5>3
        <5>4. CASE j # i /\ k # i
          BY <4>7, <5>1, <5>4
        <5> QED BY <5>2, <5>3, <5>4
      <4>11. InOrder(blocks')
        BY <3>6, <4>7, <4>9, <4>10 DEF InOrder
      <4>12. Inside(r, blocks'[i]) /\ i \in 1..Len(blocks')
        BY <4>1, <4>5, <4>7 DEF Inside
      <4>13. ASSUME NEW j \in 1..Len(blocks), NEW s \in Ranges, Inside(s, blocks[j])
             PROVE  j \in 1..Len(blocks') /\ Inside(s, blocks'[j])
        <5>1. CASE j = i
          <6>1. /\ s.start \in Nat /\ s.end \in Nat /\ b.start \in Nat /\ b.end \in Nat
                /\ m.start \in Nat /\ m.end \in Nat
            BY RangeParts
          <6>2. s.place = b.place /\ b.start <= s.start /\ s.end <= b.end
            BY <4>3, <4>13, <5>1 DEF Inside
          <6>3. m.place = b.place /\ m.start <= b.start /\ b.end <= m.end
            BY <4>5
          <6>4. m.start <= s.start
            BY <6>1, <6>2, <6>3
          <6>5. s.end <= m.end
            BY <6>1, <6>2, <6>3
          <6> QED BY <4>7, <5>1, <6>2, <6>3, <6>4, <6>5 DEF Inside
        <5>2. CASE j # i
          BY <4>7, <4>13, <5>2
        <5> QED BY <5>1, <5>2
      <4> QED BY <4>11, <4>12, <4>13
    <3> QED BY <3>9, <3>10
  <2>3. ASSUME NEW r \in Lines, RangeLine(r, TRUE), spanned' PROVE Whole'
    BY <2>3 DEF Whole
  <2>4. ASSUME NEW r \in Lines, RangeLine(r, FALSE) PROVE Whole'
    BY <2>1, <2>4 DEF RangeLine
  <2>5. CASE DebugLine
    BY <2>1, <2>5 DEF DebugLine
  <2>6. CASE EndOfFile
    BY <2>1, <2>6 DEF EndOfFile
  <2>7. CASE UNCHANGED remapVars
    BY <2>1, <2>7 DEF remapVars
  <2> QED BY <2>2, <2>3, <2>4, <2>5, <2>6, <2>7 DEF RemapNext
<1>3. RemapSpec => []TypeInv
  BY LinksInvariant, PTL
<1> QED BY <1>1, <1>2, <1>3, PTL DEF RemapSpec

(* Of a listed block nothing is played, up to the end of the lines that    *)
(* overlap from it on, as long as no line overlapped several entries.      *)
THEOREM AllListedIsSkipped == RemapSpec => []SkipsAllListed
<1>1. TypeInv /\ Whole => SkipsAllListed
  <2> SUFFICES ASSUME TypeInv, Whole, ~spanned
               PROVE  /\ \A i, j \in DOMAIN blocks : i < j => Compare(blocks[i], blocks[j]) < 0
                      /\ \A place \in Places, n \in Blocks :
                           LET m == GoesOn(place, n)
                           IN  Listing(place, n) # {} => m >= n /\ Linking(place, m) = {}
    BY DEF SkipsAllListed
  <2>1. /\ InOrder(blocks)
        /\ \A r \in ToSet(added) : \E i \in 1..Len(blocks) : Inside(r, blocks[i])
    BY DEF Whole
  <2>2. DOMAIN blocks = 1..Len(blocks) /\ Len(blocks) \in Nat /\ blocks \in Seq(Ranges)
        /\ \A i \in 1..Len(blocks) : blocks[i] \in Ranges
    BY DEF TypeInv
  <2>3. ToSet(added) \subseteq Ranges
    BY LinesAssumption DEF TypeInv, ToSet, Ranges
  <2>4. \A i, j \in DOMAIN blocks : i < j => Compare(blocks[i], blocks[j]) < 0
    BY <2>1, <2>2, Comparing DEF InOrder
  <2>5. ASSUME NEW place \in Places, NEW n \in Blocks, NEW r \in Listing(place, n)
        PROVE  GoesOn(place, n) >= n /\ Linking(place, GoesOn(place, n)) = {}
    <3> DEFINE key == OneBlock(place, n)
    <3>1. n \in Nat /\ n + 0 = n /\ 0 + n = n
      BY BlocksAssumption
    <3>2. key \in Ranges /\ key.place = place /\ key.start = n /\ key.end = n
      BY DEF OneBlock, Ranges
    <3>3. GoesOn(place, n) = IF FindBlock(blocks, key) = NotFound THEN n
                             ELSE blocks[FindBlock(blocks, key)].end - 0
      BY <3>1 DEF GoesOn, RemapBlock, OneBlock
    <3> HIDE DEF key
    <3>4. r \in ToSet(added) /\ r \in Ranges /\ r.place = place /\ r.start <= n /\ n <= r.end
      BY <2>3 DEF Listing
    <3>5. PICK i \in 1..Len(blocks) : Inside(r, blocks[i])
      BY <2>1, <3>4
    <3>6. Compare(key, blocks[i]) = 0
      <4>1. /\ r.start \in Nat /\ r.end \in Nat /\ blocks[i] \in Ranges
            /\ blocks[i].start \in Nat /\ blocks[i].end \in Nat
        BY <2>2, <3>4, RangeParts
      <4>2. key.place = blocks[i].place /\ blocks[i].start <= n /\ n <= blocks[i].end
        BY <3>1, <3>2, <3>4, <3>5, <4>1 DEF Inside
      <4> QED BY <3>2, <4>1, <4>2, Comparing
    <3>7. Forward(key)
      BY <3>1, <3>2 DEF Forward
    <3>8. FindBlock(blocks, key) # NotFound
      BY <2>1, <2>2, <3>2, <3>6, <3>7, FindsAny
    <3>9. PICK f \in 1..Len(blocks) : f = FindBlock(blocks, key) /\ Compare(key, blocks[f]) = 0
      BY <2>2, <3>2, <3>8, Finds
    <3>10. /\ blocks[f] \in Ranges /\ Forward(blocks[f])
           /\ blocks[f].start \in Nat /\ blocks[f].end \in Nat
      BY <2>1, <2>2, RangeParts DEF InOrder
    <3>11. GoesOn(place, n) = blocks[f].end
      BY <3>3, <3>8, <3>9, <3>10
    <3>12. place = blocks[f].place /\ n <= blocks[f].end
      BY <3>2, <3>9, <3>10, Comparing
    <3>13. Linking(place, blocks[f].end) = {}
      <4> SUFFICES ASSUME NEW s \in Linking(place, blocks[f].end) PROVE FALSE
        OBVIOUS
      <4>1. /\ s \in ToSet(added) /\ s \in Ranges /\ s.place = place
            /\ s.start <= blocks[f].end /\ blocks[f].end + 1 <= s.end
        BY <2>3 DEF Linking, Listing
      <4>2. PICK j \in 1..Len(blocks) : Inside(s, blocks[j])
        BY <2>1, <4>1
      <4>3. /\ s.start \in Nat /\ s.end \in Nat /\ blocks[j] \in Ranges /\ Forward(blocks[j])
            /\ blocks[j].start \in Nat /\ blocks[j].end \in Nat
        BY <2>1, <2>2, <4>1, RangeParts DEF InOrder
      <4>4. blocks[j].place = place /\ blocks[j].start <= blocks[f].end
            /\ blocks[f].end + 1 <= blocks[j].end
        BY <3>10, <4>1, <4>2, <4>3 DEF Inside
      <4>5. Compare(blocks[f], blocks[j]) = 0 /\ Compare(blocks[j], blocks[f]) = 0
        <5>1. blocks[f].start <= blocks[j].end
          BY <3>10, <4>3, <4>4 DEF Forward
        <5>2. blocks[j].start <= blocks[f].end
          BY <4>4
        <5> QED BY <3>10, <3>12, <4>3, <4>4, <5>1, <5>2, Comparing
      <4>6. ~Before(blocks[f], blocks[j]) /\ ~Before(blocks[j], blocks[f])
        BY <3>10, <4>3, <4>5, Comparing
      <4>7. f = j
        BY <2>1, <4>6 DEF InOrder
      <4> QED BY <3>10, <4>4, <4>7
    <3> QED BY <3>1, <3>10, <3>11, <3>12, <3>13
  <2> QED BY <2>4, <2>5
<1>2. RemapSpec => []TypeInv
  BY LinksInvariant, PTL
<1> QED BY <1>1, <1>2, WholeInvariant, PTL

-----------------------------------------------------------------------------
(* Streams *)

(* The first stream of a set of them is one of them.                       *)
LEMMA FirstIn ==
  ASSUME NEW S \in SUBSET Nat, S # {}
  PROVE  First(S) \in S
BY LeastNatural DEF First

(* What is announced when the registers are n and r. *)
AudioFor(n) ==
  IF AudioStream(n) = NoStream /\ Present(chain.audio) # {}
  THEN AudioStream(First(Present(chain.audio))) ELSE AudioStream(n)
SubpFor(r, mode) ==
  LET s == IF SubpStream(r.n, mode) = NoStream /\ Present(chain.subp) # {}
           THEN SubpStream(First(Present(chain.subp)), mode) ELSE SubpStream(r.n, mode)
  IN  IF chain.title /\ ~r.show /\ s # NoStream THEN s + Hidden ELSE s

(* The inductive invariant: no position remembered, or the one announced.  *)
StreamsInv ==
  /\ chain \in Chains /\ ast \in AudioRegs /\ spst \in SubpRegs /\ moved \in BOOLEAN
  /\ pos.audio \in AudioRegs \cup {NoStream} /\ pos.subp \in SubpRegs \cup {Forgotten.subp}
  /\ pos = [audio |-> pos.audio, subp |-> pos.subp]
  /\ told = [audio |-> told.audio, subp |-> told.subp]
  /\ ~moved /\ pos.audio # NoStream => told.audio = AudioFor(pos.audio)
  /\ ~moved /\ pos.subp # Forgotten.subp => told.subp = [mode \in Modes |-> SubpFor(pos.subp, mode)]

(* What was announced for the position of the streams is what the          *)
(* registers it was announced for give (dvdnav_get_vobu, vm_get_*_stream). *)
THEOREM StreamsInvariant == StreamsSpec => []StreamsInv
<1>1. StreamsInit => StreamsInv
  BY DEF StreamsInit, StreamsInv, Forgotten
<1>2. StreamsInv /\ [StreamsNext]_streamVars => StreamsInv'
  <2> SUFFICES ASSUME StreamsInv, [StreamsNext]_streamVars PROVE StreamsInv'
    OBVIOUS
  <2>1. ASSUME NEW c \in Chains, Jump(c) PROVE StreamsInv'
    BY <2>1 DEF StreamsInv, Jump, Forgotten
  <2>2. chain' = chain => /\ \A n : AudioFor(n)' = AudioFor(n)
                          /\ \A r, mode : SubpFor(r, mode)' = SubpFor(r, mode)
    BY DEF AudioFor, SubpFor, AudioStream, SubpStream, Logical, Menu, Present
  <2>3. ASSUME NEW n \in AudioRegs, SetAudio(n) PROVE StreamsInv'
    BY <2>2, <2>3 DEF StreamsInv, SetAudio, Forgotten
  <2>4. ASSUME NEW r \in SubpRegs, SetSubp(r) PROVE StreamsInv'
    BY <2>2, <2>4 DEF StreamsInv, SetSubp, Forgotten
  <2>5. CASE CellChange
    BY <2>5 DEF StreamsInv, CellChange, Forgotten
  <2>6. CASE SubpChange
    <3>1. \A mode : ActiveSubp(mode) = SubpFor(spst, mode)
      BY DEF ActiveSubp, SubpFor
    <3>2. \A mode : SubpFor(spst, mode)' = SubpFor(spst, mode)
      BY <2>2, <2>6 DEF SubpChange
    <3> QED BY <2>2, <2>6, <3>1, <3>2 DEF StreamsInv, SubpChange, Forgotten
  <2>7. CASE AudioChange
    <3>1. ActiveAudio = AudioFor(ast)
      BY DEF ActiveAudio, AudioFor
    <3> QED BY <2>2, <2>7, <3>1 DEF StreamsInv, AudioChange, Forgotten
  <2>8. CASE UNCHANGED streamVars
    BY <2>2, <2>8 DEF StreamsInv, streamVars, Forgotten
  <2> QED BY <2>1, <2>3, <2>4, <2>5, <2>6, <2>7, <2>8 DEF StreamsNext
<1> QED BY <1>1, <1>2, PTL DEF StreamsSpec

(* The audio stream announced is one the chain has. *)
LEMMA AudioIsOfChain == ASSUME chain \in Chains, ast \in Nat PROVE AudioPlays(AudioFor(ast))
<1> DEFINE P == Present(chain.audio)
<1>1. P \in SUBSET Nat /\ \A n \in P : chain.audio[n] \in Nat /\ chain.audio[n] # NoStream
  BY ChainsAssumption, NumbersAssumption DEF NoStream
<1>2. chain.title \in BOOLEAN
  BY ChainsAssumption
<1>3. \A n : AudioStream(n) = IF chain.title
                              THEN IF n \in P THEN chain.audio[n] ELSE NoStream
                              ELSE IF 0 \in P THEN chain.audio[0] ELSE 0
  BY <1>1, <1>2 DEF AudioStream, Menu, Logical
<1>4. P # {} => First(P) \in P
  BY <1>1, FirstIn
<1> HIDE DEF P
<1>5. AudioFor(ast) = IF AudioStream(ast) = NoStream /\ P # {}
                      THEN AudioStream(First(P)) ELSE AudioStream(ast)
  BY DEF AudioFor, P
<1>6. CASE P = {}
  BY <1>3, <1>5, <1>6 DEF AudioPlays, P
<1>7. CASE P # {} /\ chain.title
  <2>1. ast \in P => AudioFor(ast) = chain.audio[ast]
    BY <1>1, <1>3, <1>5, <1>7
  <2>2. ast \notin P => AudioFor(ast) = chain.audio[First(P)]
    BY <1>3, <1>4, <1>5, <1>7
  <2>3. AudioFor(ast) \in {chain.audio[n] : n \in P}
    BY <1>4, <1>7, <2>1, <2>2
  <2> QED BY <1>7, <2>1, <2>3 DEF AudioPlays, P
<1>8. CASE P # {} /\ ~chain.title
  <2>1. AudioStream(ast) # NoStream
    BY <1>1, <1>3, <1>8 DEF NoStream
  <2>2. AudioFor(ast) = IF 0 \in P THEN chain.audio[0] ELSE 0
    BY <1>3, <1>5, <1>8, <2>1
  <2> QED BY <1>8, <2>2 DEF AudioPlays, P
<1> QED BY <1>6, <1>7, <1>8

(* The hidden bit is apart from the stream's number.                       *)
LEMMA HiddenBit ==
  ASSUME NEW s \in 0..31
  PROVE  /\ s % Hidden = s /\ (s + Hidden) % Hidden = s
         /\ s < Hidden /\ s + Hidden >= Hidden
         /\ AsInt8(s) = s /\ AsInt8(s + Hidden) = s - Hidden
<1>1. Hidden \in Nat /\ Hidden > 32 /\ s < Hidden
  BY NumbersAssumption
<1>2. s % Hidden = s
  BY <1>1
<1>3. (s + Hidden) % Hidden = s
  BY <1>1
<1> QED BY <1>1, <1>2, <1>3 DEF AsInt8

(* The subpicture stream announced is one the chain has, hidden in titles  *)
(* when it is not to be shown.                                             *)
LEMMA SubpIsOfChain ==
  ASSUME chain \in Chains, spst \in SubpRegs, NEW mode \in Modes
  PROVE  /\ SubpPlays(SubpFor(spst, mode), mode)
         /\ SubpFor(spst, mode) \in {NoStream} \cup (0..31) \cup {s + Hidden : s \in 0..31}
<1> DEFINE P == Present(chain.subp)
           kind == IF chain.aspect = 0 THEN "full" ELSE mode
           of(n) == chain.subp[n][kind]
<1>1. P \in SUBSET Nat /\ chain.title \in BOOLEAN /\ chain.aspect \in {0, 3}
  BY ChainsAssumption, NumbersAssumption
<1>2. ASSUME NEW n \in P PROVE of(n) \in 0..31
  <2>1. chain.subp[n] \in [Modes \cup {"full"} -> 0..31]
    BY ChainsAssumption
  <2>2. kind \in Modes \cup {"full"}
    OBVIOUS
  <2> QED BY <2>1, <2>2
<1>3. spst.n \in Nat /\ spst.show \in BOOLEAN
  BY RegsAssumption
<1>4. \A n : chain.subp[n][IF chain.aspect = 3 THEN mode ELSE "full"] = of(n)
  BY <1>1
<1>5. \A n : SubpStream(n, mode) = IF chain.title
                                   THEN IF n \in P THEN of(n) ELSE NoStream
                                   ELSE IF 0 \in P /\ of(0) # NoStream THEN of(0) ELSE 0
  BY <1>1 DEF SubpStream, Menu, Logical
<1>6. P # {} => First(P) \in P
  BY <1>1, FirstIn
<1> DEFINE s == IF SubpStream(spst.n, mode) = NoStream /\ P # {}
                THEN SubpStream(First(P), mode) ELSE SubpStream(spst.n, mode)
<1>7. SubpFor(spst, mode) = IF chain.title /\ ~spst.show /\ s # NoStream THEN s + Hidden ELSE s
  BY DEF SubpFor
<1>8. /\ SubpPlays(SubpFor(spst, mode), mode) <=>
           LET t == SubpFor(spst, mode)
           IN IF P = {} THEN t = IF chain.title THEN NoStream ELSE 0
              ELSE \/ /\ t % Hidden \in {of(n) : n \in P}
                      /\ (t >= Hidden <=> chain.title /\ ~spst.show)
                      /\ (chain.title /\ spst.n \in P => t % Hidden = of(spst.n))
                   \/ ~chain.title /\ 0 \notin P /\ t = 0
  BY <1>4 DEF SubpPlays
<1> HIDE DEF P, of, kind
<1>9. CASE P = {}
  <2>1. s = IF chain.title THEN NoStream ELSE 0
    BY <1>5, <1>9
  <2>2. SubpFor(spst, mode) = IF chain.title THEN NoStream ELSE 0
    BY <1>7, <2>1
  <2> QED BY <1>1, <1>8, <1>9, <2>2
<1>10. CASE P # {} /\ chain.title
  <2>1. s \in {of(n) : n \in P} /\ (spst.n \in P => s = of(spst.n))
    <3>1. CASE spst.n \in P
      <4>1. SubpStream(spst.n, mode) = of(spst.n) /\ of(spst.n) \in 0..31
        BY <1>2, <1>5, <1>10, <3>1
      <4>2. s = of(spst.n)
        BY <4>1 DEF NoStream
      <4> QED BY <3>1, <4>2
    <3>2. CASE spst.n \notin P
      <4>1. s = of(First(P))
        BY <1>5, <1>6, <1>10, <3>2
      <4> QED BY <1>6, <1>10, <3>2, <4>1
    <3> QED BY <3>1, <3>2
  <2>2. s \in 0..31
    BY <1>2, <2>1
  <2> HIDE DEF s
  <2>3. s # NoStream
    BY <2>2 DEF NoStream
  <2>4. /\ s % Hidden = s /\ (s + Hidden) % Hidden = s
        /\ s < Hidden /\ s + Hidden >= Hidden /\ Hidden \in Nat
    BY <2>2, HiddenBit, NumbersAssumption
  <2>5. SubpFor(spst, mode) = IF ~spst.show THEN s + Hidden ELSE s
    BY <1>7, <1>10, <2>3
  <2>6. CASE spst.show
    BY <1>8, <1>10, <2>1, <2>2, <2>4, <2>5, <2>6
  <2>7. CASE ~spst.show
    BY <1>8, <1>10, <2>1, <2>2, <2>4, <2>5, <2>7
  <2> QED BY <1>3, <2>6, <2>7
<1>11. CASE P # {} /\ ~chain.title
  <2>1. 0 \in P => of(0) \in 0..31
    BY <1>2
  <2>2. SubpStream(spst.n, mode) = IF 0 \in P THEN of(0) ELSE 0
    BY <1>5, <1>11, <2>1 DEF NoStream
  <2>3. s = IF 0 \in P THEN of(0) ELSE 0
    BY <2>1, <2>2 DEF NoStream
  <2>4. SubpFor(spst, mode) = s
    BY <1>7, <1>11
  <2> HIDE DEF s
  <2>5. s \in 0..31
    BY <2>1, <2>3
  <2>6. s % Hidden = s /\ s < Hidden /\ Hidden \in Nat
    BY <2>5, HiddenBit, NumbersAssumption
  <2> QED BY <1>8, <1>11, <2>3, <2>4, <2>5, <2>6
<1> QED BY <1>1, <1>9, <1>10, <1>11

(* Between changes of chain the streams announced are those the registers  *)
(* select, of those the chain has; a subpicture stream is hidden in titles *)
(* only.                                                                   *)
THEOREM StreamsAreCurrent == StreamsSpec => []StreamsCurrent
<1>1. ASSUME StreamsInv PROVE StreamsCurrent
  <2> SUFFICES ASSUME Settled PROVE StreamsCurrent
    BY DEF StreamsCurrent
  <2>1. /\ chain \in Chains /\ ast \in Nat /\ spst \in SubpRegs /\ ~moved
        /\ pos.audio = ast /\ pos.subp = spst
    BY <1>1, RegsAssumption DEF StreamsInv, Settled
  <2>2. pos.audio # NoStream
    BY <2>1 DEF NoStream
  <2>3. pos.subp # Forgotten.subp
    BY <2>1, RegsAssumption DEF Forgotten, NoStream
  <2>4. told.audio = AudioFor(ast) /\ told.subp = [mode \in Modes |-> SubpFor(spst, mode)]
    BY <1>1, <2>1, <2>2, <2>3 DEF StreamsInv
  <2>5. AudioPlays(told.audio)
    BY <2>1, <2>4, AudioIsOfChain
  <2>6. \A mode \in Modes : told.subp[mode] = SubpFor(spst, mode)
    BY <2>4
  <2>7. \A mode \in Modes : SubpPlays(told.subp[mode], mode)
    BY <2>1, <2>6, SubpIsOfChain
  <2>8. ActiveSubp("wide") = told.subp["wide"]
    <3>1. ActiveSubp("wide") = SubpFor(spst, "wide") /\ "wide" \in Modes
      BY DEF ActiveSubp, SubpFor, Modes
    <3> QED BY <2>6, <3>1
  <2> DEFINE t == told.subp["wide"]
  <2>9. t \in {NoStream} \cup (0..31) \cup {s + Hidden : s \in 0..31}
    BY <2>1, <2>6, SubpIsOfChain DEF Modes
  <2>10. ActiveSubpQuery = AsInt8(t)
    BY <2>8 DEF ActiveSubpQuery
  <2> HIDE DEF t
  <2>11. Hidden \in Nat /\ Hidden > 32 /\ NoStream = -1
    BY NumbersAssumption DEF NoStream
  <2>13. ASSUME NEW s \in 0..31, t = s PROVE AsInt8(t) = t /\ t # NoStream
    BY <2>11, <2>13, HiddenBit
  <2>14. ASSUME NEW s \in 0..31, t = s + Hidden PROVE AsInt8(t) = s - Hidden /\ t >= Hidden /\ t # NoStream
    BY <2>11, <2>14, HiddenBit
  <2>15. (ActiveSubpQuery = NoStream <=> t = NoStream) /\ (ActiveSubpQuery < NoStream => t >= Hidden)
    <3>1. CASE t = NoStream
      BY <2>10, <2>11, <3>1 DEF AsInt8
    <3>2. CASE \E s \in 0..31 : t = s
      BY <2>10, <2>11, <2>13, <3>2
    <3>3. CASE \E s \in 0..31 : t = s + Hidden
      <4>1. PICK s \in 0..31 : t = s + Hidden
        BY <3>3
      <4>2. ActiveSubpQuery = s - Hidden /\ t >= Hidden /\ t # NoStream
        BY <2>10, <2>14, <4>1
      <4>3. s - Hidden < -1
        BY <2>11, <4>1
      <4> QED BY <2>11, <4>2, <4>3
    <3> QED BY <2>9, <3>1, <3>2, <3>3
  <2> QED BY <2>5, <2>7, <2>15 DEF StreamsCurrent, t
<1> QED BY <1>1, StreamsInvariant, PTL

-----------------------------------------------------------------------------
(* Buttons *)

(* Induction, as there is no least number left out. *)
LEMMA Induction ==
  ASSUME NEW S, 0 \in S, \A k \in Nat : k \in S => k + 1 \in S
  PROVE  \A k \in Nat : k \in S
<1> DEFINE Out == {k \in Nat : k \notin S}
<1>1. ASSUME Out # {} PROVE FALSE
  <2>1. PICK k \in Out : \A m \in Out : k <= m
    BY <1>1, LeastNatural
  <2>2. k \in Nat /\ k # 0
    BY <2>1
  <2>3. k - 1 \in Nat /\ k - 1 \notin Out /\ (k - 1) + 1 = k
    BY <2>1, <2>2
  <2>4. k \in S
    BY <2>3
  <2> QED BY <2>1, <2>4
<1> QED BY <1>1

LEMMA ScreenFields ==
  ASSUME NEW p \in Screens
  PROVE  /\ Len(p.buttons) \in Nat /\ DOMAIN p.buttons = 1..Len(p.buttons)
         /\ \A n \in DOMAIN p.buttons :
              p.buttons[n] \in BtniType /\ Nothing # [screen |-> p, button |-> n]
<1>1. p.buttons \in Seq(BtniType)
  BY ScreensAssumption
<1> QED BY <1>1, NothingAssumption

LEMMA DistanceIsNumber ==
  ASSUME NEW b \in BtniType, NEW at \in Points
  PROVE  Distance(b, at) \in Int
<1>1. /\ b.x[1] \in Nat /\ b.x[2] \in Nat /\ b.y[1] \in Nat /\ b.y[2] \in Nat
      /\ at[1] \in Int /\ at[2] \in Int
  BY MouseAssumption DEF BtniType
<1>2. (b.x[1] + b.x[2]) \div 2 - at[1] \in Int /\ (b.y[1] + b.y[2]) \div 2 - at[2] \in Int
  BY <1>1
<1>3. \A n \in Int : Sq(n) \in Int
  BY DEF Sq
<1>4. \A m, n \in Int : m + n \in Int
  OBVIOUS
<1> QED BY <1>2, <1>3, <1>4, Zenon DEF Distance

(* The buttons under the mouse, and those of them whose centre is closest, *)
(* among the first k.                                                      *)
Under(p, at) == {n \in DOMAIN p.buttons : Within(p.buttons[n], at)}
Centre(p, at, n) == Distance(p.buttons[n], at)
Closest(p, at, n, k) ==
  /\ n \in Under(p, at)
  /\ \A m \in Under(p, at) \cap (1..k) :
       Centre(p, at, n) < Centre(p, at, m) \/ (Centre(p, at, n) = Centre(p, at, m) /\ n <= m)

(* The loop of dvdnav_mouse_select as it goes on from what f has found. *)
Looked(f, n, p, at) ==
  IF n = 0 THEN [n |-> 0, dist |-> Dist]
  ELSE LET d == Distance(p.buttons[n], at) IN
       IF Within(p.buttons[n], at) /\ d < f[n - 1].dist
       THEN [n |-> n, dist |-> d] ELSE f[n - 1]
BestType == [n : Nat, dist : Int]

LEMMA LookedIsBest ==
  ASSUME NEW p \in Screens, NEW at \in Points, NEW f,
         NEW n \in 0..Len(p.buttons), n # 0 => f[n - 1] \in BestType
  PROVE  Looked(f, n, p, at) \in BestType
<1>1. CASE n = 0
  BY <1>1, MouseAssumption DEF Looked, BestType
<1>2. CASE n # 0
  <2>1. n \in DOMAIN p.buttons /\ n \in Nat
    BY <1>2, ScreenFields
  <2>2. Distance(p.buttons[n], at) \in Int
    BY <2>1, ScreenFields, DistanceIsNumber
  <2> QED BY <1>2, <2>1, <2>2 DEF Looked, BestType
<1> QED BY <1>1, <1>2

LEMMA LoopIsFunction ==
  ASSUME NEW p \in Screens, NEW at \in Points
  PROVE  \E f \in [0..Len(p.buttons) -> BestType] :
           f = [n \in 0..Len(p.buttons) |-> Looked(f, n, p, at)]
<1> DEFINE Rounds == 0..Len(p.buttons)
           Step(f, n) == Looked(f, n, p, at)
           UpTo(k) == \E f \in [Rounds -> BestType] : \A n \in Rounds : n <= k => f[n] = Step(f, n)
           Good == {k \in Nat : UpTo(k)}
<1>1. Len(p.buttons) \in Nat /\ 0 \in Rounds /\ Rounds \subseteq Nat
  BY ScreenFields
<1>2. ASSUME NEW f \in [Rounds -> BestType], NEW n \in Rounds PROVE Step(f, n) \in BestType
  <2>1. n # 0 => n - 1 \in Rounds
    BY <1>1
  <2> QED BY <2>1, LookedIsBest
<1>3. 0 \in Good
  <2> DEFINE f == [n \in Rounds |-> [n |-> 0, dist |-> Dist]]
  <2>1. f \in [Rounds -> BestType]
    BY MouseAssumption DEF BestType
  <2>2. \A n \in Rounds : n <= 0 => f[n] = Step(f, n)
    BY <1>1 DEF Looked
  <2> QED BY <2>1, <2>2
<1>4. ASSUME NEW k \in Nat, k \in Good PROVE k + 1 \in Good
  <2>1. PICK f \in [Rounds -> BestType] : \A n \in Rounds : n <= k => f[n] = Step(f, n)
    BY <1>4
  <2> DEFINE h == [n \in Rounds |-> IF n = k + 1 THEN Step(f, n) ELSE f[n]]
  <2>2. h \in [Rounds -> BestType]
    BY <1>2
  <2>3. \A n \in Rounds : h[n] = IF n = k + 1 THEN Step(f, n) ELSE f[n]
    OBVIOUS
  <2> HIDE DEF h
  <2>4. ASSUME NEW n \in Rounds, n <= k + 1 PROVE h[n] = Step(h, n)
    <3>1. n \in Nat /\ (n = 0 \/ (n - 1 \in Rounds /\ n - 1 # k + 1))
      BY <1>1, <2>4
    <3>2. Step(h, n) = Step(f, n)
      BY <2>3, <3>1 DEF Looked
    <3>3. CASE n = k + 1
      BY <2>3, <3>2, <3>3
    <3>4. CASE n # k + 1
      <4>1. n <= k
        BY <2>4, <3>1, <3>4
      <4> QED BY <2>1, <2>3, <3>2, <3>4, <4>1
    <3> QED BY <3>3, <3>4
  <2> QED BY <2>2, <2>4
<1>5. \A k \in Nat : k \in Good
  <2> HIDE DEF Good
  <2> QED BY <1>3, <1>4, Induction
<1>6. PICK f \in [Rounds -> BestType] : \A n \in Rounds : n <= Len(p.buttons) => f[n] = Step(f, n)
  BY <1>1, <1>5
<1>7. f = [n \in Rounds |-> Step(f, n)]
  <2>1. \A n \in Rounds : f[n] = Step(f, n)
    BY <1>1, <1>6
  <2> HIDE DEF Step
  <2> QED BY <2>1
<1> QED BY <1>7

(* The loop finds the first of the closest buttons. *)
LEMMA BestIsClosest ==
  ASSUME NEW p \in Screens, NEW at \in Points, BestButton(p, at) # 0
  PROVE  Closest(p, at, BestButton(p, at), Len(p.buttons))
<1> DEFINE Rounds == 0..Len(p.buttons)
           f == CHOOSE g : g = [n \in Rounds |-> Looked(g, n, p, at)]
           Found0(k) == f[k].n = 0 /\ f[k].dist = Dist
           FoundOne(k) == /\ f[k].n \in 1..k /\ f[k].dist = Centre(p, at, f[k].n)
                          /\ f[k].dist < Dist /\ Closest(p, at, f[k].n, k)
           Barred(k) == \A m \in Under(p, at) \cap (1..k) : ~(Centre(p, at, m) < Dist)
           Good == {k \in Nat : k \in Rounds => (Found0(k) /\ Barred(k)) \/ FoundOne(k)}
<1>1. \E g : g = [n \in Rounds |-> Looked(g, n, p, at)]
  BY LoopIsFunction
<1>2. f = [n \in Rounds |-> Looked(f, n, p, at)]
  BY <1>1, Zenon
<1>3. BestButton(p, at) = f[Len(p.buttons)].n
  BY Zenon DEF BestButton, Looked
<1> HIDE DEF f
<1>4. Len(p.buttons) \in Nat /\ 0 \in Rounds /\ Rounds \subseteq Nat /\ Under(p, at) \subseteq Rounds \ {0}
  BY ScreenFields DEF Under
<1>5. \A n \in Rounds : f[n] = Looked(f, n, p, at)
  BY <1>2
<1>6. \A m \in Under(p, at) : Centre(p, at, m) \in Int
  BY ScreenFields, DistanceIsNumber DEF Under, Centre
<1>7. 0 \in Good
  <2>1. f[0] = Looked(f, 0, p, at)
    BY <1>4, <1>5
  <2>2. f[0] = [n |-> 0, dist |-> Dist]
    BY <2>1, Zenon DEF Looked
  <2> QED BY <2>2
<1>8. ASSUME NEW k \in Nat, k \in Good PROVE k + 1 \in Good
  <2> SUFFICES ASSUME k + 1 \in Rounds
               PROVE  (Found0(k + 1) /\ Barred(k + 1)) \/ FoundOne(k + 1)
    OBVIOUS
  <2>1. /\ k \in Rounds /\ k + 1 # 0 /\ (k + 1) - 1 = k /\ k + 1 \in DOMAIN p.buttons
        /\ \A m \in Nat : m \in 1..(k + 1) <=> m \in 1..k \/ m = k + 1
    BY <1>4, ScreenFields
  <2>2. (Found0(k) /\ Barred(k)) \/ FoundOne(k)
    BY <1>8, <2>1
  <2> DEFINE d == Centre(p, at, k + 1)
  <2>3. f[k + 1] = IF k + 1 \in Under(p, at) /\ d < f[k].dist
                   THEN [n |-> k + 1, dist |-> d] ELSE f[k]
    BY <1>5, <2>1 DEF Looked, Under, Centre
  <2>4. Dist \in Int
    BY MouseAssumption
  <2>5. CASE k + 1 \in Under(p, at) /\ d < f[k].dist
    <3>1. f[k + 1].n = k + 1 /\ f[k + 1].dist = d
      BY <2>3, <2>5
    <3>2. d \in Int
      BY <1>6, <2>5
    <3>3. d < Dist /\ \A m \in Under(p, at) \cap (1..k) : d < Centre(p, at, m)
      <4>1. CASE Found0(k) /\ Barred(k)
        BY <1>6, <2>4, <2>5, <3>2, <4>1
      <4>2. CASE FoundOne(k)
        <5>1. f[k].dist \in Int
          BY <1>6, <4>2 DEF Closest
        <5> QED BY <1>6, <2>4, <2>5, <3>2, <4>2, <5>1 DEF Closest
      <4> QED BY <2>2, <4>1, <4>2
    <3>4. Closest(p, at, k + 1, k + 1)
      BY <1>4, <2>1, <2>5, <3>3 DEF Closest
    <3> QED BY <1>4, <2>1, <3>1, <3>3, <3>4
  <2>6. CASE ~(k + 1 \in Under(p, at) /\ d < f[k].dist)
    <3>1. f[k + 1] = f[k]
      BY <2>3, <2>6
    <3>2. CASE Found0(k) /\ Barred(k)
      <4>1. Barred(k + 1)
        BY <1>4, <2>1, <2>6, <3>2
      <4> QED BY <3>1, <3>2, <4>1
    <3>3. CASE FoundOne(k)
      <4>1. f[k].dist \in Int /\ Centre(p, at, f[k].n) = f[k].dist /\ f[k].n \in Under(p, at)
            /\ f[k].n \in Nat
        BY <1>4, <1>6, <3>3 DEF Closest
      <4>2. f[k].n <= k + 1 /\ f[k].n \in 1..(k + 1)
        BY <3>3
      <4>3. Closest(p, at, f[k].n, k + 1)
        BY <1>4, <1>6, <2>1, <2>6, <3>3, <4>1, <4>2 DEF Closest
      <4> QED BY <3>1, <3>3, <4>3
    <3> QED BY <2>2, <3>2, <3>3
  <2> QED BY <2>5, <2>6
<1>9. Len(p.buttons) \in Good
  <2> HIDE DEF Good
  <2> QED BY <1>4, <1>7, <1>8, Induction
<1>10. (Found0(Len(p.buttons)) /\ Barred(Len(p.buttons))) \/ FoundOne(Len(p.buttons))
  BY <1>4, <1>9
<1> QED BY <1>3, <1>10

(* The state a call works on. *)
CallState(s) ==
  s = [hl |-> s.hl, shown |-> s.shown, still |-> s.still, left |-> s.left, ran |-> s.ran]

LEMMA SelectedState ==
  ASSUME NEW p \in Screens, NEW n, NEW s, CallState(s)
  PROVE  LET t == Selected(s, p, n)
         IN  /\ CallState(t) /\ t.left = s.left /\ t.ran = s.ran
             /\ t = s \/ (Exists(p, n) /\ t.hl = n)
BY DEF Selected, CallState

(* Only a button that exists runs a command, on a screen not left, and      *)
(* only that screen is left.                                                *)
Ran(s, p, t) ==
  /\ t.left \in {s.left, p.lbn}
  /\ \/ t.ran = s.ran /\ t.hl = s.hl
     \/ t.ran = [screen |-> p, button |-> s.hl] /\ Exists(p, s.hl) /\ ~Left(s, p)

LEMMA ExecutedState ==
  ASSUME NEW p \in Screens, NEW c, NEW s, CallState(s)
  PROVE  LET t == Executed(s, p, c)
         IN  t.left \in {s.left, p.lbn} /\ t.ran = [screen |-> p, button |-> s.hl]
BY DEF Executed, CallState

LEMMA ActivatedState ==
  ASSUME NEW p \in Screens, NEW s, CallState(s), NEW t \in Activated(s, p)
  PROVE  Ran(s, p, t)
<1>1. CASE Left(s, p)
  BY <1>1 DEF Activated, Ran
<1>2. CASE ~Left(s, p) /\ ~Exists(p, s.hl)
  <2>1. t = IF s.still THEN [s EXCEPT !.still = FALSE, !.left = p.lbn] ELSE s
    BY <1>2 DEF Activated
  <2> QED BY <2>1 DEF Ran, CallState
<1>3. CASE ~Left(s, p) /\ Exists(p, s.hl)
  <2>1. t = Executed(s, p, p.buttons[s.hl].cmd)
    BY <1>3 DEF Activated
  <2> QED BY <1>3, <2>1, ExecutedState DEF Ran
<1> QED BY <1>1, <1>2, <1>3

LEMMA AutoActionState ==
  ASSUME NEW p \in Screens, NEW s, CallState(s), NEW t \in AutoAction(s, p)
  PROVE  Ran(s, p, t)
<1>1. t = s \/ t \in Activated(s, p)
  BY DEF AutoAction
<1>2. Ran(s, p, s)
  BY DEF Ran
<1> QED BY <1>1, <1>2, ActivatedState

(* The screen of the engine, once left, is the one remembered.              *)
Remembered == screen \in Screens /\ (screen.lbn \in gone => left = screen.lbn)
(* A call that ends in state s keeps that, and presses what exists.         *)
LEMMA CallObeys ==
  ASSUME Remembered, NEW p \in Screens, NEW n, NEW s, NEW t,
         s.left = left, s.ran = Nothing, Ran(s, p, t), Becomes(t)
  PROVE  Remembered' /\ PressesExisting
<1>1. screen' = screen /\ left' = t.left /\ ran' = t.ran
  BY DEF Becomes
<1>2. Remembered'
  BY <1>1 DEF Becomes, Remembered
<1>3. ASSUME ran' # Nothing
      PROVE  ran' = [screen |-> p, button |-> s.hl] /\ Exists(p, s.hl) /\ ~Left(s, p)
  BY <1>1, <1>3 DEF Ran
<1>4. ran' # Nothing /\ ran'.screen = screen => screen.lbn \notin gone
  BY <1>3 DEF Remembered, Left
<1> QED BY <1>2, <1>3, <1>4 DEF PressesExisting

LEMMA NowState == CallState(Now) /\ Now.left = left /\ Now.ran = Nothing /\ Now.hl = hl
BY DEF CallState, Now

LEMMA KeyObeys ==
  ASSUME Remembered, NEW p \in Screens, NEW dir, Key(p, dir)
  PROVE  Remembered' /\ PressesExisting
<1>1. PICK b \in Found(p, hl) : \E t \in AutoAction(Selected(Now, p, b[dir]), p) : Becomes(t)
  BY DEF Key
<1> DEFINE s == Selected(Now, p, b[dir])
<1>2. PICK t \in AutoAction(s, p) : Becomes(t)
  BY <1>1
<1>3. CallState(s) /\ s.left = left /\ s.ran = Nothing
  BY NowState, SelectedState
<1> HIDE DEF s
<1>4. Ran(s, p, t)
  BY <1>2, <1>3, AutoActionState
<1> QED BY <1>2, <1>3, <1>4, CallObeys

(* A call that selects button n, or none, and presses it, or not.           *)
LEMMA SelectingObeys ==
  ASSUME Remembered, NEW p \in Screens, NEW n, NEW s \in {Now, Selected(Now, p, n)},
         Becomes(s) \/ \E t \in Activated(s, p) : Becomes(t)
  PROVE  Remembered' /\ PressesExisting
<1>1. CallState(s) /\ s.left = left /\ s.ran = Nothing
  BY NowState, SelectedState
<1>2. CASE Becomes(s)
  <2>1. Ran(s, p, s)
    BY <1>1 DEF Ran
  <2> QED BY <1>1, <1>2, <2>1, CallObeys
<1>3. CASE \E t \in Activated(s, p) : Becomes(t)
  <2>1. PICK t \in Activated(s, p) : Becomes(t)
    BY <1>3
  <2>2. Ran(s, p, t)
    BY <1>1, <2>1, ActivatedState
  <2> QED BY <1>1, <2>1, <2>2, CallObeys
<1> QED BY <1>2, <1>3

LEMMA MouseObeys ==
  ASSUME Remembered, NEW p \in Screens, NEW at, NEW press \in BOOLEAN, Mouse(p, at, press)
  PROVE  Remembered' /\ PressesExisting
<1> DEFINE n == BestButton(p, at)
           s == IF n # hl THEN Selected(Now, p, n) ELSE Now
<1>1. s \in {Now, Selected(Now, p, n)}
  OBVIOUS
<1>2. Becomes(s) \/ \E t \in Activated(s, p) : Becomes(t)
  BY DEF Mouse
<1> HIDE DEF s, n
<1> QED BY <1>1, <1>2, SelectingObeys

LEMMA CmdObeys ==
  ASSUME Remembered, NEW n, NEW c, ActivateCmd(n, c)
  PROVE  Remembered' /\ PressesExisting
<1> DEFINE m == IF n > 0 THEN IF c.hl = -1 THEN n % 64 ELSE c.hl ELSE Now.hl
           s == [Now EXCEPT !.hl = m, !.still = FALSE]
<1>2. Becomes(s)
  BY DEF ActivateCmd
<1> HIDE DEF m
<1>1. s.left = left /\ s.ran = Nothing
  BY NowState DEF CallState
<1> HIDE DEF s
<1>3. Ran(s, screen, s) /\ screen \in Screens
  BY <1>1 DEF Ran, Remembered
<1> QED BY <1>1, <1>2, <1>3, CallObeys

LEMMA EngineObeys ==
  ASSUME Remembered,
         (\E n \in Links : LinkHl(n)) \/ Announce \/ EndsStill \/ \E p \in Screens : ReadNav(p)
  PROVE  Remembered' /\ PressesExisting
<1>1. ran' = Nothing
  BY DEF LinkHl, Announce, EndsStill, ReadNav
<1>2. Remembered'
  BY DEF Remembered, LinkHl, Announce, EndsStill, ReadNav
<1> QED BY <1>1, <1>2 DEF PressesExisting

LEMMA StepsObey ==
  ASSUME Remembered, ButtonsNext
  PROVE  Remembered' /\ PressesExisting
<1>1. CASE \E p \in Screens, dir \in Directions : Key(p, dir)
  BY <1>1, KeyObeys
<1>2. CASE \E p \in Screens, n \in Links : Select(p, n)
  BY <1>2, SelectingObeys DEF Select
<1>3. CASE \E p \in Screens : Activate(p)
  BY <1>3, SelectingObeys DEF Activate
<1>4. CASE \E p \in Screens, n \in Links : SelectAndActivate(p, n)
  BY <1>4, SelectingObeys DEF SelectAndActivate
<1>5. CASE \E p \in Screens, at \in Points, press \in BOOLEAN : Mouse(p, at, press)
  BY <1>5, MouseObeys
<1>6. CASE \E n \in Links, c \in Cmd : ActivateCmd(n, c)
  BY <1>6, CmdObeys
<1>7. CASE (\E n \in Links : LinkHl(n)) \/ Announce \/ EndsStill \/ \E p \in Screens : ReadNav(p)
  BY <1>7, EngineObeys
<1> QED BY <1>1, <1>2, <1>3, <1>4, <1>5, <1>6, <1>7 DEF ButtonsNext

(* The engine's screen, once left, stays the one remembered until it is    *)
(* read again.                                                             *)
THEOREM RemembersScreen == ButtonsSpec => []Remembered
<1>1. ButtonsInit => Remembered
  BY DEF ButtonsInit, Remembered
<1>2. Remembered /\ [ButtonsNext]_buttonVars => Remembered'
  <2>1. Remembered /\ UNCHANGED buttonVars => Remembered'
    BY DEF Remembered, buttonVars
  <2> QED BY <2>1, StepsObey
<1> QED BY <1>1, <1>2, PTL DEF ButtonsSpec

LEMMA KeysReach ==
  ASSUME hl' # hl, ran' = Nothing, NEW p \in Screens, NEW dir, Key(p, dir)
  PROVE  Exists(p, hl')
<1>1. PICK b \in Found(p, hl) : \E t \in AutoAction(Selected(Now, p, b[dir]), p) : Becomes(t)
  BY DEF Key
<1> DEFINE s == Selected(Now, p, b[dir])
<1>2. PICK t \in AutoAction(s, p) : Becomes(t)
  BY <1>1
<1>3. CallState(s) /\ (s.hl = hl \/ Exists(p, s.hl))
  BY NowState, SelectedState
<1> HIDE DEF s
<1>4. Ran(s, p, t) /\ t.hl # hl /\ t.ran = Nothing /\ hl' = t.hl
  BY <1>2, <1>3, AutoActionState DEF Becomes
<1>5. t.hl = s.hl
  <2>1. ASSUME t.ran = [screen |-> p, button |-> s.hl], Exists(p, s.hl) PROVE FALSE
    BY <1>4, <2>1, ScreenFields DEF Exists
  <2> QED BY <1>4, <2>1 DEF Ran
<1> QED BY <1>3, <1>4, <1>5

LEMMA MouseTakes ==
  ASSUME hl' # hl, NEW p \in Screens, NEW at \in Points, Mouse(p, at, FALSE)
  PROVE  Closest(p, at, hl', Len(p.buttons))
<1> DEFINE n == BestButton(p, at)
           s == IF n # hl THEN Selected(Now, p, n) ELSE Now
<1>1. n # 0 /\ Becomes(s)
  BY DEF Mouse
<1>2. s.hl = hl'
  BY <1>1 DEF Becomes
<1>3. hl' = n
  <2>1. Now.hl = hl
    BY NowState
  <2> QED BY <1>2, <2>1, NowState, SelectedState
<1> QED BY <1>1, <1>3, BestIsClosest

(* ButtonsObey (highlight.c): only buttons that exist are pressed, and not *)
(* on a screen that was left; keys select buttons that exist, the mouse    *)
(* the closest one under it.                                               *)
THEOREM PressesObey == ButtonsSpec => ButtonsObey
<1> DEFINE Obeyed == PressesExisting /\ KeysReachExisting /\ MouseTakesClosest
<1>1. Remembered /\ [ButtonsNext]_buttonVars => [Obeyed]_buttonVars
  <2> SUFFICES ASSUME Remembered, ButtonsNext PROVE Obeyed
    OBVIOUS
  <2>1. PressesExisting
    BY StepsObey
  <2>2. KeysReachExisting
    BY KeysReach DEF KeysReachExisting
  <2>3. MouseTakesClosest
    <3> SUFFICES ASSUME hl' # hl, NEW p \in Screens, NEW at \in Points, Mouse(p, at, FALSE)
                 PROVE  /\ hl' \in Under(p, at)
                        /\ \A n \in Under(p, at) :
                             \/ Distance(p.buttons[hl'], at) < Distance(p.buttons[n], at)
                             \/ /\ Distance(p.buttons[hl'], at) = Distance(p.buttons[n], at)
                                /\ hl' <= n
      BY DEF MouseTakesClosest, Under
    <3>1. Closest(p, at, hl', Len(p.buttons))
      BY MouseTakes
    <3>2. Under(p, at) \subseteq 1..Len(p.buttons)
      BY ScreenFields DEF Under
    <3> QED BY <3>1, <3>2 DEF Closest, Centre
  <2> QED BY <2>1, <2>2, <2>3
<1> QED BY <1>1, RemembersScreen, PTL DEF ButtonsSpec, ButtonsObey

=============================================================================
