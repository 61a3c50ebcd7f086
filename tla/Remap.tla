-------------------------------- MODULE Remap --------------------------------
(***************************************************************************)
(* Block remapping (src/src/remap.c): a file in the user's home directory  *)
(* lists ranges of blocks of a disc not to be played; the engine asks, at  *)
(* the end of each VOBU, where to go on (dvdnav.c).                        *)
(*                                                                         *)
(* The map is an array of ranges, sorted by place (domain, title, program) *)
(* and block.  Every line read merges its range into one that overlaps it, *)
(* or inserts it.  Memory always suffices here.                            *)
(***************************************************************************)
EXTENDS Integers, Sequences, FiniteSets, SequencesExt

CONSTANTS
  Places,     \* <<domain, title, program>>, tuples of integers
  Blocks,     \* block numbers
  Lines,      \* the ranges a file may list
  MaxLines    \* bound on how many it does, with repetitions

ASSUME PlacesAssumption == Places \subseteq Int \X Int \X Int
ASSUME BlocksAssumption == Blocks \subseteq Nat
ASSUME LinesAssumption == Lines \subseteq [place : Places, start : Blocks, end : Blocks]
ASSUME MaxLinesAssumption == MaxLines \in Nat

VARIABLES
  blocks,     \* map->blocks[0 .. nblocks - 1]
  debug,      \* map->debug
  file,       \* "open", "loaded" or, when nothing is in it, "useless"
  added,      \* history: the ranges of the lines read
  spanned     \* history: one overlapped several entries, or ended before its start

remapVars == <<blocks, debug, file, added, spanned>>

-----------------------------------------------------------------------------
(* The order of places: the first difference counts. *)
Precedes(p, q) == \E i \in 1..3 : p[i] < q[i] /\ \A j \in 1..i - 1 : p[j] = q[j]
(* compare_block: -1 when a precedes b, 1 when a follows b, 0 when they    *)
(* overlap.  They do when they share a block.                              *)
Compare(a, b) ==
  CASE Precedes(a.place, b.place) -> -1
    [] Precedes(b.place, a.place) -> 1
    [] a.place = b.place -> IF a.end < b.start THEN -1 ELSE IF a.start > b.end THEN 1 ELSE 0

(* findblock: a binary search; the index of an entry that overlaps the     *)
(* key, or 0.                                                              *)
NotFound == 0
FindBlock(map, key) ==
  LET n == Len(map)
      find[r \in (1..n + 1) \X (0..n)] ==
        LET mid == r[1] + (r[2] - r[1]) \div 2
            res == Compare(key, map[mid])
        IN  IF r[1] > r[2] THEN NotFound
            ELSE IF res < 0 THEN find[<<r[1], mid - 1>>]
            ELSE IF res > 0 THEN find[<<mid + 1, r[2]>>]
            ELSE mid
  IN  find[<<1, n>>]

(* Mutant: the end of the range added wins. *)
MergeLast(b, r) == [b EXCEPT !.start = IF r.start < @ THEN r.start ELSE @, !.end = r.end]

(* mergeblock *)
Merge(b, r) == [b EXCEPT !.start = IF r.start < @ THEN r.start ELSE @,
                         !.end = IF r.end > @ THEN r.end ELSE @]

(* remap_add_node: the entries behind that the range precedes move up.     *)
AddNode(map, r) ==
  LET i == FindBlock(map, r)
      kept == {n \in 0..Len(map) : n = 0 \/ Compare(r, map[n]) >= 0}
      at == CHOOSE n \in kept : \A m \in kept : m <= n
  IN  IF i # NotFound THEN [map EXCEPT ![i] = Merge(@, r)]
      ELSE InsertAt(map, at + 1, r)

(* Mutant: playback goes on behind the range. *)
RemapBlockBehind(map, place, cblock, offset) ==
  LET i == FindBlock(map, [place |-> place, start |-> cblock + offset, end |-> cblock + offset])
  IN  IF i = NotFound THEN offset ELSE map[i].end + 1 - cblock

(* remap_block: the offset of the block to go on with. *)
RemapBlock(map, place, cblock, offset) ==
  LET i == FindBlock(map, [place |-> place, start |-> cblock + offset, end |-> cblock + offset])
  IN  IF i = NotFound THEN offset ELSE map[i].end - cblock

-----------------------------------------------------------------------------
(* remap_loadmap, line by line; comments, empty lines and lines parseblock *)
(* rejects change nothing.  It rejects a line without a word behind the    *)
(* last number, which may be followed by a comma only.                     *)
RangeLine(r, trailed) ==
  /\ file = "open" /\ Len(added) < MaxLines
  /\ IF trailed
     THEN /\ blocks' = AddNode(blocks, r)
          /\ added' = Append(added, r)
          /\ spanned' = (spanned \/ r.end < r.start
                         \/ Cardinality({n \in DOMAIN blocks : Compare(r, blocks[n]) = 0}) > 1)
     ELSE UNCHANGED <<blocks, added, spanned>>
  /\ UNCHANGED <<debug, file>>

DebugLine ==
  /\ file = "open"
  /\ debug' = TRUE
  /\ UNCHANGED <<blocks, file, added, spanned>>

EndOfFile ==
  /\ file = "open"
  /\ file' = IF blocks = <<>> /\ ~debug THEN "useless" ELSE "loaded"
  /\ UNCHANGED <<blocks, debug, added, spanned>>

RemapInit == blocks = <<>> /\ debug = FALSE /\ file = "open" /\ added = <<>> /\ spanned = FALSE

RemapNext ==
  \/ \E r \in Lines, trailed \in BOOLEAN : RangeLine(r, trailed)
  \/ DebugLine
  \/ EndOfFile

RemapSpec == RemapInit /\ [][RemapNext]_remapVars

-----------------------------------------------------------------------------
(* Properties *)

(* The ranges of a place that hold a block, and both it and the next one.  *)
Listing(place, n) == {r \in ToSet(added) : r.place = place /\ r.start <= n /\ n <= r.end}
Linking(place, n) == Listing(place, n) \cap Listing(place, n + 1)

(* Where playback goes on when it is to go on at block n. *)
GoesOn(place, n) == RemapBlock(blocks, place, 0, n)

(* Remapping never plays backwards, nor skips a block that is not listed:  *)
(* from a listed block it goes on within the ranges listed, to their end   *)
(* or not so far, from any other block on the spot; whatever ranges the    *)
(* file lists, and in which order.                                         *)
SkipsListedOnly ==
  \A place \in Places, n \in Blocks :
    LET m == GoesOn(place, n)
    IN  m >= n /\ (m > n => \A k \in n..m - 1 : Linking(place, k) # {})

(* A listed block goes on at the end of all ranges that overlap from there *)
(* on.  A range that overlaps several entries is merged into only one of   *)
(* them, and the entries overlap afterwards: then the search may miss some *)
(* listed blocks, and so it may behind a range that ends before its start. *)
SkipsAllListed ==
  ~spanned =>
    /\ \A i, j \in DOMAIN blocks : i < j => Compare(blocks[i], blocks[j]) < 0
    /\ \A place \in Places, n \in Blocks :
         LET m == GoesOn(place, n)
         IN  Listing(place, n) # {} => m >= n /\ Linking(place, m) = {}

=============================================================================
