--------------------------- MODULE ReadCacheProofs ---------------------------
(***************************************************************************)
(* Safety of the read cache for any number of chunks, threads, handles,    *)
(* files and sectors.                                                      *)
(***************************************************************************)
EXTENDS ReadCacheInv, FiniteSetTheorems, TLAPS

USE DEF Out, Size, At

(* Adding a loan of chunk c, at a handle that was free, adds it to the     *)
(* loans of c and to no other chunk.                                       *)
LEMMA LendCounts ==
  ASSUME TypeOK, UsageIsLoans, NEW h \in Handles, NEW c \in Chunks, NEW l \in Loan,
         lent[h] = NoLoan, l.chunk = c,
         lent' = [lent EXCEPT ![h] = l],
         usage_count' = [usage_count EXCEPT ![c] = @ + 1]
  PROVE  UsageIsLoans'
<1> SUFFICES ASSUME NEW d \in Chunks
             PROVE  usage_count'[d] = Cardinality(LentFrom(d)')
  BY DEF UsageIsLoans
<1>1. IsFiniteSet(LentFrom(d))
  BY HandlesAssumption, FS_Subset DEF LentFrom
<1>2. l # NoLoan
  BY LoanAssumption
<1>3. CASE d = c
  <2>1. LentFrom(d)' = LentFrom(d) \cup {h} /\ h \notin LentFrom(d)
    BY <1>2, <1>3 DEF LentFrom, TypeOK
  <2>2. Cardinality(LentFrom(d)') = Cardinality(LentFrom(d)) + 1
    BY <1>1, <2>1, FS_AddElement
  <2> QED BY <1>3, <2>2 DEF UsageIsLoans, TypeOK
<1>4. CASE d # c
  <2>1. LentFrom(d)' = LentFrom(d)
    BY <1>2, <1>4 DEF LentFrom, TypeOK
  <2> QED BY <1>4, <2>1 DEF UsageIsLoans, TypeOK
<1> QED BY <1>3, <1>4

(* Taking a loan back removes it from the loans of its chunk only. *)
LEMMA ReturnCounts ==
  ASSUME TypeOK, UsageIsLoans, NEW h \in Handles, lent[h] # NoLoan,
         lent' = [lent EXCEPT ![h] = NoLoan],
         usage_count' = [usage_count EXCEPT ![lent[h].chunk] = @ - 1]
  PROVE  UsageIsLoans'
<1> DEFINE c == lent[h].chunk
<1> SUFFICES ASSUME NEW d \in Chunks
             PROVE  usage_count'[d] = Cardinality(LentFrom(d)')
  BY DEF UsageIsLoans
<1>1. IsFiniteSet(LentFrom(d))
  BY HandlesAssumption, FS_Subset DEF LentFrom
<1>2. c \in Chunks
  BY DEF TypeOK, Loan
<1>3. CASE d = c
  <2>1. LentFrom(d)' = LentFrom(d) \ {h} /\ h \in LentFrom(d)
    BY <1>3 DEF LentFrom, TypeOK
  <2>2. Cardinality(LentFrom(d)') = Cardinality(LentFrom(d)) - 1
    BY <1>1, <2>1, FS_RemoveElement
  <2> QED BY <1>2, <1>3, <2>2 DEF UsageIsLoans, TypeOK
<1>4. CASE d # c
  <2>1. LentFrom(d)' = LentFrom(d)
    BY <1>4 DEF LentFrom, TypeOK
  <2> QED BY <1>2, <1>4, <2>1 DEF UsageIsLoans, TypeOK
<1> QED BY <1>3, <1>4

(* A chunk that is reusable has no loan pointing into it. *)
LEMMA IdleHasNoLoan ==
  ASSUME TypeOK, UsageIsLoans, NEW c \in Chunks, usage_count[c] = 0
  PROVE  \A h \in Handles : Out(h) => At(h) # c
<1>1. IsFiniteSet(LentFrom(c))
  BY HandlesAssumption, FS_Subset DEF LentFrom
<1>2. LentFrom(c) = {}
  BY <1>1, FS_EmptySet DEF UsageIsLoans
<1> QED BY <1>2 DEF LentFrom

(* ... and neither has a chunk without memory. *)
LEMMA PlacementFacts ==
  ASSUME IInv, NEW count \in 1..Cap, NEW p \in Placement(count)
  PROVE  /\ p[1] \in Chunks
         /\ p[2] \in count..Cap
         /\ \A h \in Handles : Out(h) => At(h) # p[1]
<1> USE SizesAssumption DEF Placement
<1>1. CASE BestFit(count) # {}
  <2>1. p[1] \in BestFit(count) /\ p[2] = cache_malloc_size[p[1]]
    BY <1>1
  <2>2. p[1] \in Chunks /\ usage_count[p[1]] = 0 /\ p[2] >= count
    BY <2>1 DEF BestFit, Reusable
  <2>3. \A h \in Handles : Out(h) => At(h) # p[1]
    BY <2>2, IdleHasNoLoan DEF IInv
  <2> QED BY <2>1, <2>2, <2>3 DEF IInv, TypeOK
<1>2. CASE BestFit(count) = {} /\ Reusable # {}
  <2>1. p[1] \in Largest /\ p[2] = count
    BY <1>2
  <2>2. p[1] \in Chunks /\ usage_count[p[1]] = 0
    BY <2>1 DEF Largest, Reusable
  <2> QED BY <2>1, <2>2, IdleHasNoLoan DEF IInv
<1>3. CASE BestFit(count) = {} /\ Reusable = {}
  <2>1. p[1] \in FirstEmpty /\ p[2] = (IF count > MinAlloc THEN count ELSE MinAlloc)
    BY <1>3
  <2>2. p[1] \in Chunks /\ Size(p[1]) = 0
    BY <2>1 DEF FirstEmpty
  <2> QED BY <2>1, <2>2 DEF IInv, LoanInv
<1> QED BY <1>1, <1>2, <1>3

-----------------------------------------------------------------------------
(* One lemma per action: the invariant survives it. *)

LEMMA InitIInv == Init => IInv
<1> SUFFICES ASSUME Init PROVE IInv
  OBVIOUS
<1> USE ChunksAssumption, SizesAssumption, AheadAssumption, ThreadsAssumption,
        LoanAssumption, FilesAssumption
    DEF Init
<1>1. TypeOK
  <2>1. cache_buffer \in [Chunks -> [Slots -> Block \cup {Junk}]]
    OBVIOUS
  <2>2. current \in Chunks /\ last_sector \in Sectors /\ 0 \in Sectors
    BY DEF Chunks, Sectors
  <2>3. /\ read_ahead_size \in AheadMin..AheadMax /\ read_ahead_incr \in 0..AheadMax
        /\ 0 \in 0..Cap /\ 0 \in -1..Cap
    OBVIOUS
  <2>4. /\ cache_malloc_size \in [Chunks -> 0..Cap]
        /\ cache_start_sector \in [Chunks -> Sectors]
        /\ cache_block_count \in [Chunks -> 0..Cap]
        /\ cache_read_count \in [Chunks -> -1..Cap]
        /\ cache_valid \in [Chunks -> BOOLEAN]
        /\ usage_count \in [Chunks -> Int]
    BY <2>2, <2>3
  <2>5. /\ lent \in [Handles -> Loan \cup {NoLoan}]
        /\ pc \in [Threads -> {"idle", "fill", "check", "sweep", "scan", "destroy"}]
    OBVIOUS
  <2>6. freeing \in BOOLEAN /\ use_read_ahead \in BOOLEAN /\ allocated \in BOOLEAN
        /\ closed \in BOOLEAN /\ file \in Files \cup {NoFile}
        /\ request \in Handles \cup {NoLoan}
    OBVIOUS
  <2> HIDE DEF Init
  <2> QED BY <2>1, <2>2, <2>3, <2>4, <2>5, <2>6 DEF TypeOK
<1>2. UsageIsLoans
  <2>1. \A c \in Chunks : LentFrom(c) = {}
    BY DEF LentFrom
  <2> QED BY <2>1, FS_EmptySet DEF UsageIsLoans
<1>3. SizesInv /\ ContentInv /\ PendingInv /\ LoanInv /\ EndInv
  BY DEF SizesInv, ContentInv, PendingInv, LoanInv, EndInv
<1> QED BY <1>1, <1>2, <1>3 DEF IInv

(* Steps that move a thread along the end of the cache, and the switches   *)
(* of Main, leave chunks and loans alone.                                  *)
LEMMA QuietIInv ==
  ASSUME IInv, UNCHANGED <<fieldVars, usage_count, aheadVars, lent, request>>, TypeOK',
         closed' = closed, pc'[Main] = pc[Main] \/ (pc'[Main] # "fill" /\ pc[Main] # "fill"),
         file' = file, EndInv'
  PROVE  IInv'
<1> USE DEF IInv, fieldVars, aheadVars
<1>1. UsageIsLoans'
  BY DEF UsageIsLoans, LentFrom
<1>2. SizesInv' /\ ContentInv' /\ PendingInv' /\ LoanInv'
  BY DEF SizesInv, ContentInv, PendingInv, LoanInv
<1> QED BY <1>1, <1>2

LEMMA SetReadaheadIInv == ASSUME IInv, NEW flag \in BOOLEAN, SetReadahead(flag) PROVE IInv'
<1> USE DEF SetReadahead, endVars
<1>1. TypeOK'
  BY DEF IInv, TypeOK, fieldVars, aheadVars
<1>2. EndInv'
  BY DEF IInv, EndInv, fieldVars
<1> QED BY <1>1, <1>2, QuietIInv

LEMMA ChangeFileIInv ==
  ASSUME IInv, NEW f \in Files \cup {NoFile}, ChangeFile(f) PROVE IInv'
<1> USE DEF IInv, ChangeFile, MainReady, endVars
<1>1. TypeOK'
  BY DEF TypeOK, aheadVars
<1>2. UsageIsLoans'
  BY DEF UsageIsLoans, LentFrom
<1>3. SizesInv' /\ ContentInv'
  BY DEF SizesInv, ContentInv
<1>4. PendingInv' /\ LoanInv' /\ EndInv'
  BY DEF PendingInv, LoanInv, EndInv
<1> QED BY <1>1, <1>2, <1>3, <1>4

LEMMA PreCacheIInv ==
  ASSUME IInv, NEW sector \in Sectors, NEW count \in 1..Cap,
         sector + count - 1 \in Sectors, PreCache(sector, count)
  PROVE  IInv'
<1> USE SizesAssumption DEF IInv, MainReady, endVars, discVars
<1>1. PICK p \in Placement(count) :
        /\ cache_malloc_size'  = [cache_malloc_size  EXCEPT ![p[1]] = p[2]]
        /\ cache_start_sector' = [cache_start_sector EXCEPT ![p[1]] = sector]
        /\ cache_block_count'  = [cache_block_count  EXCEPT ![p[1]] = count]
        /\ cache_read_count'   = [cache_read_count   EXCEPT ![p[1]] = 0]
        /\ cache_valid'        = [cache_valid        EXCEPT ![p[1]] = TRUE]
        /\ current' = p[1]
  BY DEF PreCache
<1>2. /\ p[1] \in Chunks /\ p[2] \in count..Cap
      /\ \A h \in Handles : Out(h) => At(h) # p[1]
  BY PlacementFacts
<1>3. /\ MainReady /\ UNCHANGED <<cache_buffer, usage_count, read_ahead_size, read_ahead_incr,
                                  last_sector, discVars, endVars, lent, pc, request>>
  BY DEF PreCache
<1>4. TypeOK'
  BY <1>1, <1>2, <1>3 DEF TypeOK
<1>5. UsageIsLoans'
  BY <1>3 DEF UsageIsLoans, LentFrom
<1>6. SizesInv'
  BY <1>1, <1>2, <1>3 DEF SizesInv, TypeOK, Sectors
<1>7. ContentInv'
  <2> SUFFICES ASSUME NEW c \in Chunks, cache_valid'[c], ~closed', NEW k \in Slots,
                      k < cache_read_count'[c]
               PROVE  cache_buffer'[c][k] = <<file', cache_start_sector'[c] + k>>
    BY DEF ContentInv
  <2>1. c # p[1]
    BY <1>1 DEF TypeOK, Slots
  <2>2. /\ cache_valid[c] /\ ~closed /\ k < cache_read_count[c]
        /\ cache_buffer'[c][k] = cache_buffer[c][k] /\ file' = file
        /\ cache_start_sector'[c] = cache_start_sector[c]
    BY <1>1, <1>3, <2>1 DEF TypeOK
  <2> QED BY <2>2 DEF ContentInv
<1>8. PendingInv'
  BY <1>3 DEF PendingInv
<1>9. LoanInv'
  BY <1>1, <1>2, <1>3 DEF LoanInv, TypeOK, Loan
<1>10. EndInv'
  BY <1>3 DEF EndInv
<1> QED BY <1>4, <1>5, <1>6, <1>7, <1>8, <1>9, <1>10

LEMMA LookupIInv ==
  ASSUME IInv, NEW h \in Handles, NEW sector \in Sectors, Lookup(h, sector)
  PROVE  IInv'
<1> USE SizesAssumption, AheadAssumption DEF MainReady, endVars, discVars, fieldVars
<1> USE DEF IInv
<1>1. PICK c \in HitChunk(sector) :
        /\ usage_count' = [usage_count EXCEPT ![c] = @ + 1]
        /\ lent' = [lent EXCEPT ![h] =
                      [chunk |-> c, slot |-> sector - cache_start_sector[c],
                       block |-> <<file, sector>>, to |-> "main"]]
  BY DEF Lookup
<1> DEFINE l == [chunk |-> c, slot |-> sector - cache_start_sector[c],
                 block |-> <<file, sector>>, to |-> "main"]
<1>2. c \in Chunks /\ Covers(c, sector)
  BY <1>1 DEF HitChunk, TypeOK
<1>3. /\ MainReady /\ file # NoFile /\ lent[h] = NoLoan
      /\ last_sector' = sector /\ request' = h
      /\ pc' = [pc EXCEPT ![Main] = "fill"]
      /\ UNCHANGED <<fieldVars, current, discVars, endVars>>
  BY DEF Lookup
<1>4. /\ l.slot \in Slots /\ l.slot <= cache_read_count[c] /\ l.slot < cache_block_count[c]
      /\ cache_valid[c] /\ cache_start_sector[c] + l.slot = sector
  BY <1>2 DEF Covers, TypeOK, Slots, Sectors
<1>5. l \in Loan /\ l # NoLoan
  BY <1>2, <1>3, <1>4, LoanAssumption DEF Loan, Block, TypeOK
<1>6. lent' = [lent EXCEPT ![h] = l]
  BY <1>1
<1>7. TypeOK'
  <2>1. lent' \in [Handles -> Loan \cup {NoLoan}]
    BY <1>5, <1>6 DEF TypeOK
  <2>2. usage_count' \in [Chunks -> Int]
    BY <1>1, <1>2 DEF TypeOK
  <2>3. read_ahead_size' \in AheadMin..AheadMax /\ read_ahead_incr' \in 0..AheadMax
    BY DEF Lookup, TypeOK
  <2>4. pc' \in [Threads -> {"idle", "fill", "check", "sweep", "scan", "destroy"}]
    BY <1>3 DEF TypeOK
  <2> QED BY <1>3, <2>1, <2>2, <2>3, <2>4 DEF TypeOK
<1>8. UsageIsLoans'
  BY <1>1, <1>2, <1>3, <1>5, <1>6, LendCounts
<1>9. SizesInv' /\ ContentInv'
  BY <1>3 DEF SizesInv, ContentInv
<1>10. PendingInv'
  BY <1>3, <1>4, <1>5, <1>6, ThreadsAssumption DEF PendingInv, TypeOK
<1>11. LoanInv'
  <2> SUFFICES ASSUME NEW g \in Handles, lent'[g] # NoLoan
               PROVE /\ lent'[g].slot < cache_block_count'[lent'[g].chunk]
                     /\ cache_malloc_size'[lent'[g].chunk] > 0
                     /\ ~ReadFaults /\ lent'[g].to # "main" =>
                          /\ lent'[g].slot < cache_read_count'[lent'[g].chunk]
                          /\ cache_buffer'[lent'[g].chunk][lent'[g].slot] = lent'[g].block
    BY DEF LoanInv
  <2>1. CASE g = h
    BY <1>2, <1>3, <1>4, <1>6, <2>1 DEF SizesInv, TypeOK
  <2>2. CASE g # h
    BY <1>3, <1>6, <2>2 DEF LoanInv, TypeOK
  <2> QED BY <2>1, <2>2
<1>12. EndInv'
  BY <1>3, ThreadsAssumption DEF EndInv, TypeOK
<1> QED BY <1>7, <1>8, <1>9, <1>10, <1>11, <1>12

(* The blocks one call reads: at least the wanted one, at most the rest of *)
(* the chunk.                                                              *)
LEMMA ReadSizeBounds ==
  ASSUME IInv, pc[Main] = "fill"
  PROVE  LET c == At(request) IN
         /\ c \in Chunks /\ cache_read_count[c] \in 0..Cap
         /\ ReadSize(c) \in 0..(cache_block_count[c] - cache_read_count[c])
         /\ lent[request].slot < cache_read_count[c] + ReadSize(c)
         /\ NextAhead \in AheadMin..AheadMax
<1> DEFINE c == At(request)
<1>1. /\ c \in Chunks /\ lent[request].slot \in Slots
      /\ lent[request].slot <= cache_read_count[c]
      /\ lent[request].slot < cache_block_count[c]
      /\ cache_read_count[c] <= cache_block_count[c]
      /\ cache_read_count[c] \in -1..Cap /\ cache_block_count[c] \in 0..Cap
  BY DEF IInv, PendingInv, SizesInv, TypeOK, Loan
<1>2. NextAhead \in AheadMin..AheadMax
  BY AheadAssumption DEF NextAhead, IInv, TypeOK
<1>3. ReadSize(c) \in 0..(cache_block_count[c] - cache_read_count[c])
  BY <1>1, <1>2, AheadAssumption, SizesAssumption DEF ReadSize
<1>4. lent[request].slot < cache_read_count[c] + ReadSize(c)
  BY <1>1, <1>2, AheadAssumption, SizesAssumption DEF ReadSize, Slots
<1> QED BY <1>1, <1>2, <1>3, <1>4, SizesAssumption DEF Slots

LEMMA FillIInv == ASSUME IInv, Fill PROVE IInv'
<1> USE SizesAssumption, AheadAssumption DEF IInv, endVars, discVars
<1> DEFINE c     == At(request)
           first == cache_read_count[c]
<1>1. pc[Main] = "fill"
  BY DEF Fill
<1>2. /\ c \in Chunks /\ first \in 0..Cap
      /\ ReadSize(c) \in 0..(cache_block_count[c] - first)
      /\ lent[request].slot < first + ReadSize(c)
      /\ NextAhead \in AheadMin..AheadMax
  BY <1>1, ReadSizeBounds
<1>3. PICK n \in ReadResult(ReadSize(c)) :
        /\ cache_buffer' = [cache_buffer EXCEPT ![c] =
             [k \in Slots |-> IF k \in first..(first + n - 1)
                              THEN <<file, cache_start_sector[c] + k>>
                              ELSE @[k]]]
        /\ cache_read_count' = [cache_read_count EXCEPT ![c] = first + n]
  BY DEF Fill
<1>4. PICK to \in {"app", "lost"} : lent' = [lent EXCEPT ![request].to = to]
  BY DEF Fill
<1>5. /\ read_ahead_size' = NextAhead /\ request' = NoLoan
      /\ pc' = [pc EXCEPT ![Main] = "idle"]
      /\ UNCHANGED <<cache_malloc_size, cache_start_sector, cache_block_count, cache_valid,
                     usage_count, current, read_ahead_incr, last_sector, discVars, endVars>>
  BY DEF Fill
<1>6. /\ n \in Int /\ n >= -1 /\ n <= ReadSize(c)
      /\ first + n <= cache_block_count[c]
      /\ ~ReadFaults => n = ReadSize(c)
  BY <1>2, <1>3 DEF ReadResult, TypeOK
<1>7. /\ request \in Handles /\ Out(request) /\ lent[request].to = "main"
      /\ ~closed /\ cache_valid[c] /\ file \in Files
      /\ lent[request].block = <<file, cache_start_sector[c] + lent[request].slot>>
      /\ lent[request] \in Loan
  BY <1>1 DEF PendingInv, TypeOK
<1>8. /\ lent' \in [Handles -> Loan \cup {NoLoan}]
      /\ \A h \in Handles : /\ lent'[h] # NoLoan <=> lent[h] # NoLoan
                            /\ lent'[h] # NoLoan =>
                                 /\ lent'[h].chunk = lent[h].chunk
                                 /\ lent'[h].slot = lent[h].slot
                                 /\ lent'[h].block = lent[h].block
                                 /\ h # request => lent'[h].to = lent[h].to
                                 /\ lent'[h].to # "main"
  <2>1. lent'[request] = [lent[request] EXCEPT !.to = to]
    BY <1>4, <1>7 DEF TypeOK
  <2>2. /\ lent'[request] \in Loan /\ lent'[request].to = to
        /\ lent'[request].chunk = lent[request].chunk
        /\ lent'[request].slot = lent[request].slot
        /\ lent'[request].block = lent[request].block
    BY <1>7, <2>1 DEF Loan
  <2>3. \A h \in Handles : h # request => lent'[h] = lent[h]
    BY <1>4 DEF TypeOK
  <2>4. lent'[request] # NoLoan
    BY <2>2, LoanAssumption
  <2>5. lent' \in [Handles -> Loan \cup {NoLoan}]
    BY <1>4, <2>2, <2>3 DEF TypeOK
  <2>6. \A h \in Handles : lent[h] # NoLoan /\ h # request => lent[h].to # "main"
    BY DEF PendingInv
  <2> QED BY <1>7, <2>2, <2>3, <2>4, <2>5, <2>6
<1>9. \A d \in Chunks : \A k \in Slots :
        cache_buffer'[d][k] = IF d = c /\ k \in first..(first + n - 1)
                              THEN <<file, cache_start_sector[c] + k>>
                              ELSE cache_buffer[d][k]
  BY <1>2, <1>3 DEF TypeOK
<1>9a. /\ n \in Int /\ first \in Int
      /\ \A d \in Chunks : cache_read_count'[d] = IF d = c THEN first + n
                                                   ELSE cache_read_count[d]
  BY <1>2, <1>3, <1>6 DEF TypeOK
<1>10. cache_buffer' \in [Chunks -> [Slots -> Block \cup {Junk}]]
  <2>0. /\ cache_start_sector[c] \in 0..MaxSector /\ cache_block_count[c] \in 0..Cap
        /\ cache_start_sector[c] + cache_block_count[c] <= MaxSector + 1
    BY <1>2 DEF SizesInv, TypeOK, Sectors
  <2>1. \A k \in Slots : k \in first..(first + n - 1) =>
           <<file, cache_start_sector[c] + k>> \in Block
    <3> SUFFICES ASSUME NEW k \in Slots, k \in first..(first + n - 1)
                 PROVE  cache_start_sector[c] + k \in 0..MaxSector
      BY <1>7 DEF Block, Sectors
    <3> HIDE DEF IInv
    <3> QED BY <1>2, <1>6, <2>0 DEF Slots
  <2>2. [k \in Slots |-> IF k \in first..(first + n - 1)
                         THEN <<file, cache_start_sector[c] + k>>
                         ELSE cache_buffer[c][k]] \in [Slots -> Block \cup {Junk}]
    BY <1>2, <2>1 DEF TypeOK
  <2> QED BY <1>3, <2>2 DEF TypeOK
<1>11. TypeOK'
  <2>1. cache_read_count' \in [Chunks -> -1..Cap]
    BY <1>2, <1>3, <1>6 DEF TypeOK
  <2>2. request' \in Handles \cup {NoLoan} /\ read_ahead_size' \in AheadMin..AheadMax
    BY <1>2, <1>5
  <2>3. pc' \in [Threads -> {"idle", "fill", "check", "sweep", "scan", "destroy"}]
    BY <1>5 DEF TypeOK
  <2> QED BY <1>5, <1>8, <1>10, <2>1, <2>2, <2>3 DEF TypeOK
<1>12. UsageIsLoans'
  <2>1. \A d \in Chunks : LentFrom(d)' = LentFrom(d)
    BY <1>8 DEF LentFrom
  <2> QED BY <1>5, <2>1 DEF UsageIsLoans
<1>13. SizesInv'
  BY <1>2, <1>3, <1>5, <1>6 DEF SizesInv, TypeOK
<1>14. ContentInv'
  <2> SUFFICES ASSUME NEW d \in Chunks, cache_valid'[d], ~closed', NEW k \in Slots,
                      k < cache_read_count'[d]
               PROVE  cache_buffer'[d][k] = <<file', cache_start_sector'[d] + k>>
    BY DEF ContentInv
  <2>1. CASE d = c /\ k \in first..(first + n - 1)
    BY <1>5, <1>9, <2>1
  <2>2. CASE d = c /\ k \notin first..(first + n - 1)
    <3>1. k < first
      BY <1>2, <1>9a, <2>2 DEF Slots
    <3>2. cache_buffer[c][k] = <<file, cache_start_sector[c] + k>>
      BY <1>2, <1>7, <3>1 DEF ContentInv
    <3> QED BY <1>2, <1>5, <1>9, <2>2, <3>2
  <2>3. CASE d # c
    BY <1>3, <1>5, <1>9, <2>3 DEF ContentInv, TypeOK
  <2> QED BY <2>1, <2>2, <2>3
<1>15. PendingInv'
  BY <1>5, <1>8, ThreadsAssumption DEF PendingInv, TypeOK
<1>16. LoanInv'
  <2> SUFFICES ASSUME NEW g \in Handles, lent'[g] # NoLoan
               PROVE /\ lent'[g].slot < cache_block_count'[lent'[g].chunk]
                     /\ cache_malloc_size'[lent'[g].chunk] > 0
                     /\ ~ReadFaults =>
                          /\ lent'[g].slot < cache_read_count'[lent'[g].chunk]
                          /\ cache_buffer'[lent'[g].chunk][lent'[g].slot] = lent'[g].block
    BY DEF LoanInv
  <2>1. /\ lent[g] # NoLoan /\ lent'[g].chunk = lent[g].chunk /\ lent'[g].slot = lent[g].slot
        /\ lent'[g].block = lent[g].block /\ (g # request => lent[g].to # "main")
        /\ lent[g].chunk \in Chunks /\ lent[g].slot \in Slots
    BY <1>8 DEF PendingInv, TypeOK, Loan
  <2>2. /\ lent'[g].slot < cache_block_count'[lent'[g].chunk]
        /\ cache_malloc_size'[lent'[g].chunk] > 0
    BY <1>5, <2>1 DEF LoanInv
  <2> SUFFICES ASSUME ~ReadFaults
               PROVE  /\ lent[g].slot < cache_read_count'[lent[g].chunk]
                      /\ cache_buffer'[lent[g].chunk][lent[g].slot] = lent[g].block
    BY <2>1, <2>2
  <2>3. CASE g = request
    <3>1. lent[g].slot < cache_read_count'[c]
      BY <1>2, <1>3, <1>6, <2>3 DEF TypeOK
    <3>2. CASE lent[g].slot \in first..(first + n - 1)
      BY <1>2, <1>7, <1>9, <2>1, <2>3, <3>1, <3>2
    <3>3. CASE lent[g].slot \notin first..(first + n - 1)
      <4>1. lent[g].slot < first
        BY <1>2, <1>6, <1>7, <2>1, <2>3, <3>3 DEF Slots
      <4>2. cache_buffer[c][lent[g].slot] = <<file, cache_start_sector[c] + lent[g].slot>>
        BY <1>2, <1>7, <2>1, <4>1 DEF ContentInv
      <4> QED BY <1>2, <1>7, <1>9, <2>1, <2>3, <3>1, <3>3, <4>2
    <3> QED BY <3>2, <3>3
  <2>4. CASE g # request
    <3>1. /\ lent[g].slot < cache_read_count[lent[g].chunk]
          /\ cache_buffer[lent[g].chunk][lent[g].slot] = lent[g].block
      BY <2>1, <2>4 DEF LoanInv
    <3>2. lent[g].slot < cache_read_count'[lent[g].chunk]
      <4>1. n >= 0
        BY <1>2, <1>6
      <4>2. CASE lent[g].chunk = c
        <5> DEFINE s == lent[g].slot
        <5>1. s \in Int /\ s < first /\ cache_read_count'[c] = first + n
          BY <1>2, <1>9a, <2>1, <3>1, <4>2 DEF Slots
        <5>2. s < first + n
          BY <1>9a, <4>1, <5>1
        <5> QED BY <4>2, <5>1, <5>2
      <4>3. CASE lent[g].chunk # c
        BY <1>9a, <2>1, <3>1, <4>3
      <4> QED BY <4>2, <4>3
    <3>3. ~(lent[g].chunk = c /\ lent[g].slot \in first..(first + n - 1))
      BY <1>2, <1>6, <3>1
    <3> QED BY <1>9, <2>1, <3>1, <3>2, <3>3
  <2> QED BY <2>3, <2>4
<1>17. EndInv'
  BY <1>5, ThreadsAssumption DEF EndInv, TypeOK
<1> QED BY <1>11, <1>12, <1>13, <1>14, <1>15, <1>16, <1>17

LEMMA FreeBlockIInv ==
  ASSUME IInv, NEW t \in Threads, NEW h \in Handles, FreeBlock(t, h)
  PROVE  IInv'
<1> USE DEF IInv, endVars, discVars, fieldVars, aheadVars
<1>1. /\ lent[h] # NoLoan /\ lent[h].to = "app" /\ pc[t] = "idle"
      /\ lent' = [lent EXCEPT ![h] = NoLoan]
      /\ pc' = [pc EXCEPT ![t] = "check"]
      /\ UNCHANGED <<fieldVars, aheadVars, discVars, endVars, request>>
  BY DEF FreeBlock
<1>2. usage_count' = [usage_count EXCEPT ![lent[h].chunk] = @ - 1]
  <2>1. lent[h].slot < cache_malloc_size[lent[h].chunk]
    BY <1>1 DEF LoanInv, SizesInv, TypeOK, Loan, Slots
  <2> QED BY <2>1 DEF FreeBlock
<1>3. UsageIsLoans'
  BY <1>1, <1>2, ReturnCounts
<1>4. TypeOK'
  <2>1. lent[h].chunk \in Chunks
    BY <1>1 DEF TypeOK, Loan
  <2>2. usage_count' \in [Chunks -> Int]
    BY <1>2, <2>1 DEF TypeOK
  <2>3. lent' \in [Handles -> Loan \cup {NoLoan}]
    BY <1>1 DEF TypeOK
  <2>4. pc' \in [Threads -> {"idle", "fill", "check", "sweep", "scan", "destroy"}]
    BY <1>1 DEF TypeOK
  <2> QED BY <1>1, <2>2, <2>3, <2>4 DEF TypeOK
<1>5. SizesInv' /\ ContentInv'
  BY <1>1 DEF SizesInv, ContentInv
<1>6. \A g \in Handles : lent'[g] # NoLoan => g # h /\ lent'[g] = lent[g]
  BY <1>1 DEF TypeOK
<1>7. LoanInv'
  BY <1>1, <1>6 DEF LoanInv
<1>8. PendingInv'
  <2>1. pc'[Main] = "fill" => pc[Main] = "fill" /\ request # h
    BY <1>1, ThreadsAssumption DEF PendingInv, TypeOK
  <2>2. pc[Main] = "fill" => pc'[Main] = "fill"
    BY <1>1, ThreadsAssumption DEF TypeOK
  <2>3. request # h => lent'[request] = lent[request] \/ request \notin Handles
    BY <1>1 DEF TypeOK
  <2> QED BY <1>1, <1>6, <2>1, <2>2, <2>3 DEF PendingInv
<1>9. EndInv'
  BY <1>1 DEF EndInv, TypeOK
<1> QED BY <1>3, <1>4, <1>5, <1>7, <1>8, <1>9

LEMMA CloseIInv == ASSUME IInv, Close PROVE IInv'
<1> USE ThreadsAssumption DEF IInv, Close, MainReady, fieldVars, aheadVars
<1>1. TypeOK'
  BY DEF TypeOK
<1>2. UsageIsLoans'
  BY DEF UsageIsLoans, LentFrom
<1>3. SizesInv' /\ ContentInv' /\ LoanInv'
  BY DEF SizesInv, ContentInv, LoanInv
<1>4. PendingInv' /\ EndInv'
  BY DEF PendingInv, EndInv, TypeOK
<1> QED BY <1>1, <1>2, <1>3, <1>4

LEMMA SweepIInv == ASSUME IInv, NEW t \in Threads, Sweep(t) PROVE IInv'
<1> USE DEF IInv, aheadVars, discVars
<1>1. /\ pc[t] = "sweep" /\ freeing' = TRUE
      /\ cache_malloc_size' = [c \in Chunks |-> IF usage_count[c] = 0 THEN 0
                                                ELSE cache_malloc_size[c]]
      /\ cache_buffer' = [c \in Chunks |-> IF usage_count[c] = 0 THEN [k \in Slots |-> Junk]
                                           ELSE cache_buffer[c]]
      /\ pc' = [pc EXCEPT ![t] = "scan"]
      /\ UNCHANGED <<cache_start_sector, cache_block_count, cache_read_count, cache_valid,
                     usage_count, aheadVars, discVars, allocated, closed, lent, request>>
  BY DEF Sweep
<1>2. closed
  BY <1>1 DEF EndInv
<1>3. TypeOK'
  <2>1. cache_buffer' \in [Chunks -> [Slots -> Block \cup {Junk}]]
    BY <1>1 DEF TypeOK
  <2>2. cache_malloc_size' \in [Chunks -> 0..Cap]
    BY <1>1, SizesAssumption DEF TypeOK
  <2>3. pc' \in [Threads -> {"idle", "fill", "check", "sweep", "scan", "destroy"}]
    BY <1>1 DEF TypeOK
  <2> QED BY <1>1, <2>1, <2>2, <2>3 DEF TypeOK
<1>4. UsageIsLoans'
  BY <1>1 DEF UsageIsLoans, LentFrom
<1>5. SizesInv' /\ ContentInv'
  BY <1>1, <1>2 DEF SizesInv, ContentInv
<1>6. PendingInv'
  BY <1>1, <1>2, ThreadsAssumption DEF PendingInv, TypeOK
<1>7. LoanInv'
  <2>1. \A h \in Handles : Out(h) => At(h) \in Chunks /\ usage_count[At(h)] # 0
    BY IdleHasNoLoan DEF TypeOK, Loan
  <2> QED BY <1>1, <2>1 DEF LoanInv
<1>8. EndInv'
  BY <1>1, <1>2 DEF EndInv, TypeOK
<1> QED BY <1>3, <1>4, <1>5, <1>6, <1>7, <1>8

LEMMA FreeStepsIInv == ASSUME IInv, NEW t \in Threads, FreeSteps(t) PROVE IInv'
<1>1. CASE CheckFreeing(t)
  <2> USE DEF CheckFreeing, endVars
  <2>1. TypeOK'
    BY <1>1 DEF IInv, TypeOK, fieldVars, aheadVars, discVars
  <2>2. EndInv'
    BY <1>1 DEF IInv, EndInv, TypeOK, fieldVars
  <2>3. pc'[Main] = pc[Main] \/ (pc'[Main] # "fill" /\ pc[Main] # "fill")
    BY <1>1, ThreadsAssumption DEF IInv, TypeOK
  <2> QED BY <1>1, <2>1, <2>2, <2>3, QuietIInv DEF discVars
<1>2. CASE Sweep(t)
  BY <1>2, SweepIInv
<1>3. CASE Scan(t)
  <2> USE DEF Scan, endVars
  <2>1. TypeOK'
    BY <1>3 DEF IInv, TypeOK, fieldVars, aheadVars, discVars
  <2>2. EndInv'
    BY <1>3 DEF IInv, EndInv, TypeOK, fieldVars
  <2>3. pc'[Main] = pc[Main] \/ (pc'[Main] # "fill" /\ pc[Main] # "fill")
    BY <1>3, ThreadsAssumption DEF IInv, TypeOK
  <2> QED BY <1>3, <2>1, <2>2, <2>3, QuietIInv DEF discVars
<1>4. CASE Destroy(t)
  <2> USE DEF Destroy
  <2>1. TypeOK'
    BY <1>4 DEF IInv, TypeOK, fieldVars, aheadVars, discVars
  <2>2. EndInv'
    BY <1>4 DEF IInv, EndInv, TypeOK, fieldVars
  <2>3. pc'[Main] = pc[Main] \/ (pc'[Main] # "fill" /\ pc[Main] # "fill")
    BY <1>4, ThreadsAssumption DEF IInv, TypeOK
  <2> QED BY <1>4, <2>1, <2>2, <2>3, QuietIInv DEF discVars
<1> QED BY <1>1, <1>2, <1>3, <1>4 DEF FreeSteps

LEMMA StutterIInv == ASSUME IInv, UNCHANGED vars PROVE IInv'
<1> USE DEF vars, fieldVars, aheadVars, discVars, endVars
<1>1. TypeOK' /\ EndInv'
  BY DEF IInv, TypeOK, EndInv
<1> QED BY <1>1, QuietIInv

LEMMA NextIInv == IInv /\ [Next]_vars => IInv'
<1> SUFFICES ASSUME IInv, [Next]_vars PROVE IInv'
  OBVIOUS
<1>1. ASSUME NEW flag \in BOOLEAN, SetReadahead(flag) PROVE IInv'
  BY <1>1, SetReadaheadIInv
<1>2. ASSUME NEW f \in Files \cup {NoFile}, ChangeFile(f) PROVE IInv'
  BY <1>2, ChangeFileIInv
<1>3. ASSUME NEW sector \in Sectors, NEW count \in 1..Cap,
             sector + count - 1 \in Sectors, PreCache(sector, count)
      PROVE  IInv'
  BY <1>3, PreCacheIInv
<1>4. ASSUME NEW h \in Handles, NEW sector \in Sectors, Lookup(h, sector) PROVE IInv'
  BY <1>4, LookupIInv
<1>5. ASSUME NEW t \in Threads, NEW h \in Handles, FreeBlock(t, h) PROVE IInv'
  BY <1>5, FreeBlockIInv
<1>6. ASSUME NEW t \in Threads, FreeSteps(t) PROVE IInv'
  BY <1>6, FreeStepsIInv
<1> QED BY <1>1, <1>2, <1>3, <1>4, <1>5, <1>6, FillIInv, CloseIInv, StutterIInv DEF Next

-----------------------------------------------------------------------------
(* The theorems *)

(* The strengthened invariant holds in every reachable state. *)
THEOREM Invariance == Spec => []IInv
  BY InitIInv, NextIInv, PTL DEF Spec

(* Every variable keeps its type. *)
THEOREM TypeCorrect == Spec => []TypeOK
<1>1. IInv => TypeOK
  BY DEF IInv
<1> QED BY <1>1, Invariance, PTL

(* usage_count is the number of buffers issued from the chunk, for any     *)
(* number of threads, faults and undecodable NAV packets included.         *)
THEOREM UsageCounted == Spec => []UsageIsLoans
<1>1. IInv => UsageIsLoans
  BY DEF IInv
<1> QED BY <1>1, Invariance, PTL

(* What a valid chunk claims to hold was read from the open file, and no   *)
(* read runs past the chunk's memory.                                      *)
THEOREM ChunksCoherent == Spec => []Coherent
<1>1. IInv => Coherent
  BY DEF IInv, Coherent, SizesInv, ContentInv
<1> QED BY <1>1, Invariance, PTL

(* The cache is not freed while a buffer is out, whoever returns it. *)
THEOREM FreedLast == Spec => []FreedOnlyWhenReturned
<1>1. IInv => FreedOnlyWhenReturned
  BY DEF IInv, FreedOnlyWhenReturned, LoanInv, EndInv, TypeOK, Loan
<1> QED BY <1>1, Invariance, PTL

(* When disc reads succeed, a block the application holds keeps the disc   *)
(* content it asked for until it is given back.                            *)
THEOREM HeldBlocksIntact == ~ReadFaults => (Spec => []HeldIntact)
<1> SUFFICES ASSUME ~ReadFaults PROVE Spec => []HeldIntact
  OBVIOUS
<1>1. IInv => HeldIntact
  BY DEF IInv, HeldIntact, Held, LoanInv, SizesInv, TypeOK, Loan, Slots
<1> QED BY <1>1, Invariance, PTL

(* No step reallocates, relabels or frees a chunk some buffer of which is  *)
(* out, disc faults included.                                              *)
THEOREM PinnedChunksStay == Spec => PinnedStays
<1> DEFINE Stays(c) == /\ cache_malloc_size'[c] = cache_malloc_size[c]
                       /\ cache_start_sector'[c] = cache_start_sector[c]
                       /\ cache_block_count'[c] = cache_block_count[c]
<1>1. IInv /\ [Next]_vars => [\A c \in Chunks : usage_count[c] > 0 =>
                                /\ cache_malloc_size'[c] = cache_malloc_size[c]
                                /\ cache_start_sector'[c] = cache_start_sector[c]
                                /\ cache_block_count'[c] = cache_block_count[c]]_vars
  <2> SUFFICES ASSUME IInv, Next, NEW c \in Chunks, usage_count[c] > 0
               PROVE  Stays(c)
    OBVIOUS
  <2> USE DEF fieldVars
  <2>1. ASSUME NEW sector \in Sectors, NEW count \in 1..Cap, PreCache(sector, count)
        PROVE  Stays(c)
    <3>1. PICK p \in Placement(count) :
            /\ cache_malloc_size'  = [cache_malloc_size  EXCEPT ![p[1]] = p[2]]
            /\ cache_start_sector' = [cache_start_sector EXCEPT ![p[1]] = sector]
            /\ cache_block_count'  = [cache_block_count  EXCEPT ![p[1]] = count]
      BY <2>1 DEF PreCache
    <3>2. \A h \in Handles : Out(h) => At(h) # p[1]
      BY PlacementFacts
    <3>3. LentFrom(p[1]) = {}
      BY <3>2 DEF LentFrom
    <3>4. p[1] # c
      BY <3>3, FS_EmptySet DEF IInv, UsageIsLoans
    <3> QED BY <3>1, <3>4 DEF IInv, TypeOK
  <2>2. ASSUME NEW t \in Threads, Sweep(t) PROVE Stays(c)
    BY <2>2 DEF Sweep, IInv, TypeOK
  <2>3. ASSUME NEW t \in Threads, FreeSteps(t) PROVE Stays(c)
    BY <2>2, <2>3 DEF FreeSteps, CheckFreeing, Scan, Destroy
  <2>4. CASE Fill \/ Close
    BY <2>4 DEF Fill, Close
  <2>5. ASSUME NEW flag \in BOOLEAN, SetReadahead(flag) PROVE Stays(c)
    BY <2>5 DEF SetReadahead
  <2>6. ASSUME NEW f \in Files \cup {NoFile}, ChangeFile(f) PROVE Stays(c)
    BY <2>6 DEF ChangeFile
  <2>7. ASSUME NEW h \in Handles, NEW sector \in Sectors, Lookup(h, sector) PROVE Stays(c)
    BY <2>7 DEF Lookup
  <2>8. ASSUME NEW t \in Threads, NEW h \in Handles, FreeBlock(t, h) PROVE Stays(c)
    BY <2>8 DEF FreeBlock
  <2> QED BY <2>1, <2>3, <2>4, <2>5, <2>6, <2>7, <2>8 DEF Next
<1> QED BY <1>1, Invariance, PTL DEF PinnedStays, Spec
-----------------------------------------------------------------------------
(* The lending contract *)

(* Without read faults the memory behind a handle holds the block it was   *)
(* lent for, so the abstract loans are those of the handles.               *)
Lent == [h \in Handles |-> IF Held(h) THEN lent[h].block ELSE NoLoan]

LEMMA ContentIsLent == ~ReadFaults /\ IInv => Content = Lent
<1> SUFFICES ASSUME ~ReadFaults, IInv PROVE Content = Lent
  OBVIOUS
<1>1. \A h \in Handles : Held(h) => cache_buffer[lent[h].chunk][lent[h].slot] = lent[h].block
  BY DEF IInv, LoanInv, Held
<1> QED BY <1>1 DEF Lent, Content

LEMMA ContentStaysLent == ~ReadFaults /\ IInv' => Content' = Lent'
<1> SUFFICES ASSUME ~ReadFaults, IInv' PROVE Content' = Lent'
  OBVIOUS
<1>1. \A h \in Handles : Held(h)' =>
        cache_buffer'[lent'[h].chunk][lent'[h].slot] = lent'[h].block
  BY DEF IInv, LoanInv, Held
<1> QED BY <1>1 DEF Lent, Content

(* A block is no NULL, so a handle is free exactly when nothing is held.    *)
LEMMA LentIsBlock ==
  ASSUME IInv, NEW h \in Handles, Held(h)
  PROVE  Lent[h] = lent[h].block /\ Lent[h] \in Block /\ Lent[h] # NoLoan
<1>1. lent[h] \in Loan
  BY DEF Held, IInv, TypeOK
<1> QED BY <1>1, LoanAssumption DEF Lent, Loan

(* Steps that hand out nothing and take nothing back leave the contract.    *)
LEMMA LeavesLoans ==
  ASSUME ~ReadFaults, IInv, IInv', UNCHANGED <<lent, closed, allocated>>
  PROVE  UNCHANGED Loans!loanVars
<1>1. Lent' = Lent
  BY DEF Lent, Held
<1> QED BY <1>1, ContentIsLent, ContentStaysLent DEF Loans!loanVars

(* Fill lends the block to the application, or to nobody if it is lost.    *)
LEMMA FillLends ==
  ASSUME ~ReadFaults, IInv, IInv', Fill
  PROVE  [Loans!Next]_Loans!loanVars
<1>1. PICK to \in {"app", "lost"} : lent' = [lent EXCEPT ![request].to = to]
  BY DEF Fill
<1>2. /\ request \in Handles /\ lent[request] # NoLoan /\ lent[request].to = "main" /\ ~closed
      /\ UNCHANGED <<closed, allocated>>
  BY DEF Fill, IInv, PendingInv, endVars
<1>3. lent \in [Handles -> Loan \cup {NoLoan}] /\ lent[request] \in Loan
  BY <1>2 DEF IInv, TypeOK
<1>4. /\ \A g \in Handles : g # request => lent'[g] = lent[g]
      /\ lent'[request] = [lent[request] EXCEPT !.to = to]
  BY <1>1, <1>2, <1>3
<1>5. lent'[request].to = to /\ lent'[request].block = lent[request].block /\ lent'[request] # NoLoan
  BY <1>3, <1>4, LoanAssumption DEF Loan
<1>6. ~Held(request)
  BY <1>2 DEF Held
<1>7. CASE to = "app"
  <2> DEFINE b == lent[request].block
  <2>1. Lent' = [Lent EXCEPT ![request] = b]
    BY <1>2, <1>4, <1>5, <1>7 DEF Lent, Held
  <2>2. Lent[request] = NoLoan /\ b \in Block
    BY <1>2, <1>3, <1>6 DEF Lent, Loan
  <2>3. Loans!Lend(request, b)
    BY <1>2, <2>1, <2>2, ContentIsLent, ContentStaysLent DEF Loans!Lend
  <2> QED BY <1>2, <2>2, <2>3 DEF Loans!Next
<1>8. CASE to = "lost"
  <2>1. Lent' = Lent
    BY <1>2, <1>4, <1>5, <1>6, <1>8 DEF Lent, Held
  <2> QED BY <1>2, <2>1, ContentIsLent, ContentStaysLent DEF Loans!loanVars
<1> QED BY <1>1, <1>7, <1>8

(* Lookup hands a pointer to Main only. *)
LEMMA LookupLeaves ==
  ASSUME ~ReadFaults, IInv, IInv', NEW h \in Handles, NEW sector \in Sectors, Lookup(h, sector)
  PROVE  UNCHANGED Loans!loanVars
<1>1. PICK c \in HitChunk(sector) :
        lent' = [lent EXCEPT ![h] = [chunk |-> c, slot |-> sector - cache_start_sector[c],
                                     block |-> <<file, sector>>, to |-> "main"]]
  BY DEF Lookup
<1>2. lent[h] = NoLoan /\ UNCHANGED <<closed, allocated>>
  BY DEF Lookup, endVars
<1>3. lent'[h].to = "main" /\ \A g \in Handles : g # h => lent'[g] = lent[g]
  BY <1>1 DEF IInv, TypeOK
<1>4. Lent' = Lent
  BY <1>2, <1>3 DEF Lent, Held
<1> QED BY <1>2, <1>4, ContentIsLent, ContentStaysLent DEF Loans!loanVars

LEMMA FreeBlockGivesBack ==
  ASSUME ~ReadFaults, IInv, IInv', NEW t \in Threads, NEW h \in Handles, FreeBlock(t, h)
  PROVE  Loans!Next
<1>1. Held(h) /\ lent' = [lent EXCEPT ![h] = NoLoan] /\ UNCHANGED <<closed, allocated>>
  BY DEF FreeBlock, Held, endVars
<1>2. lent'[h] = NoLoan /\ \A g \in Handles : g # h => lent'[g] = lent[g]
  BY <1>1 DEF IInv, TypeOK
<1>3. Lent' = [Lent EXCEPT ![h] = NoLoan]
  BY <1>2 DEF Lent, Held
<1>4. Lent[h] # NoLoan
  BY <1>1, LentIsBlock
<1>5. Loans!GiveBack(h)
  BY <1>1, <1>3, <1>4, ContentIsLent, ContentStaysLent DEF Loans!GiveBack
<1> QED BY <1>5 DEF Loans!Next

(* Whoever frees the cache has seen that nothing is out. *)
LEMMA DestroyReleases ==
  ASSUME ~ReadFaults, IInv, IInv', NEW t \in Threads, Destroy(t)
  PROVE  [Loans!Next]_Loans!loanVars
<1>1. pc[t] = "destroy" /\ allocated' = FALSE /\ UNCHANGED <<lent, closed>>
  BY DEF Destroy
<1>2. closed /\ \A c \in Chunks : Size(c) = 0
  BY <1>1 DEF IInv, EndInv
<1>3. \A h \in Handles : ~Held(h)
  BY <1>2 DEF IInv, LoanInv, TypeOK, Loan, Held
<1>4. Lent' = Lent /\ \A h \in Handles : Lent[h] = NoLoan
  BY <1>1, <1>3 DEF Lent, Held
<1>5. Content' = Content /\ \A h \in Handles : Content[h] = NoLoan
  BY <1>4, ContentIsLent, ContentStaysLent
<1>6. CASE allocated
  <2>1. Loans!Release
    BY <1>1, <1>2, <1>5, <1>6 DEF Loans!Release, Loans!NoneOut
  <2> QED BY <2>1 DEF Loans!Next
<1>7. CASE ~allocated
  <2>1. allocated' = allocated
    BY <1>1, <1>7 DEF IInv, TypeOK
  <2> QED BY <1>1, <1>5, <2>1 DEF Loans!loanVars
<1> QED BY <1>6, <1>7

(* Without read faults the cache, for any number of threads, chunks and    *)
(* handles, implements the lending contract of BlockLoans: each step lends *)
(* the block of the disc that was asked for, takes one back, closes,       *)
(* releases the memory with nothing out, or changes nothing an application *)
(* could see; no content changes under a pointer.  (That the memory is     *)
(* released in the end is left to the runs.)                               *)
THEOREM LendsSafely == ~ReadFaults => (Spec => Loans!Safe)
<1> SUFFICES ASSUME ~ReadFaults PROVE Spec => Loans!Safe
  OBVIOUS
<1>1. Init => Loans!Init
  <2> SUFFICES ASSUME Init PROVE Loans!Init
    OBVIOUS
  <2>1. Content = [h \in Handles |-> NoLoan]
    BY DEF Init, Content, Held
  <2> QED BY <2>1 DEF Init, Loans!Init
<1>2. IInv /\ IInv' /\ [Next]_vars => [Loans!Next]_Loans!loanVars
  <2> SUFFICES ASSUME IInv, IInv', [Next]_vars PROVE [Loans!Next]_Loans!loanVars
    OBVIOUS
  <2>1. ASSUME NEW flag \in BOOLEAN, SetReadahead(flag) PROVE UNCHANGED Loans!loanVars
    BY <2>1, LeavesLoans DEF SetReadahead, endVars
  <2>2. ASSUME NEW f \in Files \cup {NoFile}, ChangeFile(f) PROVE UNCHANGED Loans!loanVars
    BY <2>2, LeavesLoans DEF ChangeFile, endVars
  <2>3. ASSUME NEW sector \in Sectors, NEW count \in 1..Cap, PreCache(sector, count)
        PROVE  UNCHANGED Loans!loanVars
    BY <2>3, LeavesLoans DEF PreCache, endVars
  <2>4. CASE Close
    <3>1. ~closed /\ closed' = TRUE /\ UNCHANGED <<lent, allocated>>
      BY <2>4 DEF Close, MainReady
    <3>2. Lent' = Lent
      BY <3>1 DEF Lent, Held
    <3>3. Loans!Close
      BY <3>1, <3>2, ContentIsLent, ContentStaysLent DEF Loans!Close
    <3> QED BY <3>3 DEF Loans!Next
  <2>5. ASSUME NEW t \in Threads, CheckFreeing(t) \/ Sweep(t) \/ Scan(t)
        PROVE  UNCHANGED Loans!loanVars
    BY <2>5, LeavesLoans DEF CheckFreeing, Sweep, Scan, endVars
  <2>6. CASE UNCHANGED vars
    BY <2>6, LeavesLoans DEF vars, endVars
  <2> QED BY <2>1, <2>2, <2>3, <2>4, <2>5, <2>6, LookupLeaves, FillLends, FreeBlockGivesBack,
             DestroyReleases DEF Next, FreeSteps
<1> QED BY <1>1, <1>2, Invariance, PTL DEF Spec, Loans!Safe

-----------------------------------------------------------------------------
(* The end of the cache *)

(* dvdnav_close is quiet when no buffer is out and no other thread is in   *)
(* the middle of giving one back.                                          *)
QuietClose == [][Close => /\ \A h \in Handles : lent[h] = NoLoan
                          /\ \A t \in Threads \ {Main} : pc[t] = "idle"]_vars

(* After it only Main goes through the end of the cache, and once.         *)
QuietEnd ==
  /\ closed => /\ \A h \in Handles : lent[h] = NoLoan
               /\ \A t \in Threads \ {Main} : pc[t] = "idle"
  /\ ~allocated => pc[Main] = "idle"

(* When the application gives back everything before it closes, nothing    *)
(* tests, locks, scans or frees a freed cache, whatever threads did before;*)
(* otherwise two threads may, as the run with two closers shows.           *)
THEOREM QuietCloseIsSafe == Spec /\ QuietClose => []NoUseAfterFree
<1> DEFINE Quiet == Close => /\ \A h \in Handles : lent[h] = NoLoan
                             /\ \A t \in Threads \ {Main} : pc[t] = "idle"
<1>1. Init => QuietEnd
  BY DEF Init, QuietEnd
<1>2. IInv /\ QuietEnd /\ [Next]_vars /\ [Quiet]_vars => QuietEnd'
  <2> SUFFICES ASSUME IInv, QuietEnd, [Next]_vars, [Quiet]_vars PROVE QuietEnd'
    OBVIOUS
  <2> USE DEF endVars
  <2>1. CASE UNCHANGED vars
    BY <2>1 DEF vars, QuietEnd
  <2>2. CASE (\E flag \in BOOLEAN : SetReadahead(flag)) \/ (\E f \in Files \cup {NoFile} : ChangeFile(f))
             \/ (\E sector \in Sectors : \E count \in 1..Cap : PreCache(sector, count))
    BY <2>2 DEF SetReadahead, ChangeFile, PreCache, QuietEnd
  <2>3. ASSUME NEW h \in Handles, NEW sector \in Sectors, Lookup(h, sector) PROVE QuietEnd'
    <3>1. ~closed /\ ~closed' /\ allocated' = allocated
      BY <2>3 DEF Lookup, MainReady
    <3>2. allocated
      BY <3>1 DEF IInv, EndInv
    <3> QED BY <3>1, <3>2 DEF QuietEnd
  <2>4. CASE Fill
    <3>1. ~closed /\ ~closed' /\ allocated' = allocated
      BY <2>4 DEF Fill, IInv, PendingInv
    <3>2. allocated
      BY <3>1 DEF IInv, EndInv
    <3> QED BY <3>1, <3>2 DEF QuietEnd
  <2>5. ASSUME NEW t \in Threads, NEW h \in Handles, FreeBlock(t, h) PROVE QuietEnd'
    <3>1. ~closed /\ ~closed' /\ allocated' = allocated
      BY <2>5 DEF FreeBlock, QuietEnd
    <3>2. allocated
      BY <3>1 DEF IInv, EndInv
    <3> QED BY <3>1, <3>2 DEF QuietEnd
  <2>6. CASE Close
    <3>1. closed' /\ ~closed /\ pc' = [pc EXCEPT ![Main] = "sweep"] /\ UNCHANGED <<lent, allocated>>
      BY <2>6 DEF Close, MainReady
    <3>2. allocated
      BY <3>1 DEF IInv, EndInv
    <3>3. (\A h \in Handles : lent[h] = NoLoan) /\ \A t \in Threads \ {Main} : pc[t] = "idle"
      BY <2>6, <3>1 DEF vars
    <3>4. \A t \in Threads \ {Main} : pc'[t] = "idle"
      BY <3>1, <3>3 DEF IInv, TypeOK
    <3> QED BY <3>1, <3>2, <3>3, <3>4 DEF QuietEnd
  <2>7. ASSUME NEW t \in Threads, FreeSteps(t) PROVE QuietEnd'
    <3>1. /\ pc[t] \in {"check", "sweep", "scan", "destroy"} /\ UNCHANGED <<lent, closed>>
          /\ \A u \in Threads : u # t => pc'[u] = pc[u]
          /\ allocated' = allocated \/ pc'[t] = "idle"
      BY <2>7 DEF FreeSteps, CheckFreeing, Sweep, Scan, Destroy, IInv, TypeOK
    <3>2. CASE closed
      <4>1. t = Main
        BY <3>1, <3>2 DEF QuietEnd
      <4>2. allocated
        BY <3>1, <4>1 DEF QuietEnd
      <4> QED BY <3>1, <4>1, <4>2 DEF QuietEnd
    <3>3. CASE ~closed
      <4>1. allocated /\ pc[t] # "destroy"
        BY <3>3 DEF IInv, EndInv
      <4>2. allocated' = allocated
        BY <2>7, <4>1 DEF FreeSteps, CheckFreeing, Sweep, Scan, Destroy
      <4> QED BY <3>1, <3>3, <4>1, <4>2 DEF QuietEnd
    <3> QED BY <3>2, <3>3
  <2> QED BY <2>1, <2>2, <2>3, <2>4, <2>5, <2>6, <2>7 DEF Next
<1>3. IInv /\ QuietEnd => NoUseAfterFree
  <2>1. IInv /\ ~allocated => closed
    BY DEF IInv, EndInv
  <2> QED BY <2>1 DEF QuietEnd, NoUseAfterFree
<1> QED BY <1>1, <1>2, <1>3, Invariance, PTL DEF Spec, QuietClose

(* A chunk that counts loans has one, and is none of an idle cache.        *)
LEMMA CountedIsOut ==
  ASSUME IInv, NEW c \in Chunks, usage_count[c] # 0
  PROVE  \E h \in Handles : Out(h)
<1>1. usage_count[c] = Cardinality(LentFrom(c))
  BY DEF IInv, UsageIsLoans
<1>2. LentFrom(c) # {}
  BY <1>1, FS_EmptySet
<1> QED BY <1>2 DEF LentFrom

LEMMA HandoverHolds == IInv /\ IInv' /\ HandoverInv /\ [Next]_vars => HandoverInv'
<1> SUFFICES ASSUME IInv, IInv', HandoverInv, [Next]_vars PROVE HandoverInv'
  OBVIOUS
<1> USE ThreadsAssumption DEF endVars, fieldVars
<1>0. pc \in [Threads -> {"idle", "fill", "check", "sweep", "scan", "destroy"}]
  BY DEF IInv, TypeOK
<1>1. CASE UNCHANGED vars
  BY <1>1 DEF vars, HandoverInv, Working
<1>2. ASSUME ~closed, ~closed' PROVE HandoverInv'
  <2>1. ~freeing' /\ \A t \in Threads : pc'[t] \notin {"scan", "destroy"}
    BY <1>2 DEF IInv, EndInv
  <2> QED BY <1>2, <2>1 DEF HandoverInv
<1>3. ASSUME NEW flag \in BOOLEAN, SetReadahead(flag) PROVE HandoverInv'
  BY <1>2, <1>3 DEF SetReadahead, MainReady
<1>4. ASSUME NEW f \in Files \cup {NoFile}, ChangeFile(f) PROVE HandoverInv'
  BY <1>2, <1>4 DEF ChangeFile, MainReady
<1>5. ASSUME NEW sector \in Sectors, NEW count \in 1..Cap, PreCache(sector, count) PROVE HandoverInv'
  BY <1>2, <1>5 DEF PreCache, MainReady
<1>6. ASSUME NEW h \in Handles, NEW sector \in Sectors, Lookup(h, sector) PROVE HandoverInv'
  BY <1>2, <1>6 DEF Lookup, MainReady
<1>7. CASE Fill
  <2>1. ~closed /\ closed' = closed
    BY <1>7 DEF Fill, IInv, PendingInv
  <2> QED BY <1>2, <2>1
<1>8. CASE Close
  <2>1. ~closed /\ closed' /\ pc' = [pc EXCEPT ![Main] = "sweep"] /\ UNCHANGED <<freeing, allocated>>
    BY <1>8 DEF Close, MainReady
  <2>2. pc'[Main] = "sweep" /\ ~freeing' /\ \A t \in Threads : t # Main => pc'[t] = pc[t]
    BY <1>0, <2>1 DEF IInv, EndInv
  <2> QED BY <2>1, <2>2 DEF HandoverInv, Working
<1>9. ASSUME NEW t \in Threads, NEW h \in Handles, FreeBlock(t, h) PROVE HandoverInv'
  <2>1. pc[t] = "idle" /\ pc'[t] = "check" /\ (\A u \in Threads : u # t => pc'[u] = pc[u])
        /\ UNCHANGED <<freeing, closed, allocated>>
    BY <1>0, <1>9 DEF FreeBlock
  <2> QED BY <2>1 DEF HandoverInv, Working
<1>10. ASSUME NEW t \in Threads, CheckFreeing(t) PROVE HandoverInv'
  <2>1. /\ pc[t] = "check" /\ pc'[t] = (IF freeing THEN "sweep" ELSE "idle")
        /\ \A u \in Threads : u # t => pc'[u] = pc[u]
        /\ UNCHANGED <<cache_malloc_size, usage_count, lent, freeing, closed, allocated>>
    BY <1>0, <1>10 DEF CheckFreeing
  <2>2. CASE freeing
    BY <2>1, <2>2 DEF HandoverInv, Working
  <2>3. CASE ~freeing
    <3>1. t # Main \/ ~closed
      BY <2>1, <2>3 DEF HandoverInv
    <3>2. closed => pc'[Main] = "sweep"
      BY <2>1, <2>3, <3>1 DEF HandoverInv
    <3> QED BY <2>1, <2>3, <3>2 DEF HandoverInv, Working
  <2> QED BY <2>2, <2>3
<1>11. ASSUME NEW t \in Threads, Sweep(t) PROVE HandoverInv'
  <2>1. /\ pc'[t] = "scan" /\ (\A u \in Threads : u # t => pc'[u] = pc[u])
        /\ freeing' = TRUE /\ UNCHANGED <<usage_count, closed, allocated>>
        /\ cache_malloc_size' = [c \in Chunks |-> IF usage_count[c] = 0 THEN 0 ELSE cache_malloc_size[c]]
    BY <1>0, <1>11 DEF Sweep
  <2>2. \A c \in Chunks : ~(cache_malloc_size'[c] > 0 /\ usage_count'[c] = 0)
    BY <2>1
  <2> QED BY <2>1, <2>2 DEF HandoverInv, Working
<1>12. ASSUME NEW t \in Threads, Scan(t) PROVE HandoverInv'
  <2>1. /\ pc[t] = "scan" /\ (\A u \in Threads : u # t => pc'[u] = pc[u])
        /\ pc'[t] = (IF \A c \in Chunks : cache_malloc_size[c] = 0 THEN "destroy" ELSE "idle")
        /\ UNCHANGED <<cache_malloc_size, usage_count, lent, freeing, closed, allocated>>
    BY <1>0, <1>12 DEF Scan
  <2>2. freeing
    BY <2>1 DEF HandoverInv
  <2>3. \A c \in Chunks : Size(c) > 0 /\ usage_count[c] = 0 =>
          \E u \in Threads : pc'[u] \in {"check", "sweep"}
    BY <2>1, <2>2 DEF HandoverInv
  <2>4. (\E u \in Threads : Working(u)') \/ (\E h \in Handles : Out(h)')
    <3>1. CASE \A c \in Chunks : cache_malloc_size[c] = 0
      BY <2>1, <3>1 DEF Working
    <3>2. ASSUME NEW c \in Chunks, cache_malloc_size[c] # 0
          PROVE (\E u \in Threads : Working(u)') \/ (\E h \in Handles : Out(h)')
      <4>1. Size(c) > 0
        BY <3>2, SizesAssumption DEF IInv, TypeOK
      <4>2. CASE usage_count[c] = 0
        BY <2>3, <4>1, <4>2 DEF Working
      <4>3. CASE usage_count[c] # 0
        BY <2>1, <4>3, CountedIsOut
      <4> QED BY <4>2, <4>3
    <3> QED BY <3>1, <3>2
  <2>5. \A u \in Threads : pc'[u] \in {"scan", "destroy"} => freeing'
    BY <2>1, <2>2
  <2> QED BY <2>1, <2>2, <2>3, <2>4, <2>5 DEF HandoverInv
<1>13. ASSUME NEW t \in Threads, Destroy(t) PROVE HandoverInv'
  <2>1. /\ pc[t] = "destroy" /\ pc'[t] = "idle" /\ (\A u \in Threads : u # t => pc'[u] = pc[u])
        /\ allocated' = FALSE
        /\ UNCHANGED <<cache_malloc_size, usage_count, lent, freeing, closed>>
    BY <1>0, <1>13 DEF Destroy
  <2>2. freeing
    BY <2>1 DEF HandoverInv
  <2> QED BY <2>1, <2>2 DEF HandoverInv
<1> QED BY <1>1, <1>3, <1>4, <1>5, <1>6, <1>7, <1>8, <1>9, <1>10, <1>11, <1>12, <1>13 DEF Next, FreeSteps

(* What CloseFrees needs of every step: whichever thread returns the last  *)
(* buffer, and however it meets the close, it or one after it goes on to   *)
(* free the cache, so that with the instance closed, nothing out and no    *)
(* call unfinished nothing is left in memory; faults, lost buffers and any *)
(* number of threads included.                                             *)
THEOREM LastOneFrees == Spec => []NothingLeft
<1>1. Init => HandoverInv
  BY DEF Init, HandoverInv
<1>2. HandoverInv => NothingLeft
  BY DEF HandoverInv, NothingLeft
<1> QED BY <1>1, <1>2, HandoverHolds, Invariance, PTL DEF Spec
=============================================================================
