------------------------------ MODULE ReadCache ------------------------------
(***************************************************************************)
(* The read-ahead cache of libdvdnav (src/src/read_cache.c).               *)
(*                                                                         *)
(* The navigating thread, Main, reads disc blocks through the cache and    *)
(* may receive a pointer INTO a cache chunk instead of a copy.  Any thread *)
(* of the application gives such a pointer back with                       *)
(* dvdnav_free_cache_block, possibly after dvdnav_close: the cache and the *)
(* dvdnav_t it hangs on are freed by whoever finds no chunk memory left.   *)
(*                                                                         *)
(* Every section under cache->lock is one action.  What the code reads     *)
(* outside the lock (the freeing flag, the scan for remaining chunks, the  *)
(* final free) is an action of its own.  Main's calls run under the        *)
(* dvdnav vm_lock or before any other call, so they exclude each other.    *)
(***************************************************************************)
EXTENDS Integers, FiniteSets

CONSTANTS
  Threads,       \* application threads that give buffers back
  Main,          \* the one that also navigates and closes
  Handles,       \* identities of buffers lent from the cache
  Files,         \* VOB files of the disc
  NoFile,        \* dvd_self->file = NULL
  NChunks,       \* READ_CACHE_CHUNKS (10)
  MinAlloc,      \* blocks of the first malloc of a chunk (500)
  AheadMin,      \* READ_AHEAD_SIZE_MIN (4)
  AheadMax,      \* READ_AHEAD_SIZE_MAX (512)
  MaxSector,     \* bound: last sector of a file
  Cap,           \* bound: the longest chunk ever allocated, in blocks
  ReadFaults,    \* TRUE: DVDReadBlocks may fail or read short
  BadNav,        \* TRUE: a block read as NAV packet may fail to decode
  NoLoan,        \* no buffer lent under this handle
  Junk           \* content of memory nothing was read into

ASSUME ThreadsAssumption == Main \in Threads
ASSUME ChunksAssumption  == NChunks \in Nat \ {0}
ASSUME SizesAssumption   == /\ Cap \in Nat \ {0}
                            /\ MinAlloc \in 1..Cap
                            /\ MaxSector \in Nat
ASSUME AheadAssumption   == /\ AheadMin \in Nat \ {0}
                            /\ AheadMax \in Nat
                            /\ AheadMin <= AheadMax
ASSUME FaultsAssumption  == ReadFaults \in BOOLEAN /\ BadNav \in BOOLEAN
ASSUME HandlesAssumption == IsFiniteSet(Handles)
ASSUME FilesAssumption   == NoFile \notin Files

Chunks  == 0..(NChunks - 1)
Slots   == 0..(Cap - 1)
Sectors == 0..MaxSector
Block   == Files \X Sectors                \* what the disc holds
Loan    == [chunk : Chunks, slot : Slots, block : Block, to : {"main", "app", "lost"}]
ASSUME LoanAssumption == NoLoan \notin Loan \cup Block
ASSUME JunkAssumption == Junk \notin Block

VARIABLES
  (* read_cache_chunk_t, a function of the chunk for each field *)
  cache_buffer,        \* the content of each block of memory
  cache_malloc_size,   \* blocks allocated, 0 when cache_buffer is NULL
  cache_start_sector,
  cache_block_count,
  cache_read_count,
  cache_valid,
  usage_count,
  (* read_cache_t *)
  current, read_ahead_size, read_ahead_incr, last_sector, freeing,
  (* dvdnav_t *)
  file, use_read_ahead,
  (* the memory of the cache and of the dvdnav_t *)
  allocated,           \* not yet passed to free()
  (* the application *)
  lent,                \* the buffer behind each handle
  closed,              \* dvdnav_close was called
  pc,                  \* what each thread is about to do
  request              \* handle of the read in progress

fieldVars == <<cache_buffer, cache_malloc_size, cache_start_sector,
               cache_block_count, cache_read_count, cache_valid>>
aheadVars == <<current, read_ahead_size, read_ahead_incr, last_sector>>
discVars  == <<file, use_read_ahead>>
endVars   == <<freeing, allocated, closed>>
vars == <<fieldVars, usage_count, aheadVars, discVars, endVars, lent, pc, request>>

TypeOK ==
  /\ cache_buffer       \in [Chunks -> [Slots -> Block \cup {Junk}]]
  /\ cache_malloc_size  \in [Chunks -> 0..Cap]
  /\ cache_start_sector \in [Chunks -> Sectors]
  /\ cache_block_count  \in [Chunks -> 0..Cap]
  /\ cache_read_count   \in [Chunks -> -1..Cap]
  /\ cache_valid        \in [Chunks -> BOOLEAN]
  /\ usage_count        \in [Chunks -> Int]
  /\ current            \in Chunks
  /\ read_ahead_size    \in AheadMin..AheadMax
  /\ read_ahead_incr    \in 0..AheadMax
  /\ last_sector        \in Sectors
  /\ freeing        \in BOOLEAN
  /\ file           \in Files \cup {NoFile}
  /\ use_read_ahead \in BOOLEAN
  /\ allocated      \in BOOLEAN
  /\ closed         \in BOOLEAN
  /\ lent           \in [Handles -> Loan \cup {NoLoan}]
  /\ pc             \in [Threads -> {"idle", "fill", "check", "sweep", "scan", "destroy"}]
  /\ request        \in Handles \cup {NoLoan}

(* dvdnav_read_cache_new: nothing allocated in the chunks, nothing lent.   *)
Init ==
  /\ cache_buffer       = [c \in Chunks |-> [k \in Slots |-> Junk]]
  /\ cache_malloc_size  = [c \in Chunks |-> 0]
  /\ cache_start_sector = [c \in Chunks |-> 0]
  /\ cache_block_count  = [c \in Chunks |-> 0]
  /\ cache_read_count   = [c \in Chunks |-> 0]
  /\ cache_valid        = [c \in Chunks |-> FALSE]
  /\ usage_count        = [c \in Chunks |-> 0]
  /\ current = 0 /\ last_sector = 0
  /\ read_ahead_size = AheadMin /\ read_ahead_incr = 0
  /\ freeing = FALSE /\ allocated = TRUE /\ closed = FALSE
  /\ file = NoFile /\ use_read_ahead = TRUE
  /\ lent = [h \in Handles |-> NoLoan]
  /\ pc = [t \in Threads |-> "idle"]
  /\ request = NoLoan

(* Main may start a call on the open dvdnav_t. *)
MainReady == pc[Main] = "idle" /\ ~closed

-----------------------------------------------------------------------------
(* Calls of the navigating thread *)

(* dvdnav_set_readahead_flag: takes no lock, read at the next call. *)
SetReadahead(flag) ==
  /\ MainReady
  /\ use_read_ahead' = flag
  /\ UNCHANGED <<fieldVars, usage_count, aheadVars, file, endVars, lent, pc, request>>

(* Mutant: the chunks stay valid when the file changes. *)
ChangeFileKeepsChunks(f) ==
  /\ MainReady
  /\ file' = f
  /\ UNCHANGED <<fieldVars, usage_count, aheadVars, use_read_ahead, endVars, lent, pc, request>>

(* A VTS or domain change and dvdnav_clear: the VOB file is closed, another *)
(* one opened (or none: the open failed, or nothing plays yet).            *)
(* dvdnav_read_cache_clear invalidates every chunk in the same vm_lock     *)
(* section; memory and loans stay.                                         *)
ChangeFile(f) ==
  /\ MainReady
  /\ file' = f
  /\ cache_valid' = [c \in Chunks |-> FALSE]
  /\ UNCHANGED <<cache_buffer, cache_malloc_size, cache_start_sector,
                 cache_block_count, cache_read_count, usage_count, aheadVars,
                 use_read_ahead, endVars, lent, pc, request>>

(* Mutant: lent chunks are reused. *)
ReusableThoughLent == {c \in Chunks : cache_malloc_size[c] > 0}

(* The chunks dvdnav_pre_cache_blocks may use: not lent from. *)
Reusable == {c \in Chunks : usage_count[c] = 0 /\ cache_malloc_size[c] > 0}

(* Its three searches, each over the chunks in index order: the smallest   *)
(* idle chunk that is large enough, else the largest idle chunk, else the  *)
(* first without memory.                                                   *)
BestFit(count) ==
  LET fit == {c \in Reusable : cache_malloc_size[c] >= count}
  IN  {c \in fit : \A d \in fit : \/ cache_malloc_size[c] < cache_malloc_size[d]
                                  \/ cache_malloc_size[c] = cache_malloc_size[d] /\ c <= d}
Largest ==
  {c \in Reusable : \A d \in Reusable :
                      \/ cache_malloc_size[c] > cache_malloc_size[d]
                      \/ cache_malloc_size[c] = cache_malloc_size[d] /\ c <= d}
FirstEmpty ==
  LET empty == {c \in Chunks : cache_malloc_size[c] = 0}
  IN  {c \in empty : \A d \in empty : c <= d}

(* The chunk to use and its size in blocks after the call: unchanged,      *)
(* realloc to count, or a first malloc of at least MinAlloc.               *)
Placement(count) ==
  IF BestFit(count) # {} THEN {<<c, cache_malloc_size[c]>> : c \in BestFit(count)}
  ELSE IF Reusable # {}  THEN {<<c, count>> : c \in Largest}
  ELSE {<<c, IF count > MinAlloc THEN count ELSE MinAlloc>> : c \in FirstEmpty}

(* dvdnav_pre_cache_blocks, called with the blocks of the VOBU that        *)
(* follows a NAV packet.  It allocates and labels a chunk; nothing is read *)
(* yet and what the memory held stays (realloc copies it).                 *)
PreCache(sector, count) ==
  /\ MainReady /\ file # NoFile /\ use_read_ahead
  /\ \E p \in Placement(count) :
       LET use == p[1] IN
       /\ cache_malloc_size'  = [cache_malloc_size  EXCEPT ![use] = p[2]]
       /\ cache_start_sector' = [cache_start_sector EXCEPT ![use] = sector]
       /\ cache_block_count'  = [cache_block_count  EXCEPT ![use] = count]
       /\ cache_read_count'   = [cache_read_count   EXCEPT ![use] = 0]
       /\ cache_valid'        = [cache_valid        EXCEPT ![use] = TRUE]
       /\ current' = use
  /\ UNCHANGED <<cache_buffer, usage_count, read_ahead_size, read_ahead_incr, last_sector,
                 discVars, endVars, lent, pc, request>>

(* The hit test of dvdnav_read_cache_block for one block. *)
Covers(c, sector) ==
  /\ cache_valid[c]
  /\ sector >= cache_start_sector[c]
  /\ sector <= cache_start_sector[c] + cache_read_count[c]
  /\ sector + 1 <= cache_start_sector[c] + cache_block_count[c]

(* The chunk it chooses: the current one if it covers the sector, else the *)
(* last one that does.                                                     *)
HitChunk(sector) ==
  IF Covers(current, sector) THEN {current}
  ELSE {c \in Chunks : /\ Covers(c, sector)
                       /\ \A d \in Chunks : Covers(d, sector) => d <= c}

(* dvdnav_read_cache_block on a hit, up to the end of its lock section.    *)
(* The fields tested before the lock are written by Main alone, so the     *)
(* test and the section are one step.  h names the pointer handed out.     *)
Lookup(h, sector) ==
  /\ MainReady /\ file # NoFile /\ use_read_ahead
  /\ lent[h] = NoLoan
  /\ \E c \in HitChunk(sector) :
       /\ usage_count' = [usage_count EXCEPT ![c] = @ + 1]
       /\ lent' = [lent EXCEPT ![h] =
                     [chunk |-> c, slot |-> sector - cache_start_sector[c],
                      block |-> <<file, sector>>, to |-> "main"]]
  /\ IF sector = last_sector + 1
     THEN /\ read_ahead_incr' = IF read_ahead_incr < AheadMax
                                THEN read_ahead_incr + 1 ELSE read_ahead_incr
          /\ UNCHANGED read_ahead_size
     ELSE read_ahead_size' = AheadMin /\ read_ahead_incr' = 0
  /\ last_sector' = sector
  /\ request' = h
  /\ pc' = [pc EXCEPT ![Main] = "fill"]
  /\ UNCHANGED <<fieldVars, current, discVars, endVars>>

(* Mutants: no upper limit of the read-ahead; reading past the chunk. *)
NextAheadUnlimited == read_ahead_size + read_ahead_incr \div 2
ReadSizeUnclamped(c) == read_ahead_size

(* The read-ahead size of this call and the number of blocks it asks for.  *)
(* (The code would enlarge it to reach the sector wanted, but a hit is at  *)
(* most one block beyond what was read.)                                   *)
NextAhead ==
  LET grown == read_ahead_size + read_ahead_incr \div 2
  IN  IF grown > AheadMax THEN AheadMax ELSE grown
ReadSize(c) ==
  IF cache_read_count[c] + NextAhead > cache_block_count[c]
  THEN cache_block_count[c] - cache_read_count[c]
  ELSE NextAhead

(* What DVDReadBlocks(file, start, size) may return: the blocks read, or   *)
(* -1.  Asked for nothing, it is not called.                               *)
ReadResult(size) ==
  IF size = 0 THEN {0} ELSE IF ReadFaults THEN -1..size ELSE {size}

(* The rest of dvdnav_read_cache_block and of its caller.  The return      *)
(* value is the full block count whatever DVDReadBlocks returned, and the  *)
(* result is added to cache_read_count unchecked.  The application gets    *)
(* the pointer; it is lost if the block was wanted as a NAV packet and     *)
(* does not decode, because the caller then returns an error without       *)
(* giving it back.                                                         *)
Fill ==
  /\ pc[Main] = "fill"
  /\ LET c     == lent[request].chunk
         first == cache_read_count[c]
     IN  \E n \in ReadResult(ReadSize(c)) :
           /\ cache_buffer' = [cache_buffer EXCEPT ![c] =
                [k \in Slots |-> IF k \in first..(first + n - 1)
                                 THEN <<file, cache_start_sector[c] + k>>
                                 ELSE @[k]]]
           /\ cache_read_count' = [cache_read_count EXCEPT ![c] = first + n]
  /\ read_ahead_size' = NextAhead
  /\ \E to \in {"app"} \cup (IF BadNav THEN {"lost"} ELSE {}) :
       lent' = [lent EXCEPT ![request].to = to]
  /\ request' = NoLoan
  /\ pc' = [pc EXCEPT ![Main] = "idle"]
  /\ UNCHANGED <<cache_malloc_size, cache_start_sector, cache_block_count, cache_valid,
                 usage_count, current, read_ahead_incr, last_sector, discVars, endVars>>

-----------------------------------------------------------------------------
(* Giving buffers back, and the end of the cache *)

(* Mutant: a buffer is only recognised among the blocks known to be read. *)
FreeBlockIfRead(t, h) ==
  /\ pc[t] = "idle"
  /\ lent[h] # NoLoan /\ lent[h].to = "app"
  /\ usage_count' = [usage_count EXCEPT ![lent[h].chunk] =
                       IF lent[h].slot < cache_read_count[lent[h].chunk] THEN @ - 1 ELSE @]
  /\ lent' = [lent EXCEPT ![h] = NoLoan]
  /\ pc' = [pc EXCEPT ![t] = "check"]
  /\ UNCHANGED <<fieldVars, aheadVars, discVars, endVars, request>>

(* dvdnav_free_cache_block up to its unlock.  The chunk is found from the  *)
(* address: its memory is where the pointer points only while it has not   *)
(* been replaced.                                                          *)
FreeBlock(t, h) ==
  /\ pc[t] = "idle"
  /\ lent[h] # NoLoan /\ lent[h].to = "app"
  /\ usage_count' = [usage_count EXCEPT ![lent[h].chunk] =
                       IF lent[h].slot < cache_malloc_size[lent[h].chunk] THEN @ - 1 ELSE @]
  /\ lent' = [lent EXCEPT ![h] = NoLoan]
  /\ pc' = [pc EXCEPT ![t] = "check"]
  /\ UNCHANGED <<fieldVars, aheadVars, discVars, endVars, request>>

(* Mutant: returning a buffer never goes on with freeing the cache. *)
CheckNothing(t) ==
  /\ pc[t] = "check"
  /\ pc' = [pc EXCEPT ![t] = "idle"]
  /\ UNCHANGED <<fieldVars, usage_count, aheadVars, discVars, endVars, lent, request>>

(* ... and its test of cache->freeing, after the unlock. *)
CheckFreeing(t) ==
  /\ pc[t] = "check"
  /\ pc' = [pc EXCEPT ![t] = IF freeing THEN "sweep" ELSE "idle"]
  /\ UNCHANGED <<fieldVars, usage_count, aheadVars, discVars, endVars, lent, request>>

(* dvdnav_close: the file and the VM are closed, the cache does the rest. *)
Close ==
  /\ MainReady
  /\ closed' = TRUE
  /\ file' = NoFile
  /\ pc' = [pc EXCEPT ![Main] = "sweep"]
  /\ UNCHANGED <<fieldVars, usage_count, aheadVars, use_read_ahead, freeing,
                 allocated, lent, request>>

(* Mutant: lent chunks are freed with the others. *)
SweepAll(t) ==
  /\ pc[t] = "sweep"
  /\ freeing' = TRUE
  /\ cache_malloc_size' = [c \in Chunks |-> 0]
  /\ cache_buffer' = [c \in Chunks |-> [k \in Slots |-> Junk]]
  /\ pc' = [pc EXCEPT ![t] = "scan"]
  /\ UNCHANGED <<cache_start_sector, cache_block_count, cache_read_count, cache_valid,
                 usage_count, aheadVars, discVars, allocated, closed, lent, request>>

(* The locked part of dvdnav_read_cache_free. *)
Sweep(t) ==
  /\ pc[t] = "sweep"
  /\ freeing' = TRUE
  /\ cache_malloc_size' = [c \in Chunks |-> IF usage_count[c] = 0 THEN 0
                                            ELSE cache_malloc_size[c]]
  /\ cache_buffer' = [c \in Chunks |-> IF usage_count[c] = 0 THEN [k \in Slots |-> Junk]
                                       ELSE cache_buffer[c]]
  /\ pc' = [pc EXCEPT ![t] = "scan"]
  /\ UNCHANGED <<cache_start_sector, cache_block_count, cache_read_count, cache_valid,
                 usage_count, aheadVars, discVars, allocated, closed, lent, request>>

(* Mutant: one chunk without memory is enough to free the cache. *)
ScanForOne(t) ==
  /\ pc[t] = "scan"
  /\ pc' = [pc EXCEPT ![t] = IF \E c \in Chunks : cache_malloc_size[c] = 0
                             THEN "destroy" ELSE "idle"]
  /\ UNCHANGED <<fieldVars, usage_count, aheadVars, discVars, endVars, lent, request>>

(* Its unlocked scan for remaining memory.  Memory only disappears once    *)
(* freeing is set, so reading all chunks at once loses no outcome.         *)
Scan(t) ==
  /\ pc[t] = "scan"
  /\ pc' = [pc EXCEPT ![t] = IF \A c \in Chunks : cache_malloc_size[c] = 0
                             THEN "destroy" ELSE "idle"]
  /\ UNCHANGED <<fieldVars, usage_count, aheadVars, discVars, endVars, lent, request>>

(* Its end: the mutex is destroyed, the cache and the dvdnav_t freed. *)
Destroy(t) ==
  /\ pc[t] = "destroy"
  /\ allocated' = FALSE
  /\ pc' = [pc EXCEPT ![t] = "idle"]
  /\ UNCHANGED <<fieldVars, usage_count, aheadVars, discVars, freeing, closed, lent, request>>

FreeSteps(t) == CheckFreeing(t) \/ Sweep(t) \/ Scan(t) \/ Destroy(t)

Next ==
  \/ \E flag \in BOOLEAN : SetReadahead(flag)
  \/ \E f \in Files \cup {NoFile} : ChangeFile(f)
  \/ \E sector \in Sectors : \E count \in 1..Cap :
       sector + count - 1 \in Sectors /\ PreCache(sector, count)
  \/ \E h \in Handles : \E sector \in Sectors : Lookup(h, sector)
  \/ Fill
  \/ \E t \in Threads : \E h \in Handles : FreeBlock(t, h)
  \/ Close
  \/ \E t \in Threads : FreeSteps(t)

Spec == Init /\ [][Next]_vars

(* A call once begun runs to its end, and the application gives back every *)
(* buffer it was handed; nothing else is promised.                         *)
Fairness ==
  /\ WF_vars(Fill)
  /\ \A t \in Threads : WF_vars(FreeSteps(t))
  /\ \A h \in Handles : WF_vars(\E t \in Threads : FreeBlock(t, h))

FairSpec == Spec /\ Fairness
-----------------------------------------------------------------------------
(* Properties *)

LentFrom(c) == {h \in Handles : lent[h] # NoLoan /\ lent[h].chunk = c}
Held(h)     == lent[h] # NoLoan /\ lent[h].to = "app"

(* usage_count is the number of buffers issued from the chunk: what the    *)
(* comment of read_cache_chunk_t says, across lock sections of all threads *)
(* and the phases of dvdnav_close.                                         *)
UsageIsLoans == \A c \in Chunks : usage_count[c] = Cardinality(LentFrom(c))

(* A buffer the application holds still contains the disc block it asked   *)
(* for, whatever is pre-cached, read ahead, re-opened or freed meanwhile:  *)
(* the chunk is not reused, reallocated, overwritten or freed under it.    *)
HeldIntact == \A h \in Handles : Held(h) =>
  /\ lent[h].slot < cache_malloc_size[lent[h].chunk]
  /\ cache_buffer[lent[h].chunk][lent[h].slot] = lent[h].block

(* The blocks a valid chunk claims to have read are those of the file now  *)
(* open, so a hit never serves a block of the previous VTS or domain; and  *)
(* DVDReadBlocks never writes past the memory of the chunk.                *)
Coherent == \A c \in Chunks : cache_malloc_size[c] > 0 =>
  /\ cache_read_count[c] <= cache_block_count[c]
  /\ cache_block_count[c] <= cache_malloc_size[c]
  /\ cache_valid[c] /\ ~closed => \A k \in Slots : k < cache_read_count[c] =>
       cache_buffer[c][k] = <<file, cache_start_sector[c] + k>>

(* The chunk memory behind a lent buffer keeps its size and its sectors    *)
(* until the buffer is back, even when disc reads fail.                    *)
PinnedStays == [][\A c \in Chunks : usage_count[c] > 0 =>
                    /\ cache_malloc_size'[c] = cache_malloc_size[c]
                    /\ cache_start_sector'[c] = cache_start_sector[c]
                    /\ cache_block_count'[c] = cache_block_count[c]]_vars

(* Nothing reads the freed cache: once the memory is gone no thread is     *)
(* about to test freeing, lock, scan or free it again.                     *)
NoUseAfterFree == ~allocated =>
  \A t \in Threads : pc[t] \notin {"check", "sweep", "scan", "destroy"}

(* The memory of a buffer is there as long as the application holds it.    *)
FreedOnlyWhenReturned == ~allocated => \A h \in Handles : lent[h] = NoLoan

(* dvdnav_close hands the cache to whoever returns the last buffer: once   *)
(* closed, everything is freed in the end.                                 *)
CloseFrees == closed ~> ~allocated

(* The cache implements the lending contract of BlockLoans, with the       *)
(* content at a handle read from the chunk memory at every moment.         *)
Content == [h \in Handles |-> IF Held(h) THEN cache_buffer[lent[h].chunk][lent[h].slot]
                                         ELSE NoLoan]
Loans == INSTANCE BlockLoans WITH loan <- Content, open <- ~closed, released <- ~allocated
LendsBlocks == Loans!Spec
=============================================================================
