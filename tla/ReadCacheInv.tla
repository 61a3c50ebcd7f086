---------------------------- MODULE ReadCacheInv ----------------------------
(***************************************************************************)
(* The inductive invariant behind the theorems of ReadCacheProofs.  It is  *)
(* a module of its own so that TLC checks it before TLAPS is asked to.     *)
(***************************************************************************)
EXTENDS ReadCache

Out(h)  == lent[h] # NoLoan
Size(c) == cache_malloc_size[c]
At(h)   == lent[h].chunk

(* The chunk fields stay ordered and on the disc, and a valid chunk of an  *)
(* open instance has memory.                                               *)
SizesInv == \A c \in Chunks :
  /\ cache_start_sector[c] + cache_block_count[c] <= MaxSector + 1
  /\ cache_read_count[c] <= cache_block_count[c]
  /\ Size(c) > 0 => cache_block_count[c] <= Size(c)
  /\ cache_valid[c] /\ ~closed => Size(c) > 0

(* What was read into a valid chunk belongs to the open file. *)
ContentInv == \A c \in Chunks : cache_valid[c] /\ ~closed =>
  \A k \in Slots : k < cache_read_count[c] =>
    cache_buffer[c][k] = <<file, cache_start_sector[c] + k>>

(* Between Lookup and Fill one loan is still Main's, in a chunk whose      *)
(* frontier it does not lie beyond.                                        *)
PendingInv ==
  /\ pc[Main] = "fill" =>
       /\ request \in Handles /\ Out(request) /\ lent[request].to = "main"
       /\ ~closed /\ file # NoFile /\ cache_valid[At(request)]
       /\ lent[request].slot <= cache_read_count[At(request)]
       /\ lent[request].slot < cache_block_count[At(request)]
       /\ lent[request].block = <<file, cache_start_sector[At(request)] + lent[request].slot>>
  /\ \A h \in Handles : Out(h) /\ lent[h].to = "main" => pc[Main] = "fill" /\ request = h
  /\ file # NoFile => ~closed

(* A loan keeps the memory it points into, and without read faults what    *)
(* the application was handed.                                             *)
LoanInv == \A h \in Handles : Out(h) =>
  /\ lent[h].slot < cache_block_count[At(h)]
  /\ Size(At(h)) > 0
  /\ ~ReadFaults /\ lent[h].to # "main" =>
       /\ lent[h].slot < cache_read_count[At(h)]
       /\ cache_buffer[At(h)][lent[h].slot] = lent[h].block

(* The phases of the end: freeing starts with the close, and whoever is    *)
(* about to free the cache has seen no chunk memory left.                  *)
EndInv ==
  /\ freeing \/ ~allocated \/ (\E t \in Threads : pc[t] \in {"sweep", "scan", "destroy"}) => closed
  /\ (~allocated \/ \E t \in Threads : pc[t] = "destroy") => \A c \in Chunks : Size(c) = 0

IInv == /\ TypeOK /\ UsageIsLoans
        /\ SizesInv /\ ContentInv /\ PendingInv /\ LoanInv /\ EndInv

(* Why nothing is left behind: until the sweep of dvdnav_close Main is     *)
(* about to do it; a chunk that lost its last loan since a sweep has a     *)
(* thread that will sweep again; and whoever scans has swept.              *)
Working(t) == pc[t] \in {"check", "sweep", "scan", "destroy"}
HandoverInv ==
  /\ closed /\ ~freeing => pc[Main] = "sweep"
  /\ \A t \in Threads : pc[t] \in {"scan", "destroy"} => freeing
  /\ freeing => \A c \in Chunks : Size(c) > 0 /\ usage_count[c] = 0 =>
                  \E t \in Threads : pc[t] \in {"check", "sweep"}
  /\ closed /\ allocated => (\E t \in Threads : Working(t)) \/ (\E h \in Handles : Out(h))

(* The end of the cache cannot get stuck: once dvdnav_close was called,    *)
(* nothing is out and no thread is in the middle of a call, the memory is  *)
(* gone, whoever of them returned the last buffer.                         *)
NothingLeft == closed /\ (\A h \in Handles : ~Out(h)) /\ (\A t \in Threads : ~Working(t)) => ~allocated
=============================================================================
