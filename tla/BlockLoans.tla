----------------------------- MODULE BlockLoans -----------------------------
(***************************************************************************)
(* What the zero-copy interface promises the application, read off the     *)
(* behaviour of src/src/read_cache.c without its chunks: a block is lent   *)
(* with the content of the disc, keeps that content until it is given      *)
(* back, may be given back after the close, and the memory of the whole    *)
(* instance goes away exactly when the instance is closed and no block is  *)
(* out.                                                                    *)
(***************************************************************************)
CONSTANTS Handles, Block, NoLoan

VARIABLES loan,      \* the block content the application sees at each handle
          open,      \* dvdnav_close was not called yet
          released   \* all memory of the instance was freed

loanVars == <<loan, open, released>>

Init == loan = [h \in Handles |-> NoLoan] /\ open = TRUE /\ released = FALSE

NoneOut == \A h \in Handles : loan[h] = NoLoan

Lend(h, b) == /\ open /\ loan[h] = NoLoan
              /\ loan' = [loan EXCEPT ![h] = b]
              /\ UNCHANGED <<open, released>>

GiveBack(h) == /\ loan[h] # NoLoan
               /\ loan' = [loan EXCEPT ![h] = NoLoan]
               /\ UNCHANGED <<open, released>>

Close == open /\ open' = FALSE /\ UNCHANGED <<loan, released>>

Release == /\ ~open /\ ~released /\ NoneOut
           /\ released' = TRUE
           /\ UNCHANGED <<loan, open>>

Next == \/ \E h \in Handles : \E b \in Block : Lend(h, b)
        \/ \E h \in Handles : GiveBack(h)
        \/ Close
        \/ Release

Safe == Init /\ [][Next]_loanVars

(* Release is owed once nothing is out; giving back is the application's. *)
Spec == Safe /\ WF_loanVars(Release)
=============================================================================
