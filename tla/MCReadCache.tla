----------------------------- MODULE MCReadCache -----------------------------
(* Small instances of ReadCache for TLC. *)
EXTENDS ReadCacheInv, TLC

\* Buffer identities and files are interchangeable.
Symmetry == Permutations(Handles) \cup Permutations(Files)
=============================================================================
