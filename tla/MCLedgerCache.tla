--------------------------- MODULE MCLedgerCache ---------------------------
(* Small instances of LedgerCache.                                           *)
EXTENDS LedgerCache, TLC

(* Sound for the invariants only: the liveness run does not use it.          *)
Symmetry == Permutations(Readers) \cup Permutations(Sessions) \cup Permutations(Users)
=============================================================================
