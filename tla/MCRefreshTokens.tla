-------------------------- MODULE MCRefreshTokens --------------------------
(* Small instances of RefreshTokens.                                         *)
EXTENDS RefreshTokens, TLC

(* Sound for LifecycleSpec too: it has no fairness, so it is checked step by *)
(* step, and no step of it distinguishes tokens.                             *)
Symmetry == Permutations(Tokens) \cup Permutations(Requests)
=============================================================================
