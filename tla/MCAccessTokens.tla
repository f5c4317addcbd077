--------------------------- MODULE MCAccessTokens ---------------------------
(* Small instances of AccessTokens, and of RefreshTokens within it.          *)
EXTENDS AccessTokens, TLC

(* Sound for LifecycleSpec too: it has no fairness, so it is checked step by *)
(* step, and no step of it distinguishes tokens.                             *)
Symmetry == Permutations(Tokens) \cup Permutations(Requests)
=============================================================================
