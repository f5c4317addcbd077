------------------------- MODULE MCBudgetWarnings -------------------------
(* Small instances of BudgetWarnings.                                        *)
EXTENDS BudgetWarnings, TLC

(* Sound for LogSpec too: it has no fairness, so it is checked step by step. *)
Symmetry == Permutations(Tasks)
=============================================================================
