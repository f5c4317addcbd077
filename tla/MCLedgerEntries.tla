--------------------------- MODULE MCLedgerEntries ---------------------------
(* Two categories of expenses and one of income, of which the user adds one. *)
EXTENDS LedgerEntries, TLC

CONSTANTS food, home, pay

MCShared == {food, pay}
MCOwn    == {home}
MCKind   == [c \in {food, home, pay} |-> IF c = pay THEN "INCOME" ELSE "EXPENSE"]
Symmetry == Permutations(Budgets) \cup Permutations(Requests)
=============================================================================
