------------------------------ MODULE MCSavings ------------------------------
(* Small instances of Savings.                                               *)
EXTENDS Savings, TLC

MCNets   == {-1, 1}
Symmetry == Permutations(Overviews)
=============================================================================
