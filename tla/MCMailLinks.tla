---------------------------- MODULE MCMailLinks ----------------------------
(* Small instances of MailLinks.                                             *)
EXTENDS MailLinks, TLC

Symmetry == Permutations(Users) \cup Permutations(Addresses)
            \cup Permutations(Links) \cup Permutations(Requests)
=============================================================================
