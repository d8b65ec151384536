----------------------------- MODULE MCCasework -----------------------------
(* Casework for TLC: admins, tabs and request ids are interchangeable.      *)
EXTENDS Casework, TLC

Symmetry == Permutations(Admins) \cup Permutations(Tabs) \cup Permutations(Files)
=============================================================================
