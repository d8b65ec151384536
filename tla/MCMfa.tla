------------------------------- MODULE MCMfa --------------------------------
(* MfaFactors for TLC: the tabs are interchangeable, and so are the replicas. *)
EXTENDS MfaFactors, TLC

Symmetry == Permutations(Tabs) \cup Permutations(Pods)
=============================================================================
