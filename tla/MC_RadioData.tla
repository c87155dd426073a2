---------------------------- MODULE MC_RadioData ----------------------------
(* RadioData with two binder threads as model values.                      *)
EXTENDS RadioData, TLC

CONSTANTS b1, b2

MCBinderThreads == {b1, b2}

Symmetry == Permutations(MCBinderThreads)
=============================================================================
