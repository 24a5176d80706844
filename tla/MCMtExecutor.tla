---------------------------- MODULE MCMtExecutor ----------------------------
(***************************************************************************)
(* MtExecutor with one general worker, two spawned actors and the root.    *)
(***************************************************************************)
EXTENDS MtExecutor, TLC

CONSTANTS a1, a2, w1, w2, w3

MCSymmetry == Permutations(Actors) \cup Permutations(Workers)
=============================================================================
