---------------------------- MODULE MCSiloStore ----------------------------
(***************************************************************************)
(* The Silo store with two processes and three pins: 1 a leaf, 2 with pin  *)
(* 1 inside, 3 a row of the compile cache with pin 1 inside.               *)
(***************************************************************************)
EXTENDS SiloStore, TLC

CONSTANTS p1, p2

MCObjects == {1, 2, 3}
MCSub == [h \in MCObjects |-> IF h = 1 THEN {} ELSE {1}]
MCSize == [h \in MCObjects |-> IF h = 2 THEN 2 ELSE 1]

Symmetry == Permutations({p1, p2})
=============================================================================
