------------------------------ MODULE MCGc2Heap ------------------------------
(***************************************************************************)
(* Two threads, a span of two slots and a span of one, one hash.    *)
(***************************************************************************)
EXTENDS Gc2Heap, TLC

CONSTANTS t1, t2, h1, A, B, a1, a2, b1

MCThreads == {t1, t2}
MCSpans == {A, B}
MCSlots == {a1, a2, b1}
MCSpanOf == (a1 :> A) @@ (a2 :> A) @@ (b1 :> B)

\* The two slots of a span are interchangeable, and so are the threads.
SwapA == (a1 :> a2) @@ (a2 :> a1)
MCSymmetry == Permutations(MCThreads) \cup {SwapA}
=============================================================================
