----------------------------- MODULE MCNativeStore -----------------------------
(* Two objects, the second referring to the first, one cache key and one    *)
(* inspector.                                                               *)
EXTENDS NativeStore, TLC

CONSTANTS h1, h2, k1, r1

MCDeps == (h1 :> {}) @@ (h2 :> {h1})
================================================================================
