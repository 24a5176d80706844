---- MODULE MCCodeCache ----
(* Two laws that call each other, two compilers: the first raises on both, *)
(* the second compiles both.  Each enters one of the laws while it runs.   *)
EXTENDS CodeCache, TLC

CONSTANTS a, b, c1, c2, t1, t2

MCOutcome == (<<c1, a>> :> "raise") @@ (<<c1, b>> :> "raise")
             @@ (<<c2, a>> :> "code") @@ (<<c2, b>> :> "code")
MCCallees == (a :> {b}) @@ (b :> {a})
MCUses == (c1 :> {a}) @@ (c2 :> {b})
MCInner == (a :> {"i"}) @@ (b :> {"i"})
====
