----------------------------- MODULE PlanValues -----------------------------
(***************************************************************************)
(* The values of the PLAN machine (value.h, build.h, build.c) and the      *)
(* objects of its private heap.  A value is a direct record; whatever the  *)
(* evaluator may still have to run, or may have overwritten in place, is a *)
(* reference to a cell of the heap, which is a sequence of cells.          *)
(*                                                                         *)
(*   nat   n          a natural; "direct" (nat63) up to Nat63Max           *)
(*   app   f, xs      a flat spine: f is no app                            *)
(*   law   a, m, b    arity, name, body                                    *)
(*   pin   v, s       s: canonical (saved, hashed) or a fresh proxy        *)
(*   ref   c          cell c of the heap (the tag PL_TAG_DEFER)            *)
(*                                                                         *)
(* and a cell is a kal thunk (env, expr), its blackhole, an indirection, a *)
(* bytecode thunk (THKE: bane, args, the HOLE flag) or an environment.     *)
(* The cache PL_F_NORMAL is not kept: it says what IsNormal computes.      *)
(***************************************************************************)
EXTENDS Integers, Sequences, FiniteSets, SequencesExt

CONSTANT Nat63Max           \* the largest direct nat (PL_NAT63_MAX)

ASSUME Nat63MaxAssumption == Nat63Max \in Nat

-----------------------------------------------------------------------------
Num(n) == [k |-> "nat", n |-> n]
App(f, xs) == [k |-> "app", f |-> f, xs |-> xs]
Law(a, name, b) == [k |-> "law", a |-> a, m |-> name, b |-> b]
Pin(v) == [k |-> "pin", v |-> v, s |-> TRUE]
Proxy(v) == [k |-> "pin", v |-> v, s |-> FALSE]
Ref(c) == [k |-> "ref", c |-> c]

Zero == Num(0)
One == Num(1)
Truth(b) == IF b THEN One ELSE Zero

Thunk(env, x) == [k |-> "thunk", env |-> env, x |-> x]
Hole(env) == [k |-> "bh", env |-> env]
Ind(v) == [k |-> "ind", v |-> v]
Thke(bane, noupd, args) ==
    [k |-> "thke", bane |-> bane, noupd |-> noupd, args |-> args, hole |-> FALSE]
Env(slots) == [k |-> "env", slots |-> slots]

IsWhnf(v) == v.k # "ref"
IsNat(v) == v.k = "nat"
IsNat63(v) == v.k = "nat" /\ v.n <= Nat63Max
IsApp(v) == v.k = "app"
IsLaw(v) == v.k = "law"
IsPin(v) == v.k = "pin"

(* pl_nat_coerce: what is no nat counts as 0.                              *)
Coerce(v) == IF IsNat(v) THEN v.n ELSE 0

(* pl_arity of a WHNF value and pl_need_after: how many arguments it lacks *)
(* (0: applying it only grows a spine).                                    *)
HeadArity(v) ==
    CASE v.k = "nat" -> 0
      [] v.k = "law" -> v.a
      [] v.k = "pin" -> IF IsLaw(v.v) THEN v.v.a ELSE 1

NeedAfter(head, n) ==
    IF HeadArity(head) <= n THEN 0 ELSE HeadArity(head) - n

Arity(v) == IF IsApp(v) THEN NeedAfter(v.f, Len(v.xs)) ELSE HeadArity(v)

(* pl_mk_app_cat, pl_mk_app_snoc and pl_mk_app_take: spines stay flat.     *)
AppCat(f, xs) == IF IsApp(f) THEN App(f.f, f.xs \o xs) ELSE App(f, xs)
AppTake(v, n) == App(v.f, SubSeq(v.xs, 1, n))

(* The list [head, args...] of a value (the machine's "unapp").            *)
Unapp(v) == IF IsApp(v) THEN <<v.f>> \o v.xs ELSE <<v>>

(* Fields a deep normalization walks: pl_nf_nfields, pl_nf_field and       *)
(* pl_nf_writeback; a canonical pin is never entered.                      *)
NfFields(v) ==
    CASE v.k = "app" -> <<v.f>> \o v.xs
      [] v.k = "law" -> <<v.m, v.b>>
      [] v.k = "pin" -> <<v.v>>
      [] OTHER -> <<>>

NfWriteback(v, i, w) ==
    CASE v.k = "app" -> IF i = 1 THEN [v EXCEPT !.f = w] ELSE [v EXCEPT !.xs[i - 1] = w]
      [] v.k = "law" -> IF i = 1 THEN [v EXCEPT !.m = w] ELSE [v EXCEPT !.b = w]
      [] v.k = "pin" -> [v EXCEPT !.v = w]

(* pl_is_normal: no reference is left anywhere inside.                     *)
RECURSIVE IsNormal(_)
IsNormal(v) ==
    /\ IsWhnf(v)
    /\ \A i \in DOMAIN NfFields(v) : IsNormal(NfFields(v)[i])

(* pl_resolve: look through the indirections that updates leave behind.    *)
RECURSIVE Resolve(_, _)
Resolve(h, v) ==
    IF v.k = "ref" /\ h[v.c].k = "ind" THEN Resolve(h, h[v.c].v) ELSE v

(* A value with its indirections looked through and the pin states         *)
(* forgotten: what structural equality compares (op.c, pl_eq_deep).        *)
RECURSIVE Plain(_, _)
Plain(h, v0) ==
    LET v == Resolve(h, v0)
    IN  CASE v.k = "app" -> App(Plain(h, v.f), [i \in DOMAIN v.xs |-> Plain(h, v.xs[i])])
          [] v.k = "law" -> Law(v.a, Plain(h, v.m), Plain(h, v.b))
          [] v.k = "pin" -> Pin(Plain(h, v.v))
          [] OTHER -> v
=============================================================================
