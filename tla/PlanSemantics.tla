--------------------------- MODULE PlanSemantics ---------------------------
(***************************************************************************)
(* What a PLAN program means: call by name, no heap, no sharing, no        *)
(* update, no code, no fuel.  A delayed value is a reference that carries  *)
(* its own computation; the environment of a law's body is its head and    *)
(* arguments followed by its bound expressions.  An outcome is a value, an *)
(* exception, or a runtime error; a computation that does not end within   *)
(* 2^bound steps counts as the error the machine reports for a value that  *)
(* needs itself.                                                           *)
(***************************************************************************)
EXTENDS PlanOps, FiniteSetsExt

Clo(env, x) == Ref([t |-> "clo", env |-> env, x |-> x])
OpClo(f, x) == Ref([t |-> "op", f |-> f, x |-> x])

Scope(env) == Len(env.args) + Len(env.binds)
Lookup(env, i) ==
    IF i < Len(env.args) THEN env.args[i + 1]
    ELSE Clo(env, env.binds[i + 1 - Len(env.args)])

(* The elements of Row: Ix0 of the k-th tail.                              *)
RowOf(n, xs) ==
    LET tails[k \in 0..n] == IF k = 0 THEN xs ELSE OpClo("Ix1", tails[k - 1])
    IN  <<>> \o [k \in 1..n |-> OpClo("Ix0", tails[k - 1])]

(* A computation is a job, or its outcome, under the contexts that wait    *)
(* for a value: s.c under s.ks, innermost last.                            *)
ForceJ(v) == [t |-> "job", do |-> "force", v |-> v]
ExprJ(env, x) == [t |-> "job", do |-> "expr", env |-> env, x |-> x]
BodyJ(env, x) == [t |-> "job", do |-> "body", env |-> env, x |-> x]
ApplyJ(f, x) == [t |-> "job", do |-> "apply", f |-> f, x |-> x]
FieldJ(v, i) == [t |-> "job", do |-> "field", v |-> v, i |-> i]
ArgJ(i, name, a, deep, from) ==
    [t |-> "job", do |-> "arg", i |-> i, name |-> name, a |-> a, deep |-> deep, from |-> from]

IxK(f) == [k |-> "ix", f |-> f]
ExprK(env) == [k |-> "expr", env |-> env]
BodyK(env) == [k |-> "body", env |-> env]
OperandK(env, x) == [k |-> "operand", env |-> env, x |-> x]
PrimK(set) == [k |-> "prim", set |-> set]
FieldK(v, i) == [k |-> "field", v |-> v, i |-> i]
ArgK(job, at) == [k |-> "arg", job |-> job, at |-> at]
TryK == [k |-> "try"]

Do(s, c) == [s EXCEPT !.c = c]
DoUnder(s, c, ks) == [c |-> c, ks |-> s.ks \o ks]

-----------------------------------------------------------------------------
Force(s, v) ==
    IF IsWhnf(v) THEN Do(s, Gives(v))
    ELSE IF v.c.t = "clo" THEN Do(s, ExprJ(v.c.env, v.c.x))
    ELSE DoUnder(s, ForceJ(v.c.x), <<IxK(v.c.f)>>)

Expr(s, env, x) ==
    IF ~IsWhnf(x) THEN DoUnder(s, ForceJ(x), <<ExprK(env)>>)
    ELSE IF IsNat63(x) /\ x.n < Scope(env) THEN Do(s, ForceJ(Lookup(env, x.n)))
    ELSE IF IsApp(x) /\ x.f = Zero /\ Len(x.xs) = 1 THEN Do(s, ForceJ(x.xs[1]))
    ELSE IF IsApp(x) /\ x.f = Zero /\ Len(x.xs) = 2
    THEN DoUnder(s, ExprJ(env, x.xs[1]), <<OperandK(env, x.xs[2])>>)
    ELSE Do(s, Gives(x))

(* A body is a chain of bindings and the expression they scope over.       *)
Body(s, env, x) ==
    IF ~IsWhnf(x) THEN DoUnder(s, ForceJ(x), <<BodyK(env)>>)
    ELSE IF IsApp(x) /\ x.f = One /\ Len(x.xs) = 2
    THEN Do(s, BodyJ([env EXCEPT !.binds = Append(@, x.xs[1])], x.xs[2]))
    ELSE Do(s, ExprJ(env, x))

(* Apply a value: grow its spine, or enter its head.                       *)
Apply(s, f, x) ==
    LET group == Unapp(f) \o <<x>>
        law == IF IsLaw(group[1]) THEN group[1] ELSE group[1].v
    IN  IF Arity(f) # 1 THEN Do(s, Gives(AppCat(f, <<x>>)))
        ELSE IF IsLaw(law) THEN Do(s, BodyJ([args |-> group, binds |-> <<>>], law.b))
        ELSE IF IsNat(law) THEN DoUnder(s, ForceJ(x), <<PrimK(law.n)>>) ELSE Do(s, Fails)

(* The normal form of a value, field by field.                             *)
Field(s, v, i) ==
    IF IsNormal(v) THEN Do(s, Gives(v))
    ELSE DoUnder(s, ForceJ(NfFields(v)[i]), <<FieldK(v, i), NfF>>)

(* The strict arguments in order, then the deep ones, then the operation:  *)
(* its value goes through the contexts it asks for.                        *)
Arg(w, s, j) ==
    LET op == OpTable[j.i]
        left == (IF j.deep THEN op.deep ELSE op.strict) \cap j.from..op.argc
        k == Min(left)
        a == j.a
        n == Coerce(a[2])
        result == OpBody(j.i, j.name, a, <<>>)
    IN  IF left # {} THEN DoUnder(s, ForceJ(a[k]), <<ArgK(j, k)>> \o IF j.deep THEN <<NfF>> ELSE <<>>)
        ELSE IF ~j.deep THEN Do(s, ArgJ(j.i, j.name, a, TRUE, 1))
        ELSE CASE op.f = "Try" -> DoUnder(s, ForceJ(a[1]), <<TryK, NfF, ApplyF(a[2])>>)
               [] op.f = "Memo" -> DoUnder(s, ForceJ(a[1]), <<ApplyF(a[2])>>)
               [] op.f = "Row" -> Do(s, Gives(IF n = 0 THEN Num(Coerce(a[1]))
                                              ELSE App(Num(Coerce(a[1])), RowOf(n, a[3]))))
               [] op.coord -> Do(s, IF result.t = "val" /\ w.serves THEN Gives(w.answer[op.f])
                                    ELSE Fails)
               [] OTHER -> IF result.t = "val" THEN DoUnder(s, ForceJ(result.v), result.push)
                           ELSE Do(s, result)

Primop(w, s, set, row) ==
    LET i == OpLookup(set, row[1], Len(row) - 1)
    IN  Do(s, IF i = 0 \/ (set >= 82 /\ ~w.rplan) THEN Fails
              ELSE ArgJ(i, row[1], Tail(row), FALSE, 1))

(* A value meets the innermost context.                                    *)
Resume(w, s, v, k) ==
    CASE k.k = "ix" -> Do(s, ForceJ(At(IF k.f = "Ix0" THEN 0 ELSE 1, v)))
      [] k.k = "expr" -> Do(s, ExprJ(k.env, v))
      [] k.k = "body" -> Do(s, BodyJ(k.env, v))
      [] k.k = "operand" -> Do(s, ApplyJ(v, Clo(k.env, k.x)))
      [] k.k = "prim" -> Primop(w, s, k.set, Unapp(v))
      [] k.k = "field" -> Do(s, IF k.i = Len(NfFields(k.v)) THEN Gives(NfWriteback(k.v, k.i, v))
                                ELSE FieldJ(NfWriteback(k.v, k.i, v), k.i + 1))
      [] k.k = "arg" -> Do(s, [k.job EXCEPT !.a[k.at] = v, !.from = k.at + 1])
      [] k.k = "try" -> Do(s, Gives(App(Zero, <<v>>)))
      [] k.k = "APPLY" -> Do(s, ApplyJ(v, k.b))
      [] k.k = "SEQ" -> Do(s, ForceJ(k.b))
      [] k.k = "NF" -> Do(s, FieldJ(v, 1))
      [] k.k = "NIL" -> Do(s, Gives(Truth(v = Zero)))

(* An exception meets the innermost Try, or ends the run.                  *)
Unwind(s) ==
    LET tries == {i \in DOMAIN s.ks : s.ks[i].k = "try"}
    IN  IF tries = {} THEN [s EXCEPT !.ks = <<>>]
        ELSE [c |-> Gives(App(One, <<s.c.v>>)), ks |-> SubSeq(s.ks, 1, Max(tries) - 1)]

Step(w, s) ==
    LET j == s.c
    IN  CASE j.t = "val" -> Resume(w, [s EXCEPT !.ks = Front(s.ks)], j.v, s.ks[Len(s.ks)])
          [] j.t = "exn" -> Unwind(s)
          [] j.t = "job" ->
               CASE j.do = "force" -> Force(s, j.v)
                 [] j.do = "expr" -> Expr(s, j.env, j.x)
                 [] j.do = "body" -> Body(s, j.env, j.x)
                 [] j.do = "apply" -> Apply(s, j.f, j.x)
                 [] j.do = "field" -> Field(s, j.v, j.i)
                 [] j.do = "arg" -> Arg(w, s, j)

(* 2^n steps, or as many as there are.                                     *)
RECURSIVE Steps(_, _, _)
Steps(w, n, s) ==
    IF s.c.t = "err" \/ (s.c.t # "job" /\ s.ks = <<>>) THEN s
    ELSE IF n = 0 THEN Step(w, s) ELSE Steps(w, n - 1, Steps(w, n - 1, s))

(* The normal form of an expression over an environment.  w: the world:    *)
(* whether the rplan operations are enabled, whether somebody answers a    *)
(* request, and the answers.                                               *)
Meaning(w, bound, slots, x) ==
    LET s == Steps(w, bound, [c |-> ExprJ([args |-> slots, binds |-> <<>>], x), ks |-> <<NfF>>])
    IN  IF s.c.t = "job" \/ s.ks # <<>> THEN Fails ELSE s.c
=============================================================================
