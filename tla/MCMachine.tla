----------------------------- MODULE MCMachine -----------------------------
(***************************************************************************)
(* The evaluator on programs chosen so that every label of it runs: each   *)
(* as an expression, and its laws both interpreted and compiled.  The      *)
(* compiled code below is what a law's compiler returned, the machine runs *)
(* what Ingest makes of it.                                                *)
(***************************************************************************)
EXTENDS Machine, Ingest, PlanSemantics


-----------------------------------------------------------------------------
(* Expressions.                                                            *)
V(i) == Num(i)
Q(v) == App(Zero, <<v>>)
N(n) == Q(Num(n))
Call(f, x) == App(Zero, <<f, x>>)
RECURSIVE Calls(_, _)
Calls(f, xs) == IF xs = <<>> THEN f ELSE Calls(Call(f, Head(xs)), Tail(xs))
LetIn(v, k) == App(One, <<v, k>>)
OpX(set, f, xs) == Call(Pin(Num(set)), Calls(Mote(set, f), xs))
P(f, xs) == OpX(66, f, xs)
RowX(xs) == Calls(N(0), xs)

(* Instructions.                                                           *)
PV(i) == [o |-> "PUSH_VAR", i |-> i]
PL(v) == [o |-> "PUSH_LIT", v |-> v]
PS(i) == [o |-> "PUSH_SLOT", i |-> i]
FO == [o |-> "FORCE"]
RT == [o |-> "RET"]
EN(strict) == [o |-> "ENTRY", strict |-> strict]
BR(ts) == [o |-> "BR", targets |-> ts]
JM(t) == [o |-> "JMP", targets |-> <<t>>]
CL(n, t) == [o |-> "CALL", n |-> n, targets |-> <<t>>]
TB(n, t) == [o |-> "TAILBLK", n |-> n, targets |-> <<t>>]
IT(x) == [o |-> "INTERP", v |-> x]
MA(n) == [o |-> "MK_APP", n |-> n]
MT(n, bane) == [o |-> "MK_THK", n |-> n, bane |-> bane, noupd |-> FALSE]
MN(n, bane) == [o |-> "MK_THK", n |-> n, bane |-> bane, noupd |-> TRUE]
MK(n, f) == [o |-> "MK_THK", n |-> n, bane |-> "KNOWN", noupd |-> FALSE, set |-> 66,
             name |-> Mote(66, f)]
CK(n, set, f) == [o |-> "CALL_KNOWN", n |-> n, set |-> set, name |-> Mote(set, f)]
CF(n) == [o |-> "CALL_FAST", n |-> n]
CS(n) == [o |-> "CALL_SLOW", n |-> n]
LB(law, t) == [o |-> "LAWBLK", law |-> law, target |-> t]

-----------------------------------------------------------------------------
(* count n = if n is 0 then 0 else 1 + count (n - 1), with a checked       *)
(* prologue: every thunk of it becomes a call.                             *)
CountLaw ==
    Law(1, Num(1), P("If", <<V(1), P("Inc", <<Call(V(0), P("Dec", <<V(1)>>))>>), N(0)>>))
CountRaw ==
    << PV(1), FO, JM(6), EN({1}), PV(1),
       PS(0), CK(1, 66, "Nil"), BR(<<9, 15>>),
       PV(0), PS(0), MK(1, "Dec"), MT(2, "FAST"), MK(1, "Inc"), RT,
       PL(Zero), RT >>

(* sum n acc = if n is 0 then acc + 0 else sum (n - 1) (acc + n), a loop   *)
(* over a local block.                                                     *)
SumLaw ==
    Law(2, Num(2), P("If", <<V(1), Calls(V(0), <<P("Dec", <<V(1)>>), P("Add", <<V(2), V(1)>>)>>),
                             P("Add", <<V(2), N(0)>>)>>))
SumRaw ==
    << PV(1), FO, PV(2), FO, TB(2, 6),
       PS(0), CK(1, 66, "Nil"), BR(<<9, 15>>),
       PS(0), CK(1, 66, "Dec"), PS(1), PS(0), CK(2, 66, "Add"), TB(2, 6),
       PS(1), PL(Zero), MK(2, "Add"), RT >>

(* twice x = sq x + sq 3 with a local block for the law sq.                *)
SqLaw == Law(1, Num(3), P("Mul", <<V(1), V(1)>>))
TwiceLaw == Law(1, Num(4), P("Add", <<Call(Q(SqLaw), V(1)), Call(Q(SqLaw), N(3))>>))
TwiceRaw ==
    << PV(1), CL(1, 8), PL(SqLaw), PL(Num(3)), CS(1), CK(2, 66, "Add"), RT,
       PS(0), PS(0), MK(2, "Mul"), RT, LB(SqLaw, 8) >>

(* ones x = let xs = [x, xs] in the head of its tail: a cyclic value; the  *)
(* compiled form reads the bound variable.                                 *)
OnesLaw ==
    Law(1, Num(5), LetIn(RowX(<<V(1), V(2)>>), P("Ix0", <<P("Ix1", <<V(2)>>)>>)))
OnesRaw == << PV(2), MK(1, "Ix1"), MK(1, "Ix0"), RT >>

(* loop x = let y = y + x in y: needs itself.                              *)
LoopLaw == Law(1, Num(6), LetIn(P("Add", <<V(2), V(1)>>), V(2)))

(* pair x = [try throws x, try throws x]: the shared thunk raises twice.   *)
IdLaw == Law(1, Num(7), V(1))
IdRaw == << PV(1), RT >>
PairLaw ==
    Law(1, Num(8), LetIn(P("Throw", <<P("Inc", <<V(1)>>)>>),
                         RowX(<<P("Try", <<Pin(IdLaw), V(2)>>), P("Try", <<Pin(IdLaw), V(2)>>)>>)))
CatchLaw ==
    Law(1, Num(9), Call(Q(Law(1, Num(10), RowX(<<P("Try", <<Pin(IdLaw), V(1)>>),
                                                 P("Try", <<Pin(IdLaw), V(1)>>)>>))),
                        Call(Pin(IdLaw), P("Throw", <<P("Inc", <<V(1)>>)>>))))
CatchRaw ==
    << PL(Pin(IdLaw)), PV(1), MK(1, "Inc"), MK(1, "Throw"), MT(2, "FAST"),
       PL(Zero), PL(Pin(IdLaw)), PS(0), MK(2, "Try"),
       PL(Pin(IdLaw)), PS(0), MK(2, "Try"), MA(2), RT >>

(* Hints that are right, wrong and absent, for thunks and for calls.       *)
KLaw == Law(2, Num(11), V(1))
KRaw == << EN({1}), PV(1), RT >>
HintLaw ==
    Law(1, Num(12),
        RowX(<<Calls(Pin(KLaw), <<Pin(IdLaw), V(1), N(5)>>), Calls(Pin(KLaw), <<N(6), V(1)>>),
               Calls(Pin(KLaw), <<Pin(IdLaw), V(1), N(7)>>), V(1)>>))
HintRaw ==
    << PL(Zero),
       PL(Pin(KLaw)), PL(Pin(IdLaw)), PV(1), PL(Num(5)), CF(3),
       PL(Pin(KLaw)), PL(Num(6)), PV(1), MT(3, "FAST"),
       PL(Pin(KLaw)), PL(Pin(IdLaw)), PV(1), PL(Num(7)), MT(4, "FAST"),
       PV(1), MT(1, "SLOW"), MA(4), RT >>

PrimLaw ==
    Law(1, Num(20),
        RowX(<<P("Inc", <<V(1)>>), Call(Pin(IdLaw), N(8)), Call(Pin(KLaw), V(1)),
               Calls(Pin(KLaw), <<N(9), V(1)>>)>>))
PrimRaw ==
    << PL(Zero),
       PL(Pin(Num(66))), PL(Mote(66, "Inc")), PV(1), MA(1), MT(2, "PRIM"),
       PL(Pin(IdLaw)), PL(Num(8)), MT(2, "PRIM"),
       PL(Pin(KLaw)), PV(1), MN(2, "SLOW"),
       PL(Pin(KLaw)), PL(Num(9)), PV(1), MT(3, "SLOW"), FO,
       MA(4), RT >>

(* The same in tail position, one arm for each.                            *)
TailLaw ==
    Law(1, Num(13),
        P("Case4", <<V(1), Calls(Pin(KLaw), <<N(4), V(1)>>),
                     Calls(Pin(KLaw), <<Pin(IdLaw), V(1), N(5)>>),
                     P("Add", <<N(2), V(1)>>), Call(Pin(IdLaw), V(1))>>))
TailRaw ==
    << PV(1), FO, BR(<<4, 9, 15, 22>>),
       PL(Pin(KLaw)), PL(Num(4)), PV(1), MT(3, "FAST"), RT,
       PL(Pin(KLaw)), PL(Pin(IdLaw)), PV(1), PL(Num(5)), MT(4, "FAST"), RT,
       PL(Pin(Num(66))), PL(Mote(66, "Add")), PL(Num(2)), PV(1), MA(2), MT(2, "PRIM"), RT,
       PL(Pin(IdLaw)), PV(1), MT(2, "PRIM"), RT >>

EndLaw ==
    Law(1, Num(21),
        P("Case4", <<V(1), V(1), Calls(Pin(KLaw), <<V(1), N(7)>>), P("Cmp", <<V(1), N(3)>>),
                     V(1)>>))
EndRaw ==
    << PV(1), FO, BR(<<4, 7, 12, 16>>),
       PV(1), MT(1, "SLOW"), RT,
       PL(Pin(KLaw)), PV(1), PL(Num(7)), MT(3, "SLOW"), RT,
       PV(1), PL(Num(3)), MK(2, "Cmp"), RT,
       IT(V(1)), RT >>

(* A law made at run time, its body's parts still unevaluated.             *)
Late(e) == Call(Pin(IdLaw), Q(e))
DynLaw ==
    Law(1, Num(14),
        Call(P("Law", <<N(0), N(0),
                        Calls(N(1), <<Late(V(1)),
                                      Call(Pin(IdLaw), Calls(N(0), <<Late(Pin(Num(66))),
                                                                     Late(Calls(Mote(66, "Inc"), <<V(2)>>))>>))>>)>>),
             V(1)))

(* The operations that push frames, and the cache.                         *)
UnpinLaw == Law(1, Num(15), P("Inc", <<P("Unpin", <<V(1)>>)>>))
OpsLaw ==
    Law(1, Num(16),
        RowX(<<P("Row", <<N(3), N(2), RowX(<<V(1), RowX(<<N(2), N(0)>>)>>)>>),
               P("Nor", <<N(0), P("Dec", <<N(1)>>)>>),
               P("DeepSeq", <<RowX(<<P("Inc", <<V(1)>>)>>), N(4)>>),
               P("Sap2", <<Pin(KLaw), V(1), N(5)>>),
               P("Elim", <<N(0), N(0), Pin(KLaw), N(0), Pin(IdLaw), RowX(<<N(1), N(2)>>)>>),
               P("Equal", <<RowX(<<P("Inc", <<V(1)>>)>>), RowX(<<N(3)>>)>>),
               P("Trace", <<N(0), P("Force", <<RowX(<<V(1)>>)>>)>>),
               P("Pin", <<P("Dec", <<V(1)>>)>>)>>))
MemoLaw ==
    Law(1, Num(17),
        P("Add", <<P("Memo", <<Pin(UnpinLaw), Q(Pin(Num(4)))>>),
                   P("Memo", <<Pin(UnpinLaw), Q(Pin(Num(4)))>>)>>))

(* Coordination: two requests, one from compiled code.                     *)
AskLaw ==
    Law(1, Num(18), P("Seq", <<OpX(82, "Send", <<V(1), RowX(<<P("Inc", <<V(1)>>)>>)>>),
                               RowX(<<OpX(82, "Recv", <<N(0)>>), V(1)>>)>>))
AskRaw ==
    << PV(1), PL(Zero), PV(1), MK(1, "Inc"), MA(1), CK(2, 82, "Send"),
       PL(Zero), PL(Pin(Num(82))), PL(Mote(82, "Recv")), PL(Zero), MA(1), MT(2, "PRIM"),
       PV(1), MA(2), RT >>

(* The hole of a compiled thunk: it is forced again by what it forces.     *)
SelfLaw ==
    Law(1, Num(19), LetIn(Call(Pin(IdLaw), Call(Pin(IdLaw), V(2))), V(2)))

-----------------------------------------------------------------------------
Compiled ==
    << [law |-> CountLaw, raw |-> CountRaw], [law |-> SumLaw, raw |-> SumRaw],
       [law |-> TwiceLaw, raw |-> TwiceRaw], [law |-> OnesLaw, raw |-> OnesRaw],
       [law |-> IdLaw, raw |-> IdRaw], [law |-> CatchLaw, raw |-> CatchRaw],
       [law |-> KLaw, raw |-> KRaw], [law |-> HintLaw, raw |-> HintRaw],
       [law |-> TailLaw, raw |-> TailRaw], [law |-> AskLaw, raw |-> AskRaw],
       [law |-> PrimLaw, raw |-> PrimRaw], [law |-> EndLaw, raw |-> EndRaw] >>

(* The programs: the expression each runs over the environment <<0>>, and  *)
(* which of the compiled laws it meets.                                    *)
On(law, n, uses) == [x |-> Call(Pin(law), N(n)), uses |-> uses, rplan |-> FALSE, abandon |-> FALSE]
Just(x, uses) == [x |-> x, uses |-> uses, rplan |-> FALSE, abandon |-> FALSE]

Cases ==
    { Just(Call(Pin(CountLaw), P("Inc", <<N(1)>>)), {1}), Just(N(3), {}),
      Just(Call(Q(Law(1, Num(22), Pin(Num(66)))), P("Try", <<Pin(IdLaw), N(3)>>)), {5}),
      Just(P("Try", <<Pin(IdLaw), Calls(Pin(KLaw), <<P("Inc", <<N(3)>>), N(4)>>)>>), {5, 7}), Just(Calls(Pin(SumLaw), <<N(2), P("Inc", <<N(1)>>)>>), {2}),
      On(TwiceLaw, 2, {3}), On(OnesLaw, 4, {4}), On(LoopLaw, 1, {}), On(PairLaw, 2, {5}),
      On(CatchLaw, 2, {5, 6}), On(HintLaw, 3, {5, 7, 8}), On(PrimLaw, 3, {5, 7, 11}),
      On(DynLaw, 4, {5}), On(OpsLaw, 2, {}), On(MemoLaw, 2, {}), On(SelfLaw, 1, {5}),
      Just(P("Div", <<N(1), N(0)>>), {}), On(AskLaw, 1, {10}),
      [On(AskLaw, 1, {10}) EXCEPT !.rplan = TRUE, !.abandon = TRUE],
      [Just(OpX(82, "Spawn", <<P("Try", <<Pin(IdLaw), P("Throw", <<N(3)>>)>>)>>), {5})
         EXCEPT !.rplan = TRUE] }
    \cup {On(TailLaw, n, {7, 9}) : n \in 0..3} \cup {On(EndLaw, n, {7, 12}) : n \in 0..3}

Answer == [f \in {"Spawn", "Send", "Recv"} |->
             CASE f = "Spawn" -> Num(9) [] f = "Send" -> Zero [] f = "Recv" -> App(Zero, <<One>>)]

(* The request's head is the operation's name, or its row when the call    *)
(* was resolved at ingest; the executor accepts both (er_op_is).           *)
MCRespond(request) ==
    LET n == request.f.n
    IN  Answer[OpTable[IF n <= Len(OpTable) THEN n ELSE n - MoteBase].f]

Bound == 10

Masks == {[law |-> c.law, strict |-> StrictOf(c.raw)] : c \in Range(Compiled)}

MCPrograms ==
    {LET uses == SetToSeq(c.uses)
         meaning(serves) == Meaning([rplan |-> c.rplan, serves |-> serves, answer |-> Answer],
                                   Bound, <<Zero>>, c.x)
     IN  [root |-> Ref(2), heap |-> <<Env(<<Zero>>), Thunk(1, c.x)>>,
          rplan |-> c.rplan, abandon |-> c.abandon,
          codes |-> Seqn(Len(uses), LAMBDA i :
                           CHOOSE code \in FromVal(Compiled[uses[i]].law, Compiled[uses[i]].raw,
                                                   Masks) : TRUE),
          host |-> meaning(FALSE), executor |-> meaning(TRUE)] : c \in Cases}

-----------------------------------------------------------------------------
(* Whatever the quantum, whichever laws run compiled, and on a second run  *)
(* over the heap the first left behind (after an exception or an abandoned *)
(* request too), a run ends as the semantics says: with the same normal    *)
(* form, the same exception, or an error (eval.c, bytecode.c).             *)
ResultMatches ==
    LET r == IF quantum = 0 THEN prog.host ELSE prog.executor
    IN  m.at = "host" =>
          CASE m.status = "done" -> r.t = "val" /\ Plain(heap, m.result) = Plain(<<>>, r.v)
            [] m.status = "exn" -> /\ m.exn.t = r.t
                                   /\ r.t = "exn" => Plain(heap, m.exn.v) = Plain(<<>>, r.v)
            [] OTHER -> TRUE

(* Every thunk that is being evaluated is owned by exactly one update      *)
(* frame, which will overwrite it or give it back; the merged update       *)
(* frames partition the update stack in order; nothing stays behind when   *)
(* a run has ended (pl_push_thke_update, pl_unwind_frames).                *)
HolesOwned ==
    LET holes == {c \in DOMAIN heap : heap[c].k = "bh" \/ (heap[c].k = "thke" /\ heap[c].hole)}
        upd == SelectSeq(m.fs, LAMBDA fr : fr.k = "UPD")
        many == SelectSeq(upd, LAMBDA fr : fr.argc > 1)
        owned == [i \in DOMAIN m.fs |-> IF m.fs[i].k = "UPDATE" THEN {m.fs[i].a}
                                        ELSE IF m.fs[i].k = "UPD" THEN UpdTargets(m.fs[i], m.us)
                                        ELSE {}]
    IN  /\ holes = UNION Range(owned)
        /\ \A i, j \in DOMAIN m.fs : i # j => owned[i] \cap owned[j] = {}
        /\ \A i \in DOMAIN many :
             many[i].argbase = IF i = 1 THEN 0 ELSE many[i - 1].argbase + many[i - 1].argc - 1
        /\ Len(m.us) = IF many = <<>> THEN 0
                       ELSE LET top == many[Len(many)] IN top.argbase + top.argc - 1
        /\ Ended => m.fs = <<>> /\ m.vs = <<>>

(* Every run ends, however small the quantum: a suspension never undoes    *)
(* the progress made since the last one (pl_yield_now, pl_thread_run).     *)
Terminates == <>(Ended /\ runs = MaxRuns)
=============================================================================
