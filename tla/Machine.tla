------------------------------ MODULE Machine ------------------------------
(***************************************************************************)
(* The PLAN evaluator (eval.c): a trampoline over a value stack, a frame   *)
(* stack and the update stack, entered by an executor for a quantum of     *)
(* fuel at a time (pl_thread_run) or once, with inert fuel, by the host    *)
(* (pl_nf).  One action per label of pl_run: those that evaluate (eval,    *)
(* the defer kinds, eval_expr), those that deliver a value to the top      *)
(* frame (ret_...), those that enter a law or a primop, and one for each   *)
(* bytecode instruction (x_...).  A computed goto is the field at; the     *)
(* labels' C locals are fields of the same record m.                       *)
(*                                                                         *)
(* Offsets into the stacks are the code's, counted from 0.  The bytecode   *)
(* cursor is kept in the frame throughout (the code writes it back, XSYNC, *)
(* at every exit that leaves the frame live).  An instruction is a record, *)
(* and a pc is its position in the code, from 1.                           *)
(*                                                                         *)
(* No object moves and none is freed here: Gc2Heap models collection.      *)
(***************************************************************************)
EXTENDS PlanOps, FiniteSetsExt

CONSTANTS Programs,     \* the values to run: a set of records with the root, its heap,
                        \* the decoded code objects of the laws it meets, whether the
                        \* rplan operations are on and a request may be abandoned
          Quanta,       \* the fuel an executor grants; 0: a host entry
          MaxRuns,      \* how often the root is evaluated on the same heap
          MaxPending,   \* demands that find the compile pending elsewhere
          Respond(_)    \* what the executor answers a coordination request

ASSUME MachineAssumption ==
    /\ Quanta \subseteq Nat \ {1}
    /\ MaxRuns \in Nat /\ MaxPending \in Nat

VARIABLES m,            \* the thread: the machine's registers, stacks, suspension
          heap,         \* its private heap, a sequence of cells
          pub,          \* per code object: "absent", "published" or "none"
          memo,         \* the machine-global cache of op Memo
          prog,         \* the program of this behaviour
          quantum, runs, pending

vars == <<m, heap, pub, memo, prog, quantum, runs, pending>>

Inert == 100000         \* UINT64_MAX: fuel that never runs out

-----------------------------------------------------------------------------
(* The stacks.                                                             *)
Vsp == Len(m.vs)
Slot(i) == m.vs[i + 1]
CutVs(n) == SubSeq(m.vs, 1, n)
SliceVs(i, n) == SubSeq(m.vs, i + 1, i + n)
TopFrame == m.fs[Len(m.fs)]
SetTop(fr) == [m.fs EXCEPT ![Len(m.fs)] = fr]
Ops(fr) == prog.codes[fr.code].ops
NewCell == Len(heap) + 1

UpdateF(c, x) == [k |-> "UPDATE", a |-> c, b |-> x]
UpdF(c, argbase, argc) == [k |-> "UPD", a |-> c, argbase |-> argbase, argc |-> argc]
KalF(env) == [k |-> "KAL", a |-> env]
KappF(env, x, i, argbase) ==
    [k |-> "KAPP", a |-> env, b |-> x, i |-> i, argbase |-> argbase]
OpentF(opset) == [k |-> "OPENT", opset |-> opset]
OpF(k, op, argbase, argc, i) ==
    [k |-> k, op |-> op, argbase |-> argbase, argc |-> argc, i |-> i]
NfobjF(v, i) == [k |-> "NFOBJ", a |-> v, i |-> i]
ExecF(k, a, b, argc, code, pc, argbase) ==
    [k |-> k, a |-> a, b |-> b, argc |-> argc, code |-> code, pc |-> pc,
     argbase |-> argbase]
TryF(argbase) == [k |-> "TRY", argbase |-> argbase]
JudgeF(argbase, argc) == [k |-> "JUDGE", argbase |-> argbase, argc |-> argc]
ApplynF(argbase, argc) == [k |-> "APPLYN", argbase |-> argbase, argc |-> argc]
MemoF(f, x, epoch) == [k |-> "MEMO", a |-> f, b |-> x, epoch |-> epoch]

(* Where a value that leaves an execution frame belongs: a stack-resident  *)
(* entry owns its [head, args...] group too.                               *)
FrameBase(fr) == IF fr.k = "EXECV" THEN fr.b ELSE fr.argbase

-----------------------------------------------------------------------------
(* Fuel.  A safepoint takes a step and suspends when it was the last one;  *)
(* a host entry never suspends (pl_yield_now re-arms it).                  *)
ExhaustedEarly == m.fuel <= 2 /\ m.suspendable
Exhausted == m.fuel = 1 /\ m.suspendable
Spent == [m EXCEPT !.fuel = IF @ = 1 THEN Inert ELSE @ - 1]
Goto(label) == [Spent EXCEPT !.at = label]

(* Leaving the trampoline: pl_run's return and the end of pl_thread_run.   *)
Leave(mm, status) ==
    [mm EXCEPT !.at = "host", !.status = status, !.suspendable = FALSE, !.fuel = Inert]

Suspend(mm, kind, v) ==
    m' = [Leave(mm, "yielded") EXCEPT !.resume = [kind |-> kind, v |-> v]]

RaiseTo(mm, outcome) == [mm EXCEPT !.at = "raise", !.exn = outcome]
Raise(outcome) == m' = RaiseTo(m, outcome)

(* Most steps only move the machine.                                       *)
World == <<pub, memo, prog, quantum, runs, pending>>

-----------------------------------------------------------------------------
(* eval: the safepoint, then the kind of the deferred object.              *)
EvalYield ==
    /\ m.at = "eval" /\ Exhausted
    /\ Suspend(m, "EVAL", m.v)
    /\ UNCHANGED <<heap, World>>

EvalWhnf ==
    /\ m.at = "eval" /\ ~Exhausted /\ IsWhnf(m.v)
    /\ m' = Goto("ret")
    /\ UNCHANGED <<heap, World>>

Deferred(kind) == m.at = "eval" /\ ~Exhausted /\ ~IsWhnf(m.v) /\ heap[m.v.c].k = kind

DeferInd ==
    /\ Deferred("ind")
    /\ m' = [Spent EXCEPT !.v = heap[m.v.c].v]
    /\ UNCHANGED <<heap, World>>

DeferHole ==
    /\ Deferred("bh")
    /\ Raise(Fails)
    /\ UNCHANGED <<heap, World>>

DeferThunk ==
    /\ Deferred("thunk")
    /\ LET cell == heap[m.v.c]
       IN  /\ heap' = [heap EXCEPT ![m.v.c] = Hole(cell.env)]
           /\ m' = [Goto("expr") EXCEPT !.fs = Append(@, UpdateF(m.v.c, cell.x)),
                                        !.env = cell.env, !.x = cell.x]
    /\ UNCHANGED World

(* pl_push_thke_update: consecutive updates share one frame, the further   *)
(* targets a suffix of the update stack.                                   *)
PushThkeUpdate(mm, c) ==
    IF mm.fs # <<>> /\ mm.fs[Len(mm.fs)].k = "UPD"
    THEN LET fr == mm.fs[Len(mm.fs)]
         IN  [mm EXCEPT !.us = Append(@, c),
                        !.fs[Len(mm.fs)] =
                            IF fr.argc = 1 THEN UpdF(fr.a, Len(mm.us), 2)
                            ELSE [fr EXCEPT !.argc = @ + 1]]
    ELSE [mm EXCEPT !.fs = Append(@, UpdF(c, 0, 1))]

DeferThke ==
    /\ Deferred("thke")
    /\ LET c == m.v.c
       IN  IF heap[c].noupd
           THEN m' = Goto("thke") /\ UNCHANGED heap
           ELSE IF heap[c].hole
           THEN Raise(Fails) /\ UNCHANGED heap
           ELSE /\ heap' = [heap EXCEPT ![c].hole = TRUE]
                /\ m' = PushThkeUpdate(Goto("thke"), c)
    /\ UNCHANGED World

-----------------------------------------------------------------------------
(* The code of a law head.  pl_pin_code reads what is published;           *)
(* pl_law_code also demands it: the compile may have nothing to attach,    *)
(* for good, or be pending elsewhere.                                      *)
IsLawPin(v) == IsPin(v) /\ v.s /\ IsLaw(v.v)

CodeIndex(law) ==
    LET found == {c \in DOMAIN prog.codes : prog.codes[c].law = law}
    IN  IF found = {} THEN 0 ELSE CHOOSE c \in found : TRUE

PublishedCode(v) ==
    LET c == IF IsLawPin(v) THEN CodeIndex(v.v) ELSE 0
    IN  IF c # 0 /\ pub[c] = "published" THEN c ELSE 0

LawCode(v) ==
    LET c == IF IsLawPin(v) THEN CodeIndex(v.v) ELSE 0
    IN  CASE c = 0 -> {[code |-> 0, pub |-> pub, pending |-> pending]}
          [] c # 0 /\ pub[c] = "published" -> {[code |-> c, pub |-> pub, pending |-> pending]}
          [] c # 0 /\ pub[c] = "none" -> {[code |-> 0, pub |-> pub, pending |-> pending]}
          [] c # 0 /\ pub[c] = "absent" ->
               {[code |-> c, pub |-> [pub EXCEPT ![c] = "published"], pending |-> pending],
                [code |-> 0, pub |-> [pub EXCEPT ![c] = "none"], pending |-> pending]}
               \cup {[code |-> 0, pub |-> pub, pending |-> p] :
                        p \in {pending + 1} \cap 1..MaxPending}

Looked(d) == pub' = d.pub /\ pending' = d.pending

(* pl_exact_law: a law, or a pinned law, of exactly this arity.            *)
ExactLaw(head, arity) ==
    LET c == IF IsWhnf(head) THEN PublishedCode(head) ELSE 0
    IN  IF c # 0 /\ prog.codes[c].arity # 0 THEN prog.codes[c].arity = arity
        ELSE \/ IsPin(head) /\ IsLaw(head.v) /\ head.v.a = arity
             \/ IsLaw(head) /\ head.a = arity

(* pl_strict_entry: past the checked prologue when every strict argument   *)
(* is a value, indirections resolved in place up to the first that is not. *)
StrictEntryUnchecked(c, args) ==
    [pc |-> IF prog.codes[c].strict = {} THEN 1 ELSE prog.codes[c].entry, args |-> args]

StrictEntry(c, args) ==
    LET strict == prog.codes[c].strict
        value(i) == IsWhnf(Resolve(heap, args[i]))
        usable == strict # {} /\ strict \subseteq DOMAIN args
    IN  [pc |-> IF usable /\ \A i \in strict : value(i) THEN prog.codes[c].entry ELSE 1,
         args |-> [i \in DOMAIN args |->
                     IF usable /\ i \in strict /\ \A j \in strict : j <= i => value(j)
                     THEN Resolve(heap, args[i]) ELSE args[i]]]

(* Enter code with the group [head, args...] left in place on the stack.   *)
EnterStack(c, hb, argc) ==
    LET e == StrictEntry(c, SliceVs(hb + 1, argc))
    IN  [m EXCEPT !.at = "exec", !.jcode = 0,
                  !.vs = CutVs(hb + 1) \o e.args,
                  !.fs = Append(@, ExecF("EXECV", 0, hb, argc + 1, c, e.pc, hb + 1 + argc))]

-----------------------------------------------------------------------------
(* eval_thke_v: enter a bytecode thunk by its bane.  FAST is verified; an  *)
(* unverified one is applied like a SLOW one.                              *)
RplanGate(op) == OpTable[op].set >= 82 /\ ~prog.rplan

IsOpPin(v) == IsPin(v) /\ IsNat(v.v)

ThkeArgs == heap[m.v.c].args
ThkeBane == heap[m.v.c].bane
ThkeIsSlow ==
    \/ ThkeBane = "SLOW"
    \/ ThkeBane = "FAST" /\ ~ExactLaw(ThkeArgs[1], Len(ThkeArgs) - 1)
    \/ ThkeBane = "PRIM" /\ ~(Len(ThkeArgs) = 2 /\ IsOpPin(ThkeArgs[1]))

ThkeFast ==
    /\ m.at = "thke" /\ ThkeBane = "FAST" /\ ~ThkeIsSlow
    /\ m' = [m EXCEPT !.at = "judge", !.hb = Vsp, !.vs = @ \o ThkeArgs,
                      !.argc = Len(ThkeArgs) - 1, !.jcode = PublishedCode(ThkeArgs[1])]
    /\ UNCHANGED <<heap, World>>

ThkeKnown ==
    /\ m.at = "thke" /\ ThkeBane = "KNOWN"
    /\ LET op == ThkeArgs[1].n
       IN  m' = IF RplanGate(op) THEN RaiseTo(m, Fails)
                ELSE [m EXCEPT !.at = "op_args", !.vs = @ \o ThkeArgs, !.op = op,
                               !.ob = Vsp + 1, !.argc = Len(ThkeArgs) - 1]
    /\ UNCHANGED <<heap, World>>

ThkePrim ==
    /\ m.at = "thke" /\ ThkeBane = "PRIM" /\ ~ThkeIsSlow
    /\ m' = [m EXCEPT !.at = "eval", !.v = ThkeArgs[2],
                      !.fs = Append(@, OpentF(ThkeArgs[1].v.n))]
    /\ UNCHANGED <<heap, World>>

ThkeSlow ==
    /\ m.at = "thke" /\ ThkeIsSlow
    /\ m' = IF Len(ThkeArgs) = 1 THEN [m EXCEPT !.at = "eval", !.v = ThkeArgs[1]]
            ELSE [m EXCEPT !.at = "eval", !.v = ThkeArgs[1],
                           !.vs = @ \o <<Zero>> \o Tail(ThkeArgs),
                           !.fs = Append(@, ApplynF(Vsp + 1, Len(ThkeArgs) - 1))]
    /\ UNCHANGED <<heap, World>>

-----------------------------------------------------------------------------
(* Bytecode.  Ins is the instruction under the top frame's cursor; a step  *)
(* that finds fewer operands than it needs raises.                         *)
Ins == Ops(TopFrame)[TopFrame.pc]
X(o) == m.at = "exec" /\ Ins.o \in o
Operands == Vsp - TopFrame.argbase
Advance(mm) == [mm EXCEPT !.fs[Len(mm.fs)].pc = @ + 1]
Jump(mm, target) == [mm EXCEPT !.fs[Len(mm.fs)].pc = target]
Peek(n) == SliceVs(Vsp - n, n)
Replace(n, v) == Append(CutVs(Vsp - n), v)

XPushVar ==
    /\ X({"PUSH_VAR"})
    /\ LET fr == TopFrame
           slots == IF fr.argc # 0 THEN SliceVs(fr.b, fr.argc) ELSE heap[fr.a].slots
       IN  m' = IF Ins.i >= Len(slots) THEN RaiseTo(m, Fails)
                ELSE Advance([m EXCEPT !.vs = Append(@, slots[Ins.i + 1])])
    /\ UNCHANGED <<heap, World>>

XPushLit ==
    /\ X({"PUSH_LIT"})
    /\ m' = Advance([m EXCEPT !.vs = Append(@, Ins.v)])
    /\ UNCHANGED <<heap, World>>

XPushSlot ==
    /\ X({"PUSH_SLOT"})
    /\ m' = IF Ins.i >= Operands THEN RaiseTo(m, Fails)
            ELSE Advance([m EXCEPT !.vs = Append(@, Slot(TopFrame.argbase + Ins.i))])
    /\ UNCHANGED <<heap, World>>

(* Cheap eagerness: what a known primop of direct nats, or a total field   *)
(* read of values, computes is computed now.                               *)
Speculated(ins) ==
    LET a == Peek(ins.n)
        w == [i \in DOMAIN a |-> Resolve(heap, a[i])]
        strict == OpTable[ins.op].strict
        body == OpBody(ins.op, Zero, w, heap)
    IN  CASE ins.spec = "BODY" ->
               IF \A i \in strict : IsWhnf(w[i])
               THEN {OpBody(ins.op, Zero,
                            [i \in DOMAIN a |-> IF i \in strict THEN w[i] ELSE a[i]], heap).v}
               ELSE {}
          [] ins.spec = "NAT" ->
               IF \A i \in DOMAIN a : IsNat63(w[i])
               THEN {v \in {body.v} : IsNat63(v)} ELSE {}
          [] ins.spec = "NONE" -> {}

ThkeOf(ins, a) ==
    Thke(ins.bane, ins.noupd, IF ins.bane = "KNOWN" THEN <<Num(ins.op)>> \o a ELSE a)

XMkThk ==
    /\ X({"MK_THK"})
    /\ LET ready == IF Ins.bane = "KNOWN" THEN Speculated(Ins) ELSE {}
       IN  IF Ins.n > Operands THEN Raise(Fails) /\ UNCHANGED heap
           ELSE IF ready # {}
           THEN /\ m' = Advance([m EXCEPT !.vs = Replace(Ins.n, CHOOSE v \in ready : TRUE)])
                /\ UNCHANGED heap
           ELSE /\ heap' = Append(heap, ThkeOf(Ins, Peek(Ins.n)))
                /\ m' = Advance([m EXCEPT !.vs = Replace(Ins.n, Ref(NewCell))])
    /\ UNCHANGED World

XMkApp ==
    /\ X({"MK_APP"})
    /\ m' = IF Ins.n + 1 > Operands THEN RaiseTo(m, Fails)
            ELSE LET a == Peek(Ins.n + 1)
                 IN  Advance([m EXCEPT !.vs = Replace(Ins.n + 1, AppCat(a[1], Tail(a)))])
    /\ UNCHANGED <<heap, World>>

(* INTERP hands the body to the interpreter, under an environment made     *)
(* from the stack group when there is none yet (pl_exec_reify_env).        *)
XInterp ==
    /\ X({"INTERP"})
    /\ LET fr == TopFrame
           reify == fr.a = 0 /\ fr.argc # 0
           env == IF reify THEN NewCell ELSE fr.a
           fs == SetTop([fr EXCEPT !.a = env, !.pc = @ + 1])
       IN  /\ heap' = IF reify THEN Append(heap, Env(SliceVs(fr.b, fr.argc))) ELSE heap
           /\ m' = [m EXCEPT !.at = "expr", !.env = env, !.x = Ins.v, !.fs = fs]
    /\ UNCHANGED World

(* RET leaves the frame; a value skips the safepoint while fuel remains.   *)
Returned(mm, v) == [mm EXCEPT !.vs = CutVs(FrameBase(TopFrame)), !.fs = Front(@), !.v = v]

XRet ==
    /\ X({"RET", "RET_READY"})
    /\ m' = IF Operands = 0 THEN RaiseTo(m, Fails)
            ELSE LET v == Slot(Vsp - 1)
                 IN  IF m.fuel > 1 /\ (Ins.o = "RET_READY" \/ IsWhnf(v))
                     THEN [Returned(m, v) EXCEPT !.fuel = @ - 1, !.at = "ret"]
                     ELSE [Returned(m, v) EXCEPT !.at = "eval"]
    /\ UNCHANGED <<heap, World>>

XEntry ==
    /\ X({"ENTRY"})
    /\ m' = Advance(m)
    /\ UNCHANGED <<heap, World>>

XForce ==
    /\ X({"FORCE", "FORCE_READY"})
    /\ m' = IF Operands = 0 THEN RaiseTo(m, Fails)
            ELSE LET v == Slot(Vsp - 1)
                 IN  IF m.fuel > 1 /\ (Ins.o = "FORCE_READY" \/ IsWhnf(v))
                     THEN Advance([m EXCEPT !.fuel = @ - 1])
                     ELSE [Advance(m) EXCEPT !.vs = CutVs(Vsp - 1), !.v = v, !.at = "eval"]
    /\ UNCHANGED <<heap, World>>

(* A backward jump is a loop edge and takes a fuel step; it suspends with  *)
(* the jump already taken.                                                 *)
JumpTo(mm, target) ==
    IF target > TopFrame.pc THEN m' = Jump(mm, target)
    ELSE IF Exhausted THEN Suspend(Jump(mm, target), "RUN", Zero)
    ELSE m' = Jump([mm EXCEPT !.fuel = Spent.fuel], target)

XBr ==
    /\ X({"BR"})
    /\ LET scrut == Slot(Vsp - 1)
       IN  IF Operands = 0 THEN Raise(Fails)
           ELSE IF ~IsNat63(scrut) THEN Raise(Fails)
           ELSE IF scrut.n >= Len(Ins.targets) THEN Raise(Fails)
           ELSE JumpTo([m EXCEPT !.vs = CutVs(Vsp - 1)], Ins.targets[scrut.n + 1])
    /\ UNCHANGED <<heap, World>>

XJmp ==
    /\ X({"JMP"})
    /\ JumpTo(m, Ins.targets[1])
    /\ UNCHANGED <<heap, World>>

XTailblk ==
    /\ X({"TAILBLK"})
    /\ IF Ins.n > Operands THEN Raise(Fails)
       ELSE JumpTo([m EXCEPT !.vs = CutVs(TopFrame.argbase) \o Peek(Ins.n)], Ins.targets[1])
    /\ UNCHANGED <<heap, World>>

(* CALL of a local block: every call takes a fuel step, and a suspension   *)
(* re-executes the call.                                                   *)
XCall ==
    /\ X({"CALL"})
    /\ LET fr == TopFrame
       IN  IF Ins.n > Operands THEN Raise(Fails)
           ELSE IF Exhausted THEN Suspend(m, "RUN", Zero)
           ELSE m' = [Advance(Spent) EXCEPT
                        !.fs = Append(@, ExecF("EXEC", fr.a, fr.b, fr.argc, fr.code,
                                               Ins.targets[1], Vsp - Ins.n))]
    /\ UNCHANGED <<heap, World>>

(* Direct nats: three fuel steps at once (two arguments, the result), or   *)
(* the general path.  A tail entry also takes the thunk's step.            *)
NumericIns == {"ADD", "SUB", "CMP"}
NumericTail == {"TAIL_ADD", "TAIL_SUB", "TAIL_CMP"}

NumericResult ==
    LET x == Slot(Vsp - 2)
        y == Slot(Vsp - 1)
        v == NatOp(OpTable[Ins.op].f, <<x, y, Zero>>).v
    IN  IF IsNat63(x) /\ IsNat63(y) THEN {w \in {v} : IsNat63(w)} ELSE {}

NumericFast(steps) == Operands >= 2 /\ NumericResult # {} /\ m.fuel > steps

XNumeric ==
    /\ X(NumericIns) /\ NumericFast(3)
    /\ m' = Advance([m EXCEPT !.vs = Replace(2, CHOOSE v \in NumericResult : TRUE),
                              !.fuel = @ - 3])
    /\ UNCHANGED <<heap, World>>

XTailNumeric ==
    /\ X(NumericTail) /\ NumericFast(4)
    /\ m' = [Returned(m, CHOOSE v \in NumericResult : TRUE) EXCEPT !.fuel = @ - 4, !.at = "ret"]
    /\ UNCHANGED <<heap, World>>

(* Arguments known to be values are charged together, unless that would    *)
(* cross a safepoint.                                                      *)
DriveArgs(mm, op, ready) ==
    LET steps == Cardinality(OpTable[op].strict)
    IN  IF ready /\ mm.fuel > steps
        THEN [mm EXCEPT !.at = "op_ready", !.fuel = @ - steps]
        ELSE [mm EXCEPT !.at = "op_args"]

XCallKnown ==
    /\ X({"CALL_KNOWN", "CALL_READY"} \cup NumericIns)
    /\ Ins.o \in NumericIns => ~NumericFast(3)
    /\ m' = IF Ins.n > Operands \/ RplanGate(Ins.op) THEN RaiseTo(m, Fails)
            ELSE DriveArgs([Advance(m) EXCEPT
                              !.vs = CutVs(Vsp - Ins.n) \o <<Num(Ins.op)>> \o Peek(Ins.n),
                              !.op = Ins.op, !.ob = Vsp - Ins.n + 1, !.argc = Ins.n],
                           Ins.op, Ins.o = "CALL_READY")
    /\ UNCHANGED <<heap, World>>

XCallFast ==
    /\ X({"CALL_FAST"})
    /\ LET hb == Vsp - Ins.n - 1
           head == Slot(hb)
       IN  IF Ins.n + 1 > Operands THEN Raise(Fails)
           ELSE IF ~ExactLaw(head, Ins.n)
           THEN m' = [Advance(m) EXCEPT !.vs[hb + 1] = Zero, !.v = head, !.at = "eval",
                                        !.fs = Append(@, ApplynF(hb + 1, Ins.n))]
           ELSE IF Exhausted THEN Suspend(m, "RUN", Zero)
           ELSE m' = [Advance(Spent) EXCEPT !.at = "judge", !.hb = hb, !.argc = Ins.n,
                                            !.jcode = PublishedCode(head)]
    /\ UNCHANGED <<heap, World>>

XCallSlow ==
    /\ X({"CALL_SLOW"})
    /\ LET hb == Vsp - Ins.n - 1
       IN  m' = IF Ins.n + 1 > Operands THEN RaiseTo(m, Fails)
                ELSE [Advance(m) EXCEPT !.vs[hb + 1] = Zero, !.v = Slot(hb), !.at = "eval",
                                        !.fs = Append(@, ApplynF(hb + 1, Ins.n))]
    /\ UNCHANGED <<heap, World>>

(* A fused MK_THK+RET enters its application at the caller's place.  On    *)
(* the last fuel step, or with a wrong hint, it builds the thunk after     *)
(* all, so that the safepoint of eval finds a complete continuation.       *)
TailBase == FrameBase(TopFrame)
TailGroup == Peek(Ins.n)
TailX == X({"TAILCALL", "TAIL_READY"} \cup NumericTail) /\ (Ins.o \in NumericTail => ~NumericFast(4))

TailFallsBack ==
    \/ m.fuel = 1
    \/ Ins.bane = "FAST" /\ ~ExactLaw(TailGroup[1], Ins.n - 1)
    \/ Ins.bane = "PRIM" /\ ~(Ins.n = 2 /\ IsOpPin(TailGroup[1]))

TailStep == [m EXCEPT !.fuel = @ - 1, !.fs = Front(@)]

XTailFallback ==
    /\ TailX /\ TailFallsBack
    /\ heap' = Append(heap, ThkeOf(Ins, TailGroup))
    /\ m' = [m EXCEPT !.fuel = IF @ = 1 THEN 1 ELSE @ - 1, !.v = Ref(NewCell), !.at = "eval",
                      !.vs = CutVs(TailBase), !.fs = Front(@)]
    /\ UNCHANGED World

XTailFast ==
    /\ TailX /\ ~TailFallsBack /\ Ins.bane = "FAST"
    /\ m' = [TailStep EXCEPT !.at = "judge", !.vs = CutVs(TailBase) \o TailGroup,
                             !.hb = TailBase, !.argc = Ins.n - 1,
                             !.jcode = PublishedCode(TailGroup[1])]
    /\ UNCHANGED <<heap, World>>

XTailKnown ==
    /\ TailX /\ ~TailFallsBack /\ Ins.bane = "KNOWN"
    /\ m' = IF RplanGate(Ins.op) THEN RaiseTo(m, Fails)
            ELSE DriveArgs([TailStep EXCEPT
                              !.vs = CutVs(TailBase) \o <<Num(Ins.op)>> \o TailGroup,
                              !.op = Ins.op, !.ob = TailBase + 1, !.argc = Ins.n],
                           Ins.op, Ins.o = "TAIL_READY")
    /\ UNCHANGED <<heap, World>>

XTailPrim ==
    /\ TailX /\ ~TailFallsBack /\ Ins.bane = "PRIM"
    /\ m' = [TailStep EXCEPT !.at = "eval", !.v = TailGroup[2], !.vs = CutVs(TailBase),
                             !.fs = Append(Front(m.fs), OpentF(TailGroup[1].v.n))]
    /\ UNCHANGED <<heap, World>>

XTailSlow ==
    /\ TailX /\ ~TailFallsBack /\ Ins.bane = "SLOW"
    /\ m' = IF Ins.n = 1
            THEN [TailStep EXCEPT !.at = "eval", !.v = TailGroup[1], !.vs = CutVs(TailBase)]
            ELSE [TailStep EXCEPT !.at = "eval", !.v = TailGroup[1],
                                  !.vs = CutVs(TailBase) \o <<Zero>> \o Tail(TailGroup),
                                  !.fs = Append(Front(m.fs), ApplynF(TailBase + 1, Ins.n - 1))]
    /\ UNCHANGED <<heap, World>>

-----------------------------------------------------------------------------
(* The interpreter of law bodies.  pl_kal1 reads an operand without        *)
(* forcing it; a nested application becomes a thunk.                       *)
IsCall(x) == IsApp(x) /\ x.f = Zero /\ Len(x.xs) = 2
IsQuote(x) == IsApp(x) /\ x.f = Zero /\ Len(x.xs) = 1

Kal1(h, env, x) ==
    LET slots == h[env].slots
    IN  CASE IsNat63(x) /\ x.n < Len(slots) -> [h |-> h, v |-> slots[x.n + 1]]
          [] IsQuote(x) -> [h |-> h, v |-> x.xs[1]]
          [] IsCall(x) -> [h |-> Append(h, Thunk(env, x)), v |-> Ref(Len(h) + 1)]
          [] OTHER -> [h |-> h, v |-> x]

ExprForce ==
    /\ m.at = "expr" /\ ~IsWhnf(m.x)
    /\ m' = [m EXCEPT !.at = "eval", !.v = m.x, !.fs = Append(@, KalF(m.env))]
    /\ UNCHANGED <<heap, World>>

ExprVar ==
    /\ m.at = "expr" /\ IsNat63(m.x) /\ m.x.n < Len(heap[m.env].slots)
    /\ m' = [m EXCEPT !.at = "eval", !.v = heap[m.env].slots[m.x.n + 1]]
    /\ UNCHANGED <<heap, World>>

ExprQuote ==
    /\ m.at = "expr" /\ IsQuote(m.x)
    /\ m' = [m EXCEPT !.at = "eval", !.v = m.x.xs[1]]
    /\ UNCHANGED <<heap, World>>

ExprCall ==
    /\ m.at = "expr" /\ IsCall(m.x) /\ IsWhnf(m.x.xs[1]) /\ IsWhnf(m.x.xs[2])
    /\ LET x == Kal1(heap, m.env, m.x.xs[2])
           f == Kal1(x.h, m.env, m.x.xs[1])
       IN  /\ heap' = f.h
           /\ m' = [m EXCEPT !.at = "eval", !.v = f.v, !.fs = Append(@, ApplyF(x.v))]
    /\ UNCHANGED World

(* A body built at run time: force the operand's expression, then the      *)
(* function's, under one frame.                                            *)
ExprCallDeferred ==
    /\ m.at = "expr" /\ IsCall(m.x) /\ ~(IsWhnf(m.x.xs[1]) /\ IsWhnf(m.x.xs[2]))
    /\ m' = [m EXCEPT !.at = "eval", !.v = m.x.xs[2], !.vs = Append(@, Zero),
                      !.fs = Append(@, KappF(m.env, m.x, 0, Vsp))]
    /\ UNCHANGED <<heap, World>>

ExprLiteral ==
    /\ m.at = "expr" /\ IsWhnf(m.x) /\ ~IsCall(m.x) /\ ~IsQuote(m.x)
    /\ ~(IsNat63(m.x) /\ m.x.n < Len(heap[m.env].slots))
    /\ m' = [m EXCEPT !.at = "ret", !.v = m.x]
    /\ UNCHANGED <<heap, World>>

-----------------------------------------------------------------------------
(* ret: deliver the value m.v to the top frame.                            *)
Ret(kind) == m.at = "ret" /\ m.fs # <<>> /\ TopFrame.k \in kind
Popped == [m EXCEPT !.fs = Front(@)]

RetDone ==
    /\ m.at = "ret" /\ m.fs = <<>>
    /\ m' = [Leave(m, "done") EXCEPT !.result = m.v]
    /\ UNCHANGED <<heap, World>>

RetUpdate ==
    /\ Ret({"UPDATE"})
    /\ heap' = [heap EXCEPT ![TopFrame.a] = Ind(m.v)]
    /\ m' = Popped
    /\ UNCHANGED World

(* The cells an update frame owns: its own and its share of the update     *)
(* stack.                                                                  *)
UpdTargets(fr, us) ==
    {fr.a} \cup {us[i] : i \in (fr.argbase + 1)..(fr.argbase + fr.argc - 1)}

RetUpd ==
    /\ Ret({"UPD"})
    /\ heap' = [c \in DOMAIN heap |->
                  IF c \in UpdTargets(TopFrame, m.us) THEN Ind(m.v) ELSE heap[c]]
    /\ m' = IF TopFrame.argc = 1 THEN Popped
            ELSE [Popped EXCEPT !.us = SubSeq(@, 1, TopFrame.argbase)]
    /\ UNCHANGED World

RetKal ==
    /\ Ret({"KAL"})
    /\ m' = [Popped EXCEPT !.at = "expr", !.env = TopFrame.a, !.x = m.v]
    /\ UNCHANGED <<heap, World>>

RetKapp ==
    /\ Ret({"KAPP"})
    /\ LET fr == TopFrame
           k == Kal1(heap, fr.a, m.v)
       IN  /\ heap' = k.h
           /\ m' = IF fr.i = 0
                   THEN [m EXCEPT !.at = "eval", !.v = fr.b.xs[1],
                                  !.vs[fr.argbase + 1] = k.v,
                                  !.fs = SetTop([fr EXCEPT !.i = 1])]
                   ELSE [m EXCEPT !.at = "eval", !.v = k.v, !.vs = CutVs(fr.argbase),
                                  !.fs = SetTop(ApplyF(Slot(fr.argbase)))]
    /\ UNCHANGED World

RetSeq ==
    /\ Ret({"SEQ"})
    /\ m' = [Popped EXCEPT !.at = "eval", !.v = TopFrame.b]
    /\ UNCHANGED <<heap, World>>

(* APPLY-STEP: an unsaturated head grows its spine, a saturated one is     *)
(* entered with its spine laid out on the stack.                           *)
RetApply ==
    /\ Ret({"APPLY"})
    /\ m' = IF Arity(m.v) # 1
            THEN [Popped EXCEPT !.v = AppCat(m.v, <<TopFrame.b>>)]
            ELSE [Popped EXCEPT !.at = "fast_apply", !.hb = Vsp,
                                !.vs = @ \o Unapp(m.v) \o <<TopFrame.b>>]
    /\ UNCHANGED <<heap, World>>

(* The same for all the pending arguments at once: the excess waits in     *)
(* APPLY frames, the first of it topmost.                                  *)
RetApplyn ==
    /\ Ret({"APPLYN"})
    /\ LET p == TopFrame.argbase
           n == TopFrame.argc
           a == Arity(m.v)
           excess == [i \in 1..(n - a) |-> ApplyF(Slot(p + n - i))]
       IN  m' = IF a = 0 \/ a > n
                THEN [Popped EXCEPT !.v = AppCat(m.v, SliceVs(p, n)), !.vs = CutVs(p - 1)]
                ELSE [Popped EXCEPT !.at = "fast_apply", !.hb = p - 1,
                                    !.fs = @ \o excess,
                                    !.vs = CutVs(p - 1) \o Unapp(m.v) \o SliceVs(p, a)]
    /\ UNCHANGED <<heap, World>>

RetNf ==
    /\ Ret({"NF"})
    /\ m' = IF IsNormal(m.v) THEN Popped
            ELSE [m EXCEPT !.at = "eval", !.v = NfFields(m.v)[1],
                           !.fs = SetTop(NfobjF(m.v, 1)) \o <<NfF>>]
    /\ UNCHANGED <<heap, World>>

RetNfobj ==
    /\ Ret({"NFOBJ"})
    /\ LET i == TopFrame.i
           a == NfWriteback(TopFrame.a, i, m.v)
       IN  m' = IF i < Len(NfFields(a))
                THEN [m EXCEPT !.at = "eval", !.v = NfFields(a)[i + 1],
                               !.fs = SetTop(NfobjF(a, i + 1)) \o <<NfF>>]
                ELSE [Popped EXCEPT !.v = a]
    /\ UNCHANGED <<heap, World>>

RetExec ==
    /\ Ret({"EXEC", "EXECV"})
    /\ m' = [m EXCEPT !.at = "exec", !.vs = Append(@, m.v)]
    /\ UNCHANGED <<heap, World>>

RetTry ==
    /\ Ret({"TRY"})
    /\ m' = [Popped EXCEPT !.v = App(Zero, <<m.v>>)]
    /\ UNCHANGED <<heap, World>>

RetNil ==
    /\ Ret({"NIL"})
    /\ m' = [Popped EXCEPT !.v = Truth(m.v = Zero)]
    /\ UNCHANGED <<heap, World>>

(* A memoized application records a direct nat computed without effects.   *)
RetMemo ==
    /\ Ret({"MEMO"})
    /\ memo' = IF IsNat63(m.v) /\ TopFrame.epoch = m.epoch
               THEN memo \cup {<<TopFrame.a, TopFrame.b, m.v>>} ELSE memo
    /\ m' = Popped
    /\ UNCHANGED <<heap, pub, prog, quantum, runs, pending>>

RetJudge ==
    /\ Ret({"JUDGE"})
    /\ LET fr == TopFrame
       IN  m' = [Popped EXCEPT !.at = "scan", !.hb = fr.argbase, !.argc = fr.argc,
                               !.vs[fr.argbase + fr.argc + 2] = m.v]
    /\ UNCHANGED <<heap, World>>

-----------------------------------------------------------------------------
(* fast_apply: dispatch on the head of the group on the stack.             *)
FastApply ==
    /\ m.at = "fast_apply"
    /\ LET head == Slot(m.hb)
       IN  m' = CASE IsLaw(head) \/ (IsPin(head) /\ IsLaw(head.v)) ->
                       [m EXCEPT !.at = "judge", !.argc = Vsp - m.hb - 1, !.jcode = 0]
                  [] IsOpPin(head) ->
                       [m EXCEPT !.at = "eval", !.v = Slot(m.hb + 1), !.vs = CutVs(m.hb),
                                 !.fs = Append(@, OpentF(head.v.n))]
                  [] OTHER -> RaiseTo(m, Fails)
    /\ UNCHANGED <<heap, World>>

(* judge: run a law.  Compiled code that reads only the head and the       *)
(* arguments runs on the stack; a raw law that published code implements   *)
(* as a local block runs there (pl_store_lawblk); else the body is         *)
(* scanned for its (1 v k) chain of bindings.                              *)
LawOfHead(v) == IF IsLaw(v) THEN v ELSE v.v

LawBlocks(law, arity) ==
    UNION {{[code |-> c, target |-> b.target] :
              b \in {e \in Range(prog.codes[c].dir) : e.law = law /\ e.arity = arity}} :
           c \in {i \in DOMAIN prog.codes : pub[i] = "published"}}

Judge ==
    /\ m.at = "judge"
    /\ \E d \in IF m.jcode # 0 THEN {[code |-> m.jcode, pub |-> pub, pending |-> pending]}
                ELSE LawCode(Slot(m.hb)) :
         /\ Looked(d)
         /\ LET head == Slot(m.hb)
                blocks == LawBlocks(head, m.argc)
            IN  m' = IF d.code # 0 /\ prog.codes[d.code].maxvar <= m.argc
                     THEN EnterStack(d.code, m.hb, m.argc)
                     ELSE IF d.code = 0 /\ IsLaw(head) /\ blocks # {}
                     THEN LET b == CHOOSE b \in blocks : TRUE
                          IN  [m EXCEPT !.at = "exec",
                                 !.fs = Append(@, ExecF("EXECV", 0, m.hb, m.argc + 1,
                                                        b.code, b.target, m.hb + 1))]
                     ELSE [m EXCEPT !.at = "scan", !.jcode = 0,
                                    !.vs = Append(@, LawOfHead(head).b)]
    /\ UNCHANGED <<heap, memo, prog, quantum, runs>>

(* judge_scan: the cursor is the slot above the group, the bound           *)
(* expressions above it.                                                   *)
Cursor == m.hb + 1 + m.argc
IsBind(x) == IsApp(x) /\ x.f = One /\ Len(x.xs) = 2
Binds == SubSeq(m.vs, Cursor + 2, Vsp)

ScanForce ==
    /\ m.at = "scan" /\ ~IsWhnf(Slot(Cursor))
    /\ m' = [m EXCEPT !.at = "eval", !.v = Slot(Cursor),
                      !.fs = Append(@, JudgeF(m.hb, m.argc))]
    /\ UNCHANGED <<heap, World>>

ScanBind ==
    /\ m.at = "scan" /\ IsBind(Slot(Cursor))
    /\ LET b == Slot(Cursor)
       IN  m' = [m EXCEPT !.vs = Append([@ EXCEPT ![Cursor + 1] = b.xs[2]], b.xs[1])]
    /\ UNCHANGED <<heap, World>>

ScanEnd ==
    /\ m.at = "scan" /\ IsWhnf(Slot(Cursor)) /\ ~IsBind(Slot(Cursor))
    /\ IF Binds # <<>> THEN m' = [m EXCEPT !.at = "knot"] /\ UNCHANGED <<pub, pending>>
       ELSE \E d \in LawCode(Slot(m.hb)) :
              /\ Looked(d)
              /\ m' = IF d.code = 0 THEN [m EXCEPT !.at = "knot"]
                      ELSE EnterStack(d.code, m.hb, m.argc)
    /\ UNCHANGED <<heap, memo, prog, quantum, runs>>

(* The environment and the thunks of its bindings refer to each other.     *)
Knot ==
    /\ m.at = "knot"
    /\ \E d \in LawCode(Slot(m.hb)) :
         /\ Looked(d)
         /\ LET args == SliceVs(m.hb + 1, m.argc)
                e == IF d.code = 0 THEN [pc |-> 1, args |-> args] ELSE StrictEntry(d.code, args)
                thunks == [j \in DOMAIN Binds |-> Thunk(NewCell, Binds[j])]
                env == Env(<<Slot(m.hb)>> \o e.args \o [j \in DOMAIN Binds |-> Ref(NewCell + j)])
            IN  /\ heap' = heap \o <<env>> \o thunks
                /\ m' = IF d.code = 0
                        THEN [m EXCEPT !.at = "expr", !.env = NewCell, !.x = Slot(Cursor),
                                       !.vs = CutVs(m.hb)]
                        ELSE [m EXCEPT !.at = "exec", !.vs = CutVs(m.hb),
                                       !.fs = Append(@, ExecF("EXEC", NewCell, 0, 0, d.code,
                                                              e.pc, m.hb))]
    /\ UNCHANGED <<memo, prog, quantum, runs>>

-----------------------------------------------------------------------------
(* Primops.  ret_opent unapps the row [name, args...] and looks it up.     *)
RetOpent ==
    /\ Ret({"OPENT"})
    /\ LET row == Unapp(m.v)
           set == TopFrame.opset
           op == OpLookup(set, row[1], Len(row) - 1)
       IN  m' = IF set >= 82 /\ ~prog.rplan THEN RaiseTo(m, Fails)
                ELSE IF op = 0 THEN RaiseTo(m, Fails)
                ELSE [Popped EXCEPT !.at = "op_args", !.vs = @ \o row, !.op = op,
                                    !.ob = Vsp + 1, !.argc = Len(row) - 1]
    /\ UNCHANGED <<heap, World>>

(* The strict arguments from position i on, counted from 0: each that is a *)
(* value costs a step, the first that is not, or that would take the last  *)
(* step, stops the walk.                                                   *)
StrictFrom(op, i) == {j \in 0..(OpTable[op].argc - 1) : j >= i /\ j + 1 \in OpTable[op].strict}

Stops(ob, op, i) ==
    LET cost(j) == Cardinality({q \in StrictFrom(op, i) : q < j})
    IN  {j \in StrictFrom(op, i) :
            ~IsWhnf(Slot(ob + j)) \/ m.fuel - cost(j) = 1}

OpArgs ==
    /\ m.at = "op_args"
    /\ LET stops == Stops(m.ob, m.op, 0)
           k == Min(stops)
           steps == Cardinality({q \in StrictFrom(m.op, 0) : q < k})
       IN  m' = IF stops = {}
                THEN [m EXCEPT !.at = "op_ready", !.fuel = @ - Cardinality(OpTable[m.op].strict)]
                ELSE [m EXCEPT !.at = "eval", !.v = Slot(m.ob + k), !.fuel = @ - steps,
                               !.fs = Append(@, OpF("OPARG", m.op, m.ob, m.argc, k))]
    /\ UNCHANGED <<heap, World>>

OpReady ==
    /\ m.at = "op_ready"
    /\ m' = IF OpTable[m.op].deep = {} THEN [m EXCEPT !.at = "op_body"]
            ELSE [m EXCEPT !.at = "op_deep",
                           !.fs = Append(@, OpF("OPDEEP", m.op, m.ob, m.argc, 0))]
    /\ UNCHANGED <<heap, World>>

(* A forced strict argument is parked and the walk goes on; then the deep  *)
(* arguments, one normalization at a time.                                 *)
RetOparg ==
    /\ Ret({"OPARG"})
    /\ m' = [m EXCEPT !.at = "oparg_next", !.vs[TopFrame.argbase + TopFrame.i + 1] = m.v,
                      !.fs[Len(m.fs)].i = @ + 1]
    /\ UNCHANGED <<heap, World>>

OpargNext ==
    /\ m.at = "oparg_next"
    /\ LET fr == TopFrame
           stops == Stops(fr.argbase, fr.op, fr.i)
           k == Min(stops)
           steps == Cardinality({q \in StrictFrom(fr.op, fr.i) : q < k})
           walked == [m EXCEPT !.fuel = @ - Cardinality(StrictFrom(fr.op, fr.i))]
       IN  m' = IF stops # {}
                THEN [m EXCEPT !.at = "eval", !.v = Slot(fr.argbase + k), !.fuel = @ - steps,
                               !.fs = SetTop([fr EXCEPT !.i = k])]
                ELSE IF OpTable[fr.op].deep # {}
                THEN [walked EXCEPT !.at = "op_deep",
                        !.fs = SetTop(OpF("OPDEEP", fr.op, fr.argbase, fr.argc, 0))]
                ELSE [walked EXCEPT !.at = "op_body", !.op = fr.op, !.ob = fr.argbase,
                                    !.argc = fr.argc, !.fs = Front(@)]
    /\ UNCHANGED <<heap, World>>

RetOpdeep ==
    /\ Ret({"OPDEEP"})
    /\ m' = [m EXCEPT !.at = "op_deep", !.vs[TopFrame.argbase + TopFrame.i + 1] = m.v,
                      !.fs[Len(m.fs)].i = @ + 1]
    /\ UNCHANGED <<heap, World>>

OpDeep ==
    /\ m.at = "op_deep"
    /\ LET fr == TopFrame
           left == {j \in fr.i..(fr.argc - 1) : j + 1 \in OpTable[fr.op].deep}
       IN  m' = IF left = {}
                THEN [m EXCEPT !.at = "op_body", !.op = fr.op, !.ob = fr.argbase,
                               !.argc = fr.argc, !.fs = Front(@)]
                ELSE [m EXCEPT !.at = "eval", !.v = Slot(fr.argbase + Min(left)),
                               !.fs = SetTop([fr EXCEPT !.i = Min(left)]) \o <<NfF>>]
    /\ UNCHANGED <<heap, World>>

(* The two bodies that need the thread: Try pushes its barrier, Memo       *)
(* probes the cache and watches the effect epoch.                          *)
ThreadBody(f, a) ==
    LET hits == {e \in memo : e[1] = a[1] /\ e[2] = a[2]}
        hashed == IsPin(a[1]) /\ a[1].s /\ IsPin(a[2]) /\ a[2].s
    IN  CASE f = "Try" -> GivesUnder(a[1], <<TryF(m.ob - 1), NfF, ApplyF(a[2])>>)
          [] f = "Memo" ->
               IF ~hashed THEN GivesUnder(a[1], <<ApplyF(a[2])>>)
               ELSE IF hits # {} THEN Gives((CHOOSE e \in hits : TRUE)[3])
               ELSE GivesUnder(a[1], <<MemoF(a[1], a[2], m.epoch), ApplyF(a[2])>>)

BodyResult ==
    LET f == OpTable[m.op].f
        a == SliceVs(m.ob, m.argc)
    IN  IF f \in {"Try", "Memo"} THEN ThreadBody(f, a)
        ELSE OpBody(m.op, Slot(m.ob - 1), a, heap)

(* An operation of set 82 moves the epoch; so does Trace.                  *)
BodyEpoch(r) ==
    IF OpTable[m.op].set >= 82 \/ (r.t = "val" /\ r.bump) THEN m.epoch + 1 ELSE m.epoch

OpBodyAction ==
    /\ m.at = "op_body" /\ ~OpTable[m.op].coord
    /\ LET r == BodyResult
           done == [m EXCEPT !.vs = CutVs(m.ob - 1), !.fs = @ \o r.push, !.v = r.v,
                             !.epoch = BodyEpoch(r)]
       IN  IF r.t # "val" THEN Raise(r) /\ UNCHANGED heap
           ELSE /\ heap' = heap \o r.cells
                /\ m' = IF m.fuel > 1 /\ IsWhnf(r.v)
                        THEN [done EXCEPT !.fuel = @ - 1, !.at = "ret"]
                        ELSE [done EXCEPT !.at = "eval"]
    /\ UNCHANGED World

(* A coordination request parks the thread; a host entry has nobody to     *)
(* answer it.                                                              *)
OpCoord ==
    /\ m.at = "op_body" /\ OpTable[m.op].coord
    /\ LET r == BodyResult
       IN  m' = IF r.t # "val" \/ ~m.suspendable
                THEN RaiseTo([m EXCEPT !.epoch = @ + 1], Fails)
                ELSE [Leave(m, "blocked") EXCEPT !.vs = CutVs(m.ob - 1), !.blocked = r.v,
                                                 !.epoch = @ + 1]
    /\ UNCHANGED <<heap, World>>

-----------------------------------------------------------------------------
(* Exceptions.  pl_unwind_frames undoes the blackholes of the frames above *)
(* keep and releases their share of the update stack.                      *)
Unwound(h, keep) ==
    LET gone == (keep + 1)..Len(m.fs)
        thunk(c) == {i \in gone : m.fs[i].k = "UPDATE" /\ m.fs[i].a = c}
        thkes == UNION {UpdTargets(m.fs[i], m.us) : i \in {j \in gone : m.fs[j].k = "UPD"}}
    IN  [c \in DOMAIN h |->
           IF thunk(c) # {} THEN Thunk(h[c].env, m.fs[CHOOSE i \in thunk(c) : TRUE].b)
           ELSE IF c \in thkes THEN [h[c] EXCEPT !.hole = FALSE]
           ELSE h[c]]

UnwoundUsKept(keep) == m.us

UnwoundUs(keep) ==
    LET bases == {m.fs[i].argbase : i \in {j \in (keep + 1)..Len(m.fs) :
                                            m.fs[j].k = "UPD" /\ m.fs[j].argc > 1}}
    IN  IF bases = {} THEN m.us ELSE SubSeq(m.us, 1, Min(bases))

Barriers == {i \in DOMAIN m.fs : m.fs[i].k = "TRY"}

(* pl_run_caught: an exception resumes at the innermost Try; a runtime     *)
(* error, or one nobody catches, ends the run.                             *)
Catch ==
    /\ m.at = "raise" /\ m.exn.t = "exn" /\ Barriers # {}
    /\ LET i == Max(Barriers)
       IN  /\ heap' = Unwound(heap, i - 1)
           /\ m' = [m EXCEPT !.at = "ret", !.v = App(One, <<m.exn.v>>),
                             !.vs = CutVs(m.fs[i].argbase), !.us = UnwoundUs(i - 1),
                             !.fs = SubSeq(@, 1, i - 1)]
    /\ UNCHANGED World

Uncaught ==
    /\ m.at = "raise" /\ ~(m.exn.t = "exn" /\ Barriers # {})
    /\ heap' = Unwound(heap, 0)
    /\ m' = [Leave(m, "exn") EXCEPT !.vs = <<>>, !.fs = <<>>, !.us = UnwoundUs(0)]
    /\ UNCHANGED World

-----------------------------------------------------------------------------
(* The thread interface: start a run of the root to normal form, grant a   *)
(* quantum, answer a request, abandon a blocked run.                       *)
Fresh(root) ==
    [at |-> "host", v |-> Zero, x |-> Zero, env |-> 0, hb |-> 0, argc |-> 0, jcode |-> 0,
     op |-> 0, ob |-> 0, vs |-> <<>>, fs |-> <<NfF>>, us |-> <<>>, fuel |-> Inert,
     suspendable |-> FALSE, status |-> "yielded", resume |-> [kind |-> "EVAL", v |-> root],
     blocked |-> Zero, result |-> Zero, exn |-> [t |-> "none"], epoch |-> 0]

ThreadRun ==
    /\ m.at = "host" /\ m.status = "yielded"
    /\ LET kind == m.resume.kind
       IN  m' = [m EXCEPT !.fuel = IF quantum = 0 THEN Inert ELSE quantum,
                          !.suspendable = quantum # 0,
                          !.v = m.resume.v,
                          !.at = CASE kind = "EVAL" -> "eval"
                                   [] kind = "RETURN" -> "ret"
                                   [] kind = "RUN" -> "exec"]
    /\ UNCHANGED <<heap, World>>

Deposit ==
    /\ m.at = "host" /\ m.status = "blocked"
    /\ m' = [m EXCEPT !.status = "yielded", !.blocked = Zero,
                      !.resume = [kind |-> "RETURN", v |-> Respond(m.blocked)]]
    /\ UNCHANGED <<heap, World>>

Abandon ==
    /\ m.at = "host" /\ m.status = "blocked" /\ prog.abandon /\ runs < MaxRuns
    /\ heap' = Unwound(heap, 0)
    /\ m' = [m EXCEPT !.status = "abandoned", !.vs = <<>>, !.fs = <<>>, !.us = UnwoundUs(0)]
    /\ UNCHANGED World

Ended == m.at = "host" /\ m.status \in {"done", "exn", "abandoned"}

(* The same root once more, on the heap the previous run left.             *)
Restart ==
    /\ Ended /\ runs < MaxRuns
    /\ runs' = runs + 1
    /\ m' = [Fresh(prog.root) EXCEPT !.epoch = m.epoch]
    /\ UNCHANGED <<heap, pub, memo, prog, quantum, pending>>

Init ==
    /\ prog \in Programs
    /\ quantum \in Quanta
    /\ heap = prog.heap
    /\ m = Fresh(prog.root)
    /\ pub = [c \in DOMAIN prog.codes |-> "absent"]
    /\ memo = {}
    /\ runs = 1 /\ pending = 0

Evaluate == EvalYield \/ EvalWhnf \/ DeferInd \/ DeferHole \/ DeferThunk \/ DeferThke
            \/ ThkeFast \/ ThkeKnown \/ ThkePrim \/ ThkeSlow
            \/ ExprForce \/ ExprVar \/ ExprQuote \/ ExprCall \/ ExprCallDeferred \/ ExprLiteral

Execute == XPushVar \/ XPushLit \/ XPushSlot \/ XMkThk \/ XMkApp \/ XInterp \/ XRet \/ XEntry
           \/ XForce \/ XBr \/ XJmp \/ XTailblk \/ XCall \/ XNumeric \/ XTailNumeric
           \/ XCallKnown \/ XCallFast \/ XCallSlow \/ XTailFallback \/ XTailFast \/ XTailKnown
           \/ XTailPrim \/ XTailSlow

Return == RetDone \/ RetUpdate \/ RetUpd \/ RetKal \/ RetKapp \/ RetSeq \/ RetApply
          \/ RetApplyn \/ RetNf \/ RetNfobj \/ RetExec \/ RetTry \/ RetNil \/ RetMemo
          \/ RetJudge \/ RetOpent \/ RetOparg \/ RetOpdeep

Enter == FastApply \/ Judge \/ ScanForce \/ ScanBind \/ ScanEnd \/ Knot
         \/ OpArgs \/ OpReady \/ OpargNext \/ OpDeep \/ OpBodyAction \/ OpCoord

Host == ThreadRun \/ Deposit \/ Abandon \/ Restart

Next == Evaluate \/ Execute \/ Return \/ Enter \/ Catch \/ Uncaught \/ Host

Spec == Init /\ [][Next]_vars /\ WF_vars(Next)
=============================================================================
