------------------------------- MODULE Ingest -------------------------------
(***************************************************************************)
(* Ingest of compiled code (bytecode.c): the row a law's compiler returned *)
(* is validated once, then rewritten into the private stream the machine   *)
(* runs.  An instruction is a record; its position in the sequence stands  *)
(* for its word offset, so filler words and operand widths do not appear,  *)
(* and a jump target inside an instruction cannot be written down.         *)
(*                                                                         *)
(*   raw:  PUSH_VAR i  PUSH_LIT v  PUSH_SLOT i  MK_THK n bane noupd set    *)
(*         name  MK_APP n  INTERP v  FORCE  RET  ENTRY strict  BR targets  *)
(*         JMP targets  CALL targets n  TAILBLK targets n  CALL_KNOWN n    *)
(*         set name  CALL_FAST n  CALL_SLOW n  LAWBLK law target           *)
(***************************************************************************)
EXTENDS PlanOps, FiniteSetsExt

(* A sequence by its elements; the concatenation has TLC build it once.    *)
Seqn(n, Elem(_)) == <<>> \o [i \in 1..n |-> Elem(i)]

MaxSlots == 256             \* READY_SLOTS: the tracked operand depth
MaxRounds == 64             \* of the eager rewriting

-----------------------------------------------------------------------------
(* Pass 1: validation.  An operation this runtime lacks, like every other  *)
(* malformation, makes the decode fail and the law stay interpreted.       *)
Resolved(ins) == OpLookup(ins.set, ins.name, ins.n)

SpecNat == {"Add", "Sub", "Mul", "Eq", "Ne", "Lt", "Le", "Gt", "Ge", "Cmp",
            "Inc", "Dec", "Nil", "Truth"}
SpecBody == {"Ix", "Hd", "Sz", "Last", "Type", "Nat", "Name", "Body", "IsPin", "IsLaw",
             "IsApp", "IsNat"} \cup Range(IxNames)

(* spec_code: the total O(1) operations a MK_THK may compute at once.      *)
SpecCode(op) ==
    IF OpTable[op].set # 66 THEN "NONE"
    ELSE IF OpTable[op].f \in SpecNat THEN "NAT"
    ELSE IF OpTable[op].f \in SpecBody THEN "BODY" ELSE "NONE"

CodeLen(raw) == Cardinality({i \in DOMAIN raw : raw[i].o # "LAWBLK"})

ValidIns(raw, i) ==
    LET ins == raw[i]
        inside(t) == t \in 1..CodeLen(raw)
    IN  CASE ins.o \in {"PUSH_VAR", "PUSH_LIT", "PUSH_SLOT", "INTERP", "RET", "FORCE"} -> TRUE
          [] ins.o \in {"MK_APP", "CALL_SLOW", "CALL_FAST"} -> ins.n > 0
          [] ins.o = "ENTRY" -> /\ ins.strict # {}
                                /\ \A j \in DOMAIN raw : raw[j].o = "ENTRY" => j = i
          [] ins.o \in {"JMP", "CALL", "TAILBLK", "BR"} ->
               /\ ins.targets # <<>>
               /\ \A j \in DOMAIN ins.targets : inside(ins.targets[j])
          [] ins.o = "CALL_KNOWN" -> ins.n > 0 /\ Resolved(ins) # 0
          [] ins.o = "MK_THK" -> /\ ins.bane \in {"FAST", "SLOW", "PRIM", "KNOWN"}
                                 /\ ins.bane = "KNOWN" => Resolved(ins) # 0
          [] ins.o = "LAWBLK" -> IsLaw(ins.law) /\ inside(ins.target)
          [] OTHER -> FALSE

ValidRaw(raw) ==
    /\ \A i \in DOMAIN raw : ValidIns(raw, i)
    /\ \A i \in DOMAIN raw : raw[i].o = "LAWBLK" => i > CodeLen(raw)
    /\ CodeLen(raw) > 0 /\ raw[CodeLen(raw)].o = "RET"

Targets(raw) ==
    UNION {Range(raw[i].targets) : i \in {j \in DOMAIN raw :
                                            raw[j].o \in {"JMP", "CALL", "TAILBLK", "BR"}}}
    \cup {raw[i].target : i \in {j \in DOMAIN raw : raw[j].o = "LAWBLK"}}

(* The operands that pass 1 overwrites with the table index.               *)
DecodeIns(ins) ==
    CASE ins.o = "CALL_KNOWN" -> [o |-> "CALL_KNOWN", n |-> ins.n, op |-> Resolved(ins)]
      [] ins.o = "MK_THK" /\ ins.bane = "KNOWN" ->
           [o |-> "MK_THK", n |-> ins.n, bane |-> "KNOWN", noupd |-> ins.noupd,
            op |-> Resolved(ins), spec |-> SpecCode(Resolved(ins))]
      [] OTHER -> ins

(* max_var: the highest variable read; an INTERP may read any.             *)
NoLimit == 1000
MaxVar(raw) ==
    IF \E i \in DOMAIN raw : raw[i].o = "INTERP" THEN NoLimit
    ELSE Max({0} \cup {raw[i].i : i \in {j \in DOMAIN raw : raw[j].o = "PUSH_VAR"}})

(* Pass 3: a thunk returned at once is entered at once, unless something   *)
(* jumps to the RET.                                                       *)
Fuse(ops, targets) ==
    LET fused(i) == IF /\ ops[i].o = "MK_THK" /\ i < Len(ops)
                       /\ ops[i + 1].o = "RET" /\ i + 1 \notin targets
                    THEN [ops[i] EXCEPT !.o = "TAILCALL"] ELSE ops[i]
    IN  Seqn(Len(ops), fused)

-----------------------------------------------------------------------------
(* Readiness: which operand slots hold a value on entry to each position,  *)
(* met over all ways to get there.  d: the depth; -1 unseen, -2 unknown.   *)
Unseen == [d |-> -1, bits |-> {}, vars |-> {}]
Unknown == [d |-> -2, bits |-> {}, vars |-> {}]
Shape(d, vars) == IF d > MaxSlots THEN Unknown ELSE [d |-> d, bits |-> {}, vars |-> vars]

ReadyPush(s, known) ==
    IF s.d < 0 THEN s
    ELSE IF s.d = MaxSlots THEN Unknown
    ELSE [s EXCEPT !.d = @ + 1, !.bits = IF known THEN @ \cup {s.d} ELSE @ \ {s.d}]

Underflows(s, n) == s.d >= 0 /\ n > s.d
ReadyPop(s, n) ==
    IF s.d < 0 THEN s ELSE [s EXCEPT !.d = @ - n, !.bits = {k \in @ : k < s.d - n}]

ReadyMerge(dst, src0) ==
    LET src == IF src0.d < 0 THEN Unknown ELSE src0
    IN  CASE dst.d = -1 -> src
          [] dst.d = -2 -> dst
          [] dst.d >= 0 /\ src.d # dst.d -> Unknown
          [] dst.d >= 0 /\ src.d = dst.d ->
               [dst EXCEPT !.bits = @ \cap src.bits, !.vars = @ \cap src.vars]

ReadyGet(s, k) == s.d >= 0 /\ k < s.d /\ k \in s.bits

(* What each instruction pops, and whether what it pushes is a value.      *)
Pops(ins) ==
    CASE ins.o \in {"FORCE", "BR", "RET"} -> 1
      [] ins.o \in {"MK_APP", "CALL_FAST", "CALL_SLOW"} -> ins.n + 1
      [] ins.o \in {"MK_THK", "CALL", "CALL_KNOWN", "ADD", "SUB", "CMP", "TAILBLK",
                    "TAILCALL", "TAIL_ADD", "TAIL_SUB", "TAIL_CMP"} -> ins.n
      [] OTHER -> 0

PushesValue == {"FORCE", "INTERP", "MK_APP", "CALL", "CALL_FAST", "CALL_SLOW", "CALL_KNOWN",
                "ADD", "SUB", "CMP"}
FallsThrough == PushesValue \cup {"PUSH_VAR", "PUSH_LIT", "PUSH_SLOT", "MK_THK", "ENTRY"}

AfterIns(ins, s) ==
    LET p == ReadyPop(s, Pops(ins))
    IN  CASE ins.o = "PUSH_VAR" -> ReadyPush(p, ins.i \in s.vars)
          [] ins.o = "PUSH_LIT" -> ReadyPush(p, IsWhnf(ins.v))
          [] ins.o = "PUSH_SLOT" -> ReadyPush(p, ReadyGet(s, ins.i))
          [] ins.o = "MK_THK" -> ReadyPush(p, FALSE)
          [] ins.o \in PushesValue -> ReadyPush(p, TRUE)
          [] OTHER -> p

(* The successors of a position, in the order the code queues them.  A     *)
(* local block starts with its arguments as unknown slots.                 *)
Flows(ops, pc, s) ==
    LET ins == ops[pc]
        to(t, st) == [pc |-> t, s |-> st]
        after == AfterIns(ins, s)
        block == IF ins.o \in {"CALL", "TAILBLK"} THEN <<to(ins.targets[1], Shape(ins.n, {}))>>
                 ELSE <<>>
        jumps == IF ins.o \in {"JMP", "BR"}
                 THEN [i \in DOMAIN ins.targets |-> to(ins.targets[i], after)] ELSE <<>>
        next == IF ins.o \in FallsThrough /\ pc < Len(ops) THEN <<to(pc + 1, after)>> ELSE <<>>
    IN  block \o jumps \o next

(* Deliver the flows: merge, and queue what changed and is not queued.     *)
Deliver(st, f) ==
    LET merged == ReadyMerge(st.states[f.pc], f.s)
    IN  IF merged = st.states[f.pc] THEN st
        ELSE [st EXCEPT !.states[f.pc] = merged,
                        !.queue = IF f.pc \in Range(@) THEN @ ELSE Append(@, f.pc)]

RECURSIVE ReadyLoop(_, _)
ReadyLoop(ops, st) ==
    IF st.queue = <<>> THEN st
    ELSE LET pc == Head(st.queue)
             s == st.states[pc]
         IN  IF Underflows(s, Pops(ops[pc])) THEN [st EXCEPT !.underflow = TRUE]
             ELSE ReadyLoop(ops, FoldLeft(Deliver, [st EXCEPT !.queue = Tail(@)],
                                          Flows(ops, pc, s)))

(* ready_analyse.  The fast entry knows the strict arguments are values    *)
(* (the machine checks it); a law's block is entered from outside too.     *)
ReadyAnalyse(code) ==
    LET to(t, s) == [pc |-> t, s |-> s]
        roots == <<to(1, Shape(0, {}))>>
                 \o (IF code.entry = 0 THEN <<>> ELSE <<to(code.entry, Shape(0, code.strict))>>)
                 \o [k \in DOMAIN code.dir |-> to(code.dir[k].target, Shape(code.dir[k].arity, {}))]
        st0 == [states |-> Seqn(Len(code.ops), LAMBDA pc : Unseen), queue |-> <<>>, underflow |-> FALSE]
    IN  ReadyLoop(code.ops, FoldLeft(Deliver, st0, roots))

ReadyArgs(s, argc, op) ==
    s.d >= argc /\ \A k \in OpTable[op].strict : ReadyGet(s, s.d - argc + k - 1)

(* ready_rewrite: the instructions whose operands are proved values.       *)
ReadyIns(ins, s) ==
    LET top == s.d > 0 /\ ReadyGet(s, s.d - 1)
    IN  CASE ins.o = "FORCE" /\ top -> [ins EXCEPT !.o = "FORCE_READY"]
          [] ins.o = "RET" /\ top -> [ins EXCEPT !.o = "RET_READY"]
          [] ins.o = "CALL_KNOWN" /\ ReadyArgs(s, ins.n, ins.op) ->
               [ins EXCEPT !.o = "CALL_READY"]
          [] ins.o = "TAILCALL" /\ ins.bane = "KNOWN" /\ ReadyArgs(s, ins.n, ins.op) ->
               [ins EXCEPT !.o = "TAIL_READY"]
          [] OTHER -> ins

ReadyRewrite(ops, states) == Seqn(Len(ops), LAMBDA pc : ReadyIns(ops[pc], states[pc]))

-----------------------------------------------------------------------------
(* Eager entry: a thunk that the same straight line forces next, with no   *)
(* evaluation in between, becomes the call itself.  An entry of the        *)
(* tracked stack: the slot it copies, the MK_THK that filled it, the       *)
(* converted call that computes it, its variable or literal, and whether   *)
(* it holds a value (positions and slots from 1; 0: none).                 *)
Tracked == [src |-> 0, producer |-> 0, evalpc |-> 0, var |-> -1, lit |-> <<>>, whnf |-> FALSE]

(* eager_callee_mask: what a saturated call through this head forces first. *)
CalleeMask(code, head, nargs, Masks) ==
    IF head.var = 0 THEN code.strict
    ELSE IF /\ head.lit # <<>> /\ IsPin(head.lit[1]) /\ IsLaw(head.lit[1].v)
            /\ head.lit[1].v.a = nargs
    THEN UNION {q.strict : q \in {r \in Masks : r.law = head.lit[1].v}}
    ELSE {}

EagerApply(ins) ==
    CASE ins.bane \in {"FAST", "SLOW"} -> [o |-> "CALL_FAST", n |-> ins.n - 1]
      [] ins.bane = "KNOWN" -> [o |-> "CALL_KNOWN", n |-> ins.n, op |-> ins.op]

CanApply(ins) ==
    ins.o = "MK_THK" /\ (IF ins.bane \in {"FAST", "SLOW"} THEN ins.n >= 2 ELSE ins.bane = "KNOWN")

(* eager_consume: the consumer forces the slots base+k, k in mask, in      *)
(* order; the first that stays a thunk ends the run.                       *)
SourceOf(st, i) == IF st.slots[i].src # 0 THEN st.slots[i].src ELSE i

RECURSIVE EagerConsume(_, _, _, _)
EagerConsume(st, base, mask, k) ==
    LET later == {j \in mask : j >= k}
        j == Min(later)
        src == SourceOf(st, base + j)
        p == st.slots[src].producer
        ordered == \A q \in mask : q < j =>
                     LET s == st.slots[SourceOf(st, base + q)] IN s.whnf /\ s.evalpc < p
    IN  IF later = {} THEN st
        ELSE IF st.slots[src].whnf THEN EagerConsume(st, base, mask, j + 1)
        ELSE IF p = 0 \/ st.impure >= p \/ ~ordered THEN st
        ELSE IF ~CanApply(st.ops[p]) THEN st
        ELSE EagerConsume([st EXCEPT !.ops[p] = EagerApply(st.ops[p]),
                                     !.slots[src] = [@ EXCEPT !.producer = 0, !.whnf = TRUE,
                                                              !.evalpc = p],
                                     !.impure = p, !.changed = TRUE],
                          base, mask, j + 1)

ConsumedBy(code, st, ins, Masks) ==
    LET depth == Len(st.slots)
        call(nargs) ==
            IF nargs + 1 > depth THEN st
            ELSE LET mask == CalleeMask(code, st.slots[depth - nargs], nargs, Masks)
                 IN  IF mask = {} \/ ~(mask \subseteq 1..nargs) THEN st
                     ELSE EagerConsume(st, depth - nargs, mask, 1)
    IN  IF ~st.live THEN st
        ELSE CASE ins.o = "FORCE" /\ depth >= 1 -> EagerConsume(st, depth - 1, {1}, 1)
               [] \/ ins.o = "CALL_KNOWN" /\ ins.n <= depth
                  \/ ins.o = "TAILCALL" /\ ins.bane = "KNOWN" /\ ins.n <= depth ->
                    EagerConsume(st, depth - ins.n, OpTable[ins.op].strict, 1)
               [] ins.o = "CALL_FAST" -> call(ins.n)
               [] ins.o = "TAILCALL" /\ ins.bane = "FAST" /\ ins.n >= 2 -> call(ins.n - 1)
               [] OTHER -> st

EagerPush(st, e) ==
    IF ~st.live THEN st
    ELSE IF Len(st.slots) >= MaxSlots THEN [st EXCEPT !.live = FALSE]
    ELSE [st EXCEPT !.slots = Append(@, e)]

EagerPop(st, n) ==
    IF ~st.live THEN st
    ELSE IF n > Len(st.slots) THEN [st EXCEPT !.live = FALSE]
    ELSE [st EXCEPT !.slots = SubSeq(@, 1, Len(@) - n)]

Impure == {"FORCE", "CALL_KNOWN", "CALL_FAST", "CALL_SLOW", "CALL", "INTERP"}
EndsBlock == {"TAILCALL", "BR", "JMP", "TAILBLK", "RET"}

EagerPushed(st, pc, ins, vars) ==
    LET value == EagerPush(st, [Tracked EXCEPT !.whnf = TRUE])
    IN  CASE ins.o = "PUSH_VAR" ->
               EagerPush(st, [Tracked EXCEPT !.var = ins.i, !.whnf = ins.i \in vars])
          [] ins.o = "PUSH_LIT" ->
               EagerPush(st, [Tracked EXCEPT !.lit = <<ins.v>>, !.whnf = IsWhnf(ins.v)])
          [] ins.o = "PUSH_SLOT" ->
               IF st.live /\ ins.i < Len(st.slots)
               THEN EagerPush(st, [st.slots[ins.i + 1] EXCEPT !.src = SourceOf(st, ins.i + 1),
                                                             !.producer = 0, !.evalpc = 0,
                                                             !.whnf = FALSE])
               ELSE [st EXCEPT !.live = FALSE]
          [] ins.o = "MK_THK" -> EagerPush(st, [Tracked EXCEPT !.producer = pc])
          [] ins.o \in PushesValue -> value
          [] OTHER -> st

(* One position of eager_rewrite; a block starts from what readiness knows. *)
EagerStep(code, states, targets, Masks, st0, pc) ==
    LET s == states[pc]
        fresh == [st0 EXCEPT
                    !.live = s.d >= 0, !.impure = 0, !.start = FALSE,
                    !.slots = Seqn(IF s.d >= 0 THEN s.d ELSE 0,
                                   LAMBDA i : [Tracked EXCEPT !.whnf = ReadyGet(s, i - 1)])]
        st == IF st0.start \/ pc \in targets THEN fresh ELSE st0
        ins == st.ops[pc]
        eaten == ConsumedBy(code, st, ins, Masks)
    IN  IF ins.o \in EndsBlock THEN [eaten EXCEPT !.start = TRUE]
        ELSE LET pushed == EagerPushed(EagerPop(eaten, Pops(ins)), pc, ins, s.vars)
             IN  IF ins.o \in Impure THEN [pushed EXCEPT !.impure = pc] ELSE pushed

RECURSIVE EagerFrom(_, _, _, _, _, _)
EagerFrom(code, states, targets, Masks, st, pc) ==
    IF pc > Len(st.ops) THEN st
    ELSE EagerFrom(code, states, targets, Masks,
                   EagerStep(code, states, targets, Masks, st, pc), pc + 1)

EagerRewrite(code, states, targets, Masks) ==
    EagerFrom(code, states, targets, Masks,
              [ops |-> code.ops, slots |-> <<>>, live |-> FALSE, start |-> TRUE,
               impure |-> 0, changed |-> FALSE], 1)

-----------------------------------------------------------------------------
(* Numeric calls get their inline opcodes.                                 *)
NumericOpcode(ins) ==
    LET f == OpTable[ins.op].f
        tail == ins.o = "TAILCALL"
    IN  IF OpTable[ins.op].set # 66 THEN ins
        ELSE CASE f = "Add" -> [ins EXCEPT !.o = IF tail THEN "TAIL_ADD" ELSE "ADD"]
               [] f = "Sub" -> [ins EXCEPT !.o = IF tail THEN "TAIL_SUB" ELSE "SUB"]
               [] f = "Cmp" -> [ins EXCEPT !.o = IF tail THEN "TAIL_CMP" ELSE "CMP"]
               [] OTHER -> ins

NumericSpecialise(ops) ==
    Seqn(Len(ops),
         LAMBDA i : IF ops[i].o = "CALL_KNOWN" \/ (ops[i].o = "TAILCALL" /\ ops[i].bane = "KNOWN")
                    THEN NumericOpcode(ops[i]) ELSE ops[i])

(* bytecode_optimise.                                                      *)
RECURSIVE EagerRounds(_, _, _, _)
EagerRounds(code, targets, Masks, round) ==
    LET ready == ReadyAnalyse(code)
        eager == EagerRewrite(code, ready.states, targets, Masks)
    IN  IF ready.underflow \/ round = MaxRounds THEN code
        ELSE IF ~eager.changed THEN code
        ELSE EagerRounds([code EXCEPT !.ops = eager.ops], targets, Masks, round + 1)

Optimise(code, targets, Masks) ==
    LET eager == EagerRounds(code, targets, Masks, 0)
        numeric == [eager EXCEPT !.ops = NumericSpecialise(@)]
        ready == ReadyAnalyse(numeric)
    IN  [numeric EXCEPT !.ops = ReadyRewrite(@, ready.states)]

-----------------------------------------------------------------------------
(* The law directory: each entry's law runs as a local block, and so does  *)
(* every equal literal.  Laws are values here, so equal ones are one.      *)
Directory(raw) ==
    LET dir == SelectSeq(raw, LAMBDA ins : ins.o = "LAWBLK")
    IN  Seqn(Len(dir), LAMBDA k : [law |-> dir[k].law, target |-> dir[k].target,
                                   arity |-> dir[k].law.a])

StrictOf(raw) == UNION {raw[i].strict : i \in {j \in DOMAIN raw : raw[j].o = "ENTRY"}}
EntryOf(raw) ==
    LET at == {i \in DOMAIN raw : raw[i].o = "ENTRY"}
    IN  IF at = {} THEN 0 ELSE (CHOOSE i \in at : TRUE) + 1

(* pl_bytecode_from_val: a code object, or none ({}).                      *)
FromVal(law, raw, Masks) ==
    LET code == [law |-> law, arity |-> law.a, strict |-> StrictOf(raw),
                 entry |-> EntryOf(raw), maxvar |-> MaxVar(raw), dir |-> Directory(raw),
                 ops |-> Fuse(Seqn(CodeLen(raw), LAMBDA i : DecodeIns(raw[i])), Targets(raw))]
    IN  IF ~ValidRaw(raw) THEN {}
        ELSE IF ReadyAnalyse(code).underflow THEN {}
        ELSE {Optimise(code, Targets(raw), Masks)}
=============================================================================
