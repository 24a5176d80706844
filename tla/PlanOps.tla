------------------------------ MODULE PlanOps ------------------------------
(***************************************************************************)
(* The primitive operations of the PLAN machine (op.c): the table pl_ops   *)
(* with its strictness as data, the lookup, and what each body returns.  A *)
(* body runs once its strict arguments are WHNF.  It may return a value    *)
(* the machine goes on to evaluate, push frames that will receive it, add  *)
(* cells to the heap, or raise.  Arithmetic is on the integers; how nat.c  *)
(* computes it on limbs is not modelled.                                   *)
(***************************************************************************)
EXTENDS PlanValues

-----------------------------------------------------------------------------
(* What a body hands back: the value and the frames to push below it (the  *)
(* last on top), and the heap cells it made.  bump: the body moves the     *)
(* effect epoch itself.                                                    *)
Gives(v) == [t |-> "val", v |-> v, push |-> <<>>, cells |-> <<>>, bump |-> FALSE]
GivesUnder(v, frames) == [Gives(v) EXCEPT !.push = frames]
Raises(v) == [t |-> "exn", v |-> v]        \* pl_raise: catchable by Try
Fails == [t |-> "err"]                     \* pl_raise_msg: a runtime error

ApplyF(x) == [k |-> "APPLY", b |-> x]
SeqF(y) == [k |-> "SEQ", b |-> y]
NfF == [k |-> "NF"]
NilF == [k |-> "NIL"]

-----------------------------------------------------------------------------
(* One row of pl_ops: argument positions are counted from 1, strict and    *)
(* deep are the sets the masks stand for.                                  *)
Op(set, f, argc, strict, deep) ==
    [set |-> set, f |-> f, argc |-> argc, strict |-> strict, deep |-> deep,
     coord |-> FALSE]

CaseNames == <<"Case2", "Case3", "Case4", "Case5", "Case6", "Case7", "Case8", "Case9",
               "Case10", "Case11", "Case12", "Case13", "Case14", "Case15", "Case16">>
IxNames == <<"Ix0", "Ix1", "Ix2", "Ix3", "Ix4", "Ix5", "Ix6", "Ix7">>
TruncNames == <<"Trunc8", "Trunc16", "Trunc32", "Trunc64">>
NatNames2 == <<"Add", "Sub", "Mul", "Div", "Mod", "Rsh", "Lsh", "Test", "Nib", "Load8",
               "Set", "Clear", "Trunc", "Eq", "Ne", "Lt", "Le", "Gt", "Ge", "Cmp">>
Strict1 == <<"Inc", "Dec", "Bex", "Bits", "Bytes", "Unpin", "Type", "IsPin", "IsLaw",
             "IsApp", "IsNat", "Nat", "Arity", "Name", "Body", "Hd", "Load", "Nil",
             "Truth", "Sz", "Last", "Init">>

Rows(names, argc, strict) ==
    [i \in DOMAIN names |-> Op(66, names[i], argc, strict, {})]

OpTable ==
    << Op(0, "Pin", 1, {1}, {}), Op(0, "Law", 3, {1, 2, 3}, {}), Op(0, "Elim", 6, {6}, {}),
       Op(66, "Pin", 1, {1}, {}), Op(66, "Law", 3, {1, 2, 3}, {}), Op(66, "Elim", 6, {6}, {}),
       Op(66, "Case", 3, {1, 2}, {}), Op(66, "LoadVar", 3, {1, 2, 3}, {}),
       Op(66, "Store8", 3, {1, 2, 3}, {}), Op(66, "Seq", 2, {1}, {}),
       Op(66, "Seq2", 3, {1, 2}, {}), Op(66, "Seq3", 4, {1, 2, 3}, {}),
       Op(66, "Sap", 2, {2}, {}), Op(66, "Sap2", 3, {2, 3}, {}),
       Op(66, "Row", 3, {1, 2}, {}), Op(66, "Rep", 3, {1, 3}, {}),
       Op(66, "Slice", 3, {1, 2, 3}, {}), Op(66, "Weld", 2, {1, 2}, {}),
       Op(66, "Force", 1, {}, {}), Op(66, "DeepSeq", 2, {}, {}),
       Op(66, "Up", 3, {1, 3}, {}), Op(66, "UpUniq", 3, {1, 3}, {}),
       Op(66, "Coup", 2, {1, 2}, {}), Op(66, "Try", 2, {}, {}),
       Op(66, "Throw", 1, {1}, {1}), Op(66, "Ix", 2, {1, 2}, {}),
       Op(66, "Trace", 2, {}, {1}), Op(66, "Or", 2, {1}, {}), Op(66, "Nor", 2, {1}, {}),
       Op(66, "And", 2, {1}, {}), Op(66, "If", 3, {1}, {}), Op(66, "Ifz", 3, {1}, {}),
       Op(66, "Equal", 2, {1, 2}, {1, 2}), Op(66, "Memo", 2, {1, 2}, {}),
       [Op(82, "Spawn", 1, {}, {1}) EXCEPT !.coord = TRUE],
       [Op(82, "Send", 2, {1}, {2}) EXCEPT !.coord = TRUE],
       [Op(82, "Recv", 1, {1}, {}) EXCEPT !.coord = TRUE],
       Op(82, "Now", 1, {}, {}) >>
    \o [i \in DOMAIN CaseNames |-> Op(66, CaseNames[i], i + 2, {1}, {})]
    \o Rows(IxNames, 1, {1}) \o Rows(TruncNames, 1, {1})
    \o Rows(NatNames2, 2, {1, 2}) \o Rows(Strict1, 1, {1})

(* A name is a nat: of op set 0 the subop number, of the others a mote,    *)
(* here a number of its own.                                               *)
MoteBase == 200
OpIndex(set, f) == CHOOSE i \in DOMAIN OpTable : OpTable[i].set = set /\ OpTable[i].f = f
RowName(i) == IF OpTable[i].set = 0 THEN i - 1 ELSE MoteBase + i
Mote(set, f) == Num(RowName(OpIndex(set, f)))

(* pl_op_lookup: 0 when there is no such operation.                        *)
OpLookup(set, name, argc) ==
    LET found == {i \in DOMAIN OpTable :
                    /\ OpTable[i].set = set
                    /\ OpTable[i].argc = argc
                    /\ IsNat(name) /\ name.n = RowName(i)}
    IN  IF found = {} THEN 0 ELSE CHOOSE i \in found : TRUE

-----------------------------------------------------------------------------
(* op_pin, op_law and op_elim.                                             *)
LawOf(a) == Gives(Law(Coerce(a[1]) + 1, a[2], a[3]))

Elim(a) ==
    LET o == a[6]
    IN  CASE o = Zero -> Gives(a[4])
          [] IsNat(o) /\ o # Zero -> GivesUnder(a[5], <<ApplyF(Num(o.n - 1))>>)
          [] IsPin(o) -> GivesUnder(a[1], <<ApplyF(o.v)>>)
          [] IsLaw(o) -> GivesUnder(a[2], <<ApplyF(o.b), ApplyF(o.m), ApplyF(Num(o.a))>>)
          [] IsApp(o) ->
               LET n == Len(o.xs)
                   ini == IF n = 1 THEN o.f ELSE AppTake(o, n - 1)
               IN  GivesUnder(a[3], <<ApplyF(o.xs[n]), ApplyF(ini)>>)

(* The arithmetic and bit operations, on the coerced arguments.            *)
Monus(x, y) == IF x > y THEN x - y ELSE 0
BitAt(i, x) == (x \div 2^i) % 2
BitLen(x) == IF x = 0 THEN 0 ELSE CHOOSE b \in 1..40 : 2^(b - 1) <= x /\ x < 2^b
ByteAt(i, x) == (x \div 2^(8 * i)) % 256

NatOp2(f, x, y) ==
    CASE f = "Add" -> x + y
      [] f = "Sub" -> Monus(x, y)
      [] f = "Mul" -> x * y
      [] f = "Div" -> x \div y
      [] f = "Mod" -> x % y
      [] f = "Rsh" -> x \div 2^y
      [] f = "Lsh" -> x * 2^y
      [] f = "Test" -> BitAt(x, y)
      [] f = "Set" -> y + (1 - BitAt(x, y)) * 2^x
      [] f = "Clear" -> y - BitAt(x, y) * 2^x
      [] f = "Nib" -> (ByteAt(x \div 2, y) \div 16^(x % 2)) % 16
      [] f = "Load8" -> ByteAt(x, y)
      [] f = "Trunc" -> y % 2^x

NatOp1(f, x) ==
    CASE f = "Inc" -> x + 1
      [] f = "Dec" -> Monus(x, 1)
      [] f = "Bex" -> 2^x
      [] f = "Bits" -> BitLen(x)
      [] f = "Bytes" -> (BitLen(x) + 7) \div 8

NatOp3(f, x, y, z) ==
    CASE f = "LoadVar" -> (z \div 2^(8 * x)) % 2^(8 * y)
      [] f = "Store8" -> z + ((y % 256) - ByteAt(x, z)) * 2^(8 * x)

CompareOp(f, x, y) ==
    CASE f = "Eq" -> Truth(x = y)
      [] f = "Ne" -> Truth(x # y)
      [] f = "Lt" -> Truth(x < y)
      [] f = "Le" -> Truth(x <= y)
      [] f = "Gt" -> Truth(x > y)
      [] f = "Ge" -> Truth(x >= y)
      [] f = "Cmp" -> Num(IF x < y THEN 0 ELSE IF x = y THEN 1 ELSE 2)

CompareNames == {"Eq", "Ne", "Lt", "Le", "Gt", "Ge", "Cmp"}

NatOp(f, a) ==
    LET x == Coerce(a[1])
        y == Coerce(a[2])
        z == Coerce(a[3])
    IN  CASE f \in {"Div", "Mod"} /\ y = 0 -> Fails
          [] f \in {"LoadVar", "Store8"} -> Gives(Num(NatOp3(f, x, y, z)))
          [] f \in {"Inc", "Dec", "Bex", "Bits", "Bytes"} -> Gives(Num(NatOp1(f, x)))
          [] f \in Range(TruncNames) ->
               Gives(Num(x % 2^(8 * 2^(CHOOSE i \in 0..3 : TruncNames[i + 1] = f))))
          [] f \in CompareNames -> Gives(CompareOp(f, x, y))
          [] OTHER -> Gives(Num(NatOp2(f, x, y)))

-----------------------------------------------------------------------------
(* Booleans and branches: only the scrutinee is forced.  Nor forces its    *)
(* second argument through a frame.                                        *)
BranchOp(f, a) ==
    LET n == Len(a)
    IN  CASE f = "Nil" -> Gives(Truth(a[1] = Zero))
          [] f = "Truth" -> Gives(Truth(a[1] # Zero))
          [] f = "Or" -> Gives(IF a[1] = Zero THEN a[2] ELSE a[1])
          [] f = "And" -> Gives(IF a[1] = Zero THEN Zero ELSE a[2])
          [] f = "Nor" -> IF a[1] # Zero THEN Gives(Zero) ELSE GivesUnder(a[2], <<NilF>>)
          [] f = "If" -> Gives(IF a[1] # Zero THEN a[2] ELSE a[3])
          [] f = "Ifz" -> Gives(IF a[1] = Zero THEN a[2] ELSE a[3])
          [] f = "Case" -> Gives(IF IsApp(a[2]) /\ IsNat63(a[1]) /\ a[1].n < Len(a[2].xs)
                                 THEN a[2].xs[a[1].n + 1] ELSE a[3])
          [] f \in Range(CaseNames) ->
               Gives(IF IsNat63(a[1]) /\ a[1].n < n - 2 THEN a[2 + a[1].n] ELSE a[n])

(* Inspection of a value.                                                  *)
InspectOp(f, x) ==
    CASE f = "Type" -> Num(CASE IsNat(x) -> 0 [] IsPin(x) -> 1 [] IsLaw(x) -> 2 [] IsApp(x) -> 3)
      [] f = "IsPin" -> Truth(IsPin(x))
      [] f = "IsLaw" -> Truth(IsLaw(x))
      [] f = "IsApp" -> Truth(IsApp(x))
      [] f = "IsNat" -> Truth(IsNat(x))
      [] f = "Nat" -> Num(Coerce(x))
      [] f = "Arity" -> IF IsLaw(x) THEN Num(x.a) ELSE Zero
      [] f = "Name" -> IF IsLaw(x) THEN x.m ELSE Zero
      [] f = "Body" -> IF IsLaw(x) THEN x.b ELSE Zero
      [] f = "Unpin" -> IF IsPin(x) THEN x.v ELSE Zero
      [] f = "Sz" -> Num(IF IsApp(x) THEN Len(x.xs) ELSE 0)
      [] f = "Hd" -> IF IsApp(x) THEN x.f ELSE x
      [] f = "Last" -> IF IsApp(x) THEN x.xs[Len(x.xs)] ELSE Zero
      [] f = "Init" -> IF ~IsApp(x) THEN Zero
                       ELSE IF Len(x.xs) = 1 THEN x.f ELSE AppTake(x, Len(x.xs) - 1)

InspectNames == {"Type", "IsPin", "IsLaw", "IsApp", "IsNat", "Nat", "Arity", "Name",
                 "Body", "Unpin", "Sz", "Hd", "Last", "Init"}

(* Rows: projections, functional update, slices, concatenation.            *)
At(i, v) == IF IsApp(v) /\ i < Len(v.xs) THEN v.xs[i + 1] ELSE Zero

Slice(o, n, v) ==
    LET sz == Len(v.xs)
        m == IF sz - o < n THEN sz - o ELSE n
    IN  IF ~IsApp(v) THEN Zero
        ELSE IF o > sz \/ m = 0 THEN Zero
        ELSE App(Zero, SubSeq(v.xs, o + 1, o + m))

Weld(x, y) ==
    LET xs == (IF IsApp(x) THEN x.xs ELSE <<>>) \o (IF IsApp(y) THEN y.xs ELSE <<>>)
    IN  IF xs = <<>> THEN Zero ELSE App(Zero, xs)

Coup(hd, x) ==
    IF ~IsApp(x) THEN Gives(hd)
    ELSE IF Arity(hd) > Len(x.xs) THEN Gives(AppCat(hd, x.xs))
    ELSE GivesUnder(hd, Reverse([i \in DOMAIN x.xs |-> ApplyF(x.xs[i])]))

RowOp(f, a) ==
    CASE f = "Ix" -> Gives(At(Coerce(a[1]), a[2]))
      [] f \in Range(IxNames) ->
           Gives(At((CHOOSE i \in DOMAIN IxNames : IxNames[i] = f) - 1, a[1]))
      [] f \in {"Up", "UpUniq"} ->
           Gives(IF IsApp(a[3]) /\ Coerce(a[1]) < Len(a[3].xs)
                 THEN [a[3] EXCEPT !.xs[Coerce(a[1]) + 1] = a[2]] ELSE a[3])
      [] f = "Slice" -> Gives(Slice(Coerce(a[1]), Coerce(a[2]), a[3]))
      [] f = "Weld" -> Gives(Weld(a[1], a[2]))
      [] f = "Rep" -> Gives(IF Coerce(a[3]) = 0 THEN Num(Coerce(a[1]))
                            ELSE App(Num(Coerce(a[1])), [i \in 1..Coerce(a[3]) |-> a[2]]))
      [] f = "Coup" -> Coup(a[1], a[2])

RowNames == {"Ix", "Up", "UpUniq", "Slice", "Weld", "Rep", "Coup"} \cup Range(IxNames)

(* op_row: element k is the unforced Ix0 (Ix1^k xs), each over an          *)
(* environment of its own; ix0 and ix1 are the store's two expressions.    *)
OpExpr(f) == App(Zero, <<Pin(Num(66)), App(Zero, <<Mote(66, f), One>>)>>)

RowCells(n, xs, top) ==
    LET envOf(k) == top + 3 * k + 1
        prefix(k) == IF k = 0 THEN xs ELSE Ref(envOf(k - 1) + 2)
    IN  [j \in 1..(3 * n - 1) |->
           LET k == (j - 1) \div 3
           IN  CASE j % 3 = 1 -> Env(<<Zero, prefix(k)>>)
                 [] j % 3 = 2 -> Thunk(envOf(k), OpExpr("Ix0"))
                 [] j % 3 = 0 -> Thunk(envOf(k), OpExpr("Ix1"))]

OpRow(a, h) ==
    LET n == Coerce(a[2])
    IN  IF n = 0 THEN Gives(Num(Coerce(a[1])))
        ELSE [Gives(App(Num(Coerce(a[1])), [k \in 1..n |-> Ref(Len(h) + 3 * (k - 1) + 2)]))
                EXCEPT !.cells = RowCells(n, a[3], Len(h))]

(* Sequencing, forcing, exceptions and tracing.                            *)
SeqOp(f, a) ==
    CASE f = "Seq" -> Gives(a[2])
      [] f = "Seq2" -> Gives(a[3])
      [] f = "Seq3" -> Gives(a[4])
      [] f = "Sap" -> GivesUnder(a[1], <<ApplyF(a[2])>>)
      [] f = "Sap2" -> GivesUnder(a[1], <<ApplyF(a[3]), ApplyF(a[2])>>)
      [] f = "Force" -> GivesUnder(a[1], <<NfF>>)
      [] f = "DeepSeq" -> GivesUnder(a[1], <<SeqF(a[2]), NfF>>)
      [] f = "Throw" -> Raises(a[1])
      [] f = "Load" -> Fails
      [] f = "Trace" -> [Gives(a[2]) EXCEPT !.bump = TRUE]

SeqNames == {"Seq", "Seq2", "Seq3", "Sap", "Sap2", "Force", "DeepSeq", "Throw", "Load", "Trace"}

(* The actor operations only check their arguments and rebuild the request *)
(* spine (rplan.c); Now stands for the direct effects.                     *)
RequestOp(f, name, a) ==
    CASE f = "Send" /\ ~IsNat(a[1]) -> Fails
      [] f = "Recv" /\ a[1] # Zero -> Fails
      [] OTHER -> Gives(App(name, a))

(* op_equal: both arguments are deeply normal.                             *)
OpEqual(a, h) == Gives(Truth(Plain(h, a[1]) = Plain(h, a[2])))

OpBody(i, name, a, h) ==
    LET f == OpTable[i].f
    IN  CASE f = "Pin" -> Gives(Proxy(a[1]))
          [] f = "Law" -> LawOf(a)
          [] f = "Elim" -> Elim(a)
          [] f \in {"Nil", "Truth", "Or", "And", "Nor", "If", "Ifz", "Case"} \cup Range(CaseNames) ->
               BranchOp(f, a)
          [] f \in InspectNames -> Gives(InspectOp(f, a[1]))
          [] f = "Row" -> OpRow(a, h)
          [] f \in RowNames -> RowOp(f, a)
          [] f \in SeqNames -> SeqOp(f, a)
          [] f = "Equal" -> OpEqual(a, h)
          [] OpTable[i].coord -> RequestOp(f, name, a)
          [] f = "Now" -> Gives(Num(7))
          [] OTHER -> NatOp(f, a)
=============================================================================
