------------------------------ MODULE SiloCodec ------------------------------
(***************************************************************************)
(* The Silo stream of a pin's body (silo.c): the canonical writer and the  *)
(* reader, which validates a stream as it decodes it.  The two passes of   *)
(* the reader (scan, then build) read the same bytes and take the same     *)
(* way, so they are one pass here.                                         *)
(*                                                                         *)
(* A stream is a sequence of tokens: opcodes, bytes (digits in base Base), *)
(* hashes and checksums.  A hash or a checksum is the term it is taken of, *)
(* so equal hashes mean equal contents.  A pin inside a value stands for   *)
(* its own hash.                                                           *)
(*                                                                         *)
(* A behaviour either writes a chosen value and reads the stream back, or  *)
(* reads an arbitrary stream, chosen token by token as the reader asks for *)
(* it, and writes what it has decoded.  The reader is the general one that *)
(* loads run; the conditions only the canonical one (d->canonical) adds    *)
(* are collected in the flag strict.  A reader or a writer that finds      *)
(* fault with its input stops.                                             *)
(***************************************************************************)
EXTENDS PlanValues, FiniteSetsExt

CONSTANTS Base, Bits,     \* a byte has Base values and Bits bits
          SmolMax,        \* the largest nat in a SMOL opcode (63)
          MediumMax,      \* the most bytes of a MEDIUM nat (31)
          Cutover,        \* the most bytes of a BIG nat (8192)
          LeafBytes,      \* bytes in a leaf of an MNAT (1024)
          PageBytes,      \* bytes in a page of an MNAT (65536)
          AppMax,         \* arguments in one APP opcode (15)
          MaxWidth,       \* bytes in the widest scalar (8)
          MaxNatBytes,    \* PL_SILO_MAX_NAT_BYTES
          MaxDepth,       \* PL_SILO_MAX_DEPTH
          Values,         \* values to write and read back
          Pins,           \* pins an arbitrary stream may name
          Hints,          \* nats whose hashes an arbitrary stream may hold
          MaxRead,        \* the most tokens one read of such a stream takes
          MaxNodes        \* the most nodes of such a stream

ASSUME SiloCodecAssumption ==
    /\ Base = 2^Bits /\ SmolMax < Base
    /\ 0 < MediumMax /\ MediumMax < Cutover /\ Cutover < MaxNatBytes
    /\ PageBytes % LeafBytes = 0

VARIABLES origin,      \* "value": written first; "any": an arbitrary stream
          phase,       \* "encode", "decode" or "done"
          value,       \* what the writer writes
          out,         \* what it has written
          work,        \* what it still has to write, top first
          stream,      \* what the reader reads, or has been given so far
          pos,         \* how much it has read
          table,       \* the pin table of the stream
          used,        \* indices into the table, in the order it met them
          calls,       \* the reader's call stack, top first
          strict       \* the canonical reader would not have stopped yet

vars == <<origin, phase, value, out, work, stream, pos, table, used, calls, strict>>
wvars == <<value, out, work>>
rvars == <<stream, pos, table, used, calls, strict>>

-----------------------------------------------------------------------------
(* Tokens and scalars (put64le, getle, width_u64).                         *)
Op(k, n) == <<"op", k, n>>
Byte(b) == <<"byte", b>>
Hash(h) == <<"hash", h>>

Le(v, w) == <<>> \o [i \in 1..w |-> Byte((v \div Base^(i - 1)) % Base)]
RECURSIVE GetLe(_)
GetLe(toks) == IF toks = <<>> THEN 0 ELSE Head(toks)[2] + Base * GetLe(Tail(toks))
Width(v) == CHOOSE w \in 1..30 : v < Base^w /\ (w = 1 \/ v >= Base^(w - 1))

(* pl_nat_byte_len, nat_bit_length and the bytes of a nat.                 *)
ByteLen(n) == IF n = 0 THEN 0 ELSE Width(n)
BitLen(n) == CHOOSE b \in 0..30 : n < 2^b /\ (b = 0 \/ n >= 2^(b - 1))
NatBytes(n, off, len) == Le(n \div Base^off, len)

(* split_power: the largest power of two below n.                          *)
SplitPower(n) == CHOOSE k \in {2^i : i \in 0..8} : k < n /\ n <= 2 * k

LeafCount(len) == (len + LeafBytes - 1) \div LeafBytes
LeafHash(index, bytes) == <<"leaf", index, bytes>>
NodeHash(start, count, l, r) == <<"node", start, count, l, r>>
RootHash(bits, tree) == <<"root", bits, tree>>

(* mnat_build: the hash of the tree over count leaves of n from start on.  *)
RECURSIVE TreeHash(_, _, _)
TreeHash(n, start, count) ==
    IF count = 1
    THEN LET off == start * LeafBytes
         IN  LeafHash(start, NatBytes(n, off, Min({LeafBytes, ByteLen(n) - off})))
    ELSE LET k == SplitPower(count)
         IN  NodeHash(start, count, TreeHash(n, start, k), TreeHash(n, start + k, count - k))

(* The right siblings on the way from the root to the first leaf.          *)
RECURSIVE Spine(_)
Spine(count) ==
    IF count = 1 THEN <<>>
    ELSE LET k == SplitPower(count)
         IN  <<[start |-> k, count |-> count - k]>> \o Spine(k)

(* The queues of unopened nodes are kept sorted by their first leaf        *)
(* (node_queue_insert, unopened_insert): sets, taken from at the least.    *)
LastOpened(queue) == CHOOSE i \in queue : \A j \in queue : i.start >= j.start

First(queue) == CHOOSE i \in queue : \A j \in queue : i.start <= j.start

Halves(i) ==
    LET k == SplitPower(i.count)
    IN  <<[start |-> i.start, count |-> k], [start |-> i.start + k, count |-> i.count - k]>>

Unopened(intervals) == {i \in intervals : i.count > 1}

(* The table the savers hand to the writer: the pins a value names, in the *)
(* order of their first occurrence (pin.c, save_collect_direct).           *)
RECURSIVE PinsIn(_)
PinsIn(v) ==
    IF IsPin(v) THEN <<v>>
    ELSE FoldLeft(LAMBDA acc, w : acc \o SelectSeq(PinsIn(w), LAMBDA p : ~Contains(acc, p)),
                  <<>>, NfFields(v))
-----------------------------------------------------------------------------
(* The writer.  Work is a stack of nodes, ranges of an APP's arguments,    *)
(* arities and half-written MNATs.                                         *)
Node(v, d) == [w |-> "node", v |-> v, d |-> d]
AppRange(f, xs, d) == [w |-> "range", f |-> f, xs |-> xs, d |-> d]
ArityOf(a) == [w |-> "arity", n |-> a]
Pages(n, off, page, queue) == [w |-> "mnat", n |-> n, off |-> off, page |-> page, queue |-> queue]

(* pl_silo_encode_resolved up to the root node: the magic, the length of   *)
(* the pin table (swrite_varnat) and the pins' hashes.                     *)
HeaderTokens(pins) ==
    LET n == Len(pins)
        w == IF n = 0 THEN 0 ELSE Width(n)
    IN  <<Op("magic", 0), Byte(w)>> \o Le(n, w) \o [i \in DOMAIN pins |-> Hash(pins[i])]

(* encode_node of a nat that is no MNAT, and encode_u64_nat.               *)
NatTokens(n) ==
    LET len == ByteLen(n)
        body == NatBytes(n, 0, len)
    IN  CASE n <= SmolMax -> <<Op("smol", n)>>
          [] n > SmolMax /\ len <= MediumMax -> <<Op("medium", len)>> \o body
          [] len > MediumMax -> <<Op("big", Width(len))>> \o Le(len, Width(len)) \o body

(* encode_mnat up to the pages: the sizes, the root hash and the proof of  *)
(* the first leaf.                                                         *)
MnatTokens(n) ==
    LET len == ByteLen(n)
        leaves == LeafCount(len)
        spine == Spine(leaves)
        lw == Width(BitLen(n))
        pw == Width(Min({len, PageBytes}))
    IN  <<Op("mnat", 0), Byte(0), Byte(lw - 1), Byte(pw - 1)>> \o Le(BitLen(n), lw)
        \o <<Hash(RootHash(BitLen(n), TreeHash(n, 0, leaves))), Hash(TreeHash(n, 0, 1))>>
        \o [i \in DOMAIN spine |-> Hash(TreeHash(n, spine[i].start, spine[i].count))]

Writes(toks, items) ==
    /\ phase = "encode"
    /\ out' = out \o toks
    /\ work' = items \o Tail(work)
    /\ UNCHANGED <<origin, phase, value, rvars>>

Todo(w) == phase = "encode" /\ work # <<>> /\ Head(work).w = w

(* encode_node, one action per kind of value.                              *)
EncodeNat ==
    /\ Todo("node") /\ Head(work).d <= MaxDepth /\ IsNat(Head(work).v)
    /\ LET n == Head(work).v.n
        IN  IF ByteLen(n) <= Cutover
            THEN Writes(NatTokens(n), <<>>)
            ELSE Writes(MnatTokens(n),
                        <<Pages(n, 0, 0, Unopened(ToSet(Spine(LeafCount(ByteLen(n))))))>>)

EncodePin ==
    /\ Todo("node") /\ Head(work).d <= MaxDepth /\ IsPin(Head(work).v)
    /\ \E i \in DOMAIN PinsIn(value) :
          /\ PinsIn(value)[i] = Head(work).v
          /\ Writes(<<Op("pin", Width(i - 1))>> \o Le(i - 1, Width(i - 1)), <<>>)

EncodeLaw ==
    /\ Todo("node") /\ Head(work).d <= MaxDepth /\ IsLaw(Head(work).v)
    /\ LET t == Head(work)
        IN  /\ t.v.a \in 1..Nat63Max
            /\ Writes(<<Op("law", 0)>>,
                      <<Node(t.v.m, t.d + 1), ArityOf(t.v.a), Node(t.v.b, t.d + 1)>>)

EncodeArity == Todo("arity") /\ Writes(NatTokens(Head(work).n), <<>>)

EncodeApp ==
    /\ Todo("node") /\ Head(work).d <= MaxDepth /\ IsApp(Head(work).v)
    /\ Writes(<<>>, <<AppRange(Head(work).v.f, Head(work).v.xs, Head(work).d)>>)

(* encode_app_range: all but the outermost APP carry AppMax arguments.     *)
OuterFull(n) == IF n <= AppMax THEN n ELSE AppMax

Outer(n) == IF n <= AppMax THEN n ELSE IF n % AppMax = 0 THEN AppMax ELSE n % AppMax

EncodeAppRange ==
    /\ Todo("range") /\ Head(work).d <= MaxDepth
    /\ LET t == Head(work)
            n == Len(t.xs)
            inner == n - Outer(n)
            args == [i \in 1..Outer(n) |-> Node(t.xs[inner + i], t.d + 1)]
            head == IF inner = 0 THEN Node(t.f, t.d + 1)
                    ELSE AppRange(t.f, SubSeq(t.xs, 1, inner), t.d + 1)
        IN  Writes(<<Op("app", Outer(n))>>, <<head>> \o args)

(* The payload loop of encode_mnat, a leaf's share of a page at a time: a  *)
(* page starts with its length, and each completed leaf is followed by the *)
(* two halves of the first unopened node.                                  *)
EncodeLeaf ==
    /\ Todo("mnat")
    /\ LET t == Head(work)
            len == ByteLen(t.n)
            pw == Width(Min({len, PageBytes}))
            fresh == t.page = 0
            page == IF fresh THEN Min({len - t.off, PageBytes}) ELSE t.page
            seg == Min({page, LeafBytes - (t.off % LeafBytes)})
            off == t.off + seg
            full == off % LeafBytes = 0 \/ off = len
            opens == full /\ t.queue # {}
            node == First(t.queue)
            halves == IF opens THEN Halves(node) ELSE <<>>
            queue == IF opens THEN (t.queue \ {node}) \cup Unopened(ToSet(halves)) ELSE t.queue
        IN  /\ off = len => queue = {}
            /\ Writes((IF fresh THEN Le(page, pw) ELSE <<>>)
                        \o NatBytes(t.n, t.off, seg)
                        \o [i \in DOMAIN halves |->
                               Hash(TreeHash(t.n, halves[i].start, halves[i].count))],
                      IF off = len THEN <<>> ELSE <<Pages(t.n, off, page - seg, queue)>>)

(* The writer has written the root node: a chosen value is read back.      *)
Written ==
    /\ phase = "encode" /\ work = <<>>
    /\ IF origin = "value"
       THEN /\ phase' = "decode"
            /\ stream' = out
            /\ UNCHANGED <<pos, table, used, calls, strict>>
       ELSE phase' = "done" /\ UNCHANGED rvars
    /\ UNCHANGED <<origin, wvars>>
-----------------------------------------------------------------------------
(* The reader.  Frames of its call stack: the header, a node still to be   *)
(* read, an APP or a LAW with what it has got, an MNAT, a returned value.  *)
Read(d) == [f |-> "node", d |-> d]
Return(v, wire) == [f |-> "ret", v |-> v, wire |-> wire]

(* The tokens a read of n may find p tokens ahead: those of the stream, or *)
(* any tokens of the set S, which then become the stream's.                *)
Tokens(p, n, S) ==
    LET end == pos + p + n
    IN  IF origin = "value"
        THEN IF end > Len(stream) THEN {} ELSE {SubSeq(stream, pos + p + 1, end)}
        ELSE IF n > MaxRead THEN {} ELSE {<<>> \o t : t \in [1..n -> S]}

Consume(toks, frames) ==
    /\ phase = "decode"
    /\ pos' = pos + Len(toks)
    /\ stream' = IF origin = "value" THEN stream ELSE stream \o toks
    /\ calls' = frames \o Tail(calls)
    /\ UNCHANGED <<origin, phase, wvars>>

Calling(f) == phase = "decode" /\ Head(calls).f = f

AnyByte == {Byte(b) : b \in 0..(Base - 1)}
(* Opcodes an arbitrary stream may hold: its long nats are its root.       *)
AnyOp ==
    {Op("smol", n) : n \in 0..SmolMax} \cup {Op("app", n) : n \in 1..AppMax}
    \cup {Op("pin", n) : n \in 1..2} \cup {Op("law", 0)}
    \cup (IF Len(calls) > 1 \/ table # <<>> THEN {}
          ELSE {Op("medium", n) : n \in 1..MediumMax} \cup {Op("big", 1), Op("big", 2), Op("mnat", 0)})

(* Hashes inside a hash: what an arbitrary stream may offer as its proofs. *)
RECURSIVE Inside(_)
Inside(h) ==
    CASE h[1] = "root" -> Inside(h[3])
      [] h[1] = "node" -> {h} \cup Inside(h[4]) \cup Inside(h[5])
      [] OTHER -> {h}

AnyRoot(bits) ==
    {Hash(RootHash(BitLen(n), TreeHash(n, 0, LeafCount(ByteLen(n))))) :
        n \in {m \in Hints : BitLen(m) \in (bits - 1)..(bits + 1)}}

(* decode_header and decode_varnat.                                        *)
DecodeHeader ==
    /\ Calling("header")
    /\ \E a \in Tokens(0, 2, {Op("magic", 0)} \cup AnyByte) :
        /\ a[1] = Op("magic", 0) /\ a[2][1] = "byte" /\ a[2][2] <= MaxWidth
        /\ LET w == a[2][2]
           IN  \E b \in Tokens(2, w, AnyByte) :
               LET count == GetLe(b)
               IN  /\ w = IF count = 0 THEN 0 ELSE Width(count)
                   /\ \E h \in Tokens(2 + w, count, {Hash(p) : p \in Pins}) :
                        /\ IsInjective(h)
                        /\ table' = [i \in DOMAIN h |-> h[i][2]]
                        /\ Consume(a \o b \o h, <<Read(0)>>)
    /\ UNCHANGED <<used, strict>>

(* A nat of len bytes (decode_contiguous_nat, nat_accum_finish) that       *)
(* follows the tokens seen. The canonical reader accepts it when canonical *)
(* holds (the form of its length) and its value exceeds floor.             *)
ContiguousNat(seen, len, canonical, floor) ==
    /\ len \in 1..MaxNatBytes
    /\ \E b \in Tokens(Len(seen), len, AnyByte) :
        /\ b[len][2] # 0
        /\ strict' = (strict /\ canonical /\ GetLe(b) > floor)
        /\ Consume(seen \o b, <<Return(Num(GetLe(b)), 0)>>)
    /\ UNCHANGED <<table, used>>

(* The opcodes of decode_node, for a node at depth d.                      *)
DecodeSmol(op) ==
    /\ op[2] = "smol"
    /\ Consume(<<op>>, <<Return(Num(op[3]), 0)>>)
    /\ UNCHANGED <<table, used, strict>>

DecodeMedium(op) ==
    /\ op[2] = "medium"
    /\ ContiguousNat(<<op>>, op[3], TRUE, SmolMax)

DecodeBig(op) ==
    /\ op[2] = "big"
    /\ \E b \in Tokens(1, op[3], AnyByte) :
         LET len == GetLe(b)
         IN  ContiguousNat(<<op>> \o b, len,
                 op[3] = Width(len) /\ MediumMax < len /\ len <= Cutover, 0)

DecodePin(op) ==
    /\ op[2] = "pin"
    /\ \E b \in Tokens(1, op[3], AnyByte) :
         LET index == GetLe(b)
             fresh == ~Contains(used, index)
         IN  /\ op[3] = Width(index) /\ index < Len(table)
             /\ strict' = (strict /\ (fresh => index = Len(used)))
             /\ used' = IF fresh THEN Append(used, index) ELSE used
             /\ Consume(<<op>> \o b, <<Return(table[index + 1], 0)>>)
    /\ UNCHANGED table

Descend(k, op) ==
    /\ op[2] = k
    /\ LET d == Head(calls).d
       IN  Consume(<<op>>, <<Read(d + 1), [f |-> k, n |-> op[3], d |-> d, got |-> <<>>]>>)
    /\ UNCHANGED <<table, used, strict>>

DecodeApp(op) == Descend("app", op)
DecodeLaw(op) == Descend("law", op)

(* decode_mnat up to the pages: the sizes, the root hash, and the proof of *)
(* the first leaf, which must fold to the root.  What it proves is either  *)
(* the hash of a leaf to come or a node still to be opened.                *)
Fold(first, spine, hashes) ==
    FoldRight(LAMBDA i, h : NodeHash(0, spine[i].start + spine[i].count, h, hashes[i][2]),
              [i \in DOMAIN spine |-> i], first)

Proved(i, h) == [start |-> i.start, count |-> i.count, hash |-> h[2]]

DecodeMnat(op) ==
    /\ op[2] = "mnat"
    /\ \E a \in Tokens(1, 3, AnyByte) :
        LET flags == a[1][2]
            lw == a[2][2] + 1
            pw == a[3][2] + 1
        IN  /\ flags \in {0, 1} /\ lw <= MaxWidth /\ pw <= MaxWidth
            /\ \E b \in Tokens(4, lw, AnyByte) : \E r \in Tokens(4 + lw, 1, AnyRoot(GetLe(b))) :
                LET bits == GetLe(b)
                    len == (bits + Bits - 1) \div Bits
                    spine == Spine(LeafCount(len))
                IN  /\ bits # 0 /\ lw = Width(bits) /\ len <= MaxNatBytes
                    /\ \E p \in Tokens(5 + lw, 1 + Len(spine), {Hash(h) : h \in Inside(r[1][2])}) :
                        LET proved == {Proved([start |-> 0, count |-> 1], p[1])}
                                      \cup {Proved(spine[i], p[i + 1]) : i \in DOMAIN spine}
                        IN  /\ RootHash(bits, Fold(p[1][2], spine, Tail(p))) = r[1][2]
                            /\ strict' = (strict /\ flags = 0 /\ len > Cutover)
                            /\ Consume(<<op>> \o a \o b \o r \o p,
                                 <<[f |-> "mnat", flags |-> flags, bits |-> bits, len |-> len,
                                    pw |-> pw, root |-> r[1][2], bytes |-> <<>>, page |-> 0,
                                    widest |-> 0, crc |-> <<>>, unopened |-> Unopened(proved),
                                    expected |-> proved \ Unopened(proved)]>>)
    /\ UNCHANGED <<table, used>>

(* The next page begins: its length.                                       *)
DecodePage ==
    /\ Calling("mnat")
    /\ LET m == Head(calls)
            left == m.len - Len(m.bytes)
        IN  /\ left > 0 /\ m.page = 0 /\ m.crc = <<>>
            /\ \E b \in Tokens(0, m.pw, AnyByte) :
                /\ GetLe(b) \in 1..left
                /\ strict' = (strict /\ GetLe(b) = Min({left, PageBytes}))
                /\ Consume(b, <<[m EXCEPT !.page = GetLe(b), !.crc = b,
                                          !.widest = Max({@, GetLe(b)})]>>)
    /\ UNCHANGED <<table, used>>

(* A leaf's share of the page.  A completed leaf must have the hash that   *)
(* was proved for it, and then the first unopened node is opened: its two  *)
(* halves must be its halves, and lie ahead.                               *)
DecodeLeaf ==
    /\ Calling("mnat") /\ Head(calls).page > 0
    /\ LET m == Head(calls)
            off == Len(m.bytes)
            leaf == off \div LeafBytes
            seg == Min({m.page, Min({LeafBytes, m.len - leaf * LeafBytes}) - (off % LeafBytes)})
            full == (off + seg) % LeafBytes = 0 \/ off + seg = m.len
            opens == full /\ m.unopened # {}
            node == First(m.unopened)
        IN  \E b \in Tokens(0, seg, AnyByte),
               h \in Tokens(seg, IF opens THEN 2 ELSE 0, {Hash(x) : x \in Inside(m.root)}) :
            LET bytes == m.bytes \o b
                mine == {e \in m.expected : e.start = leaf}
                halves == IF opens THEN {Proved(Halves(node)[j], h[j]) : j \in 1..2} ELSE {}
                ahead == (m.unopened \ (IF opens THEN {node} ELSE {})) \cup m.expected
            IN  /\ full => {e.hash : e \in mine} =
                             {LeafHash(leaf, SubSeq(bytes, leaf * LeafBytes + 1, off + seg))}
                /\ opens => node.hash = NodeHash(node.start, node.count, h[1][2], h[2][2])
                /\ \A x \in halves : /\ x.start > leaf
                                     /\ ~\E y \in ahead : y.start = x.start /\ (y.count = 1) = (x.count = 1)
                /\ LET left == (ahead \cup halves) \ (IF full THEN mine ELSE {})
                   IN  Consume(b \o h,
                         <<[m EXCEPT !.bytes = bytes, !.page = @ - seg,
                                     !.crc = IF m.flags = 0 /\ m.page = seg THEN <<>>
                                             ELSE @ \o b \o h,
                                     !.unopened = Unopened(left),
                                     !.expected = left \ Unopened(left)]>>)
    /\ UNCHANGED <<table, used, strict>>

(* The checksum that ends a page when the flags ask for one.               *)
DecodeCrc ==
    /\ Calling("mnat") /\ Head(calls).page = 0 /\ Head(calls).crc # <<>>
    /\ \E c \in Tokens(0, 1, {<<"crc", Head(calls).crc>>, <<"crc", <<>>>>}) :
        /\ c[1] = <<"crc", Head(calls).crc>>
        /\ Consume(c, <<[Head(calls) EXCEPT !.crc = <<>>]>>)
    /\ UNCHANGED <<table, used, strict>>

(* The end of decode_mnat and nat_accum_finish.                            *)
DecodeMnatEnd ==
    /\ Calling("mnat") /\ Head(calls).page = 0 /\ Head(calls).crc = <<>>
    /\ LET m == Head(calls)
            last == m.bytes[m.len][2]
            top == (m.bits - 1) % Bits
            widest == Min({m.len, PageBytes})
        IN  /\ Len(m.bytes) = m.len /\ m.unopened = {} /\ m.expected = {}
            /\ last \in 2^top..(2^(top + 1) - 1)
            /\ strict' = (strict /\ m.pw = Width(widest) /\ m.widest = widest)
            /\ Consume(<<>>, <<Return(Num(GetLe(m.bytes)), 0)>>)
    /\ UNCHANGED <<table, used>>

(* A node returns to the APP or the LAW that is reading it.                *)
Returns(f) == Calling("ret") /\ Len(calls) > 1 /\ calls[2].f = f

Resume(frames) ==
    /\ calls' = frames \o SubSeq(calls, 3, Len(calls))
    /\ UNCHANGED <<origin, phase, wvars, stream, pos, table, used>>

Got == Append(calls[2].got, calls[1].v)

More == <<Read(calls[2].d + 1), [calls[2] EXCEPT !.got = Got]>>

ReturnToApp ==
    /\ Returns("app")
    /\ strict' = (strict /\ (Len(Got) = 1 /\ IsApp(Got[1]) => calls[1].wire = AppMax))
    /\ Resume(IF Len(Got) <= calls[2].n THEN More
              ELSE <<Return(AppCat(Got[1], Tail(Got)), calls[2].n)>>)

ReturnToLaw ==
    /\ Returns("law")
    /\ Len(Got) = 2 => IsNat63(Got[2]) /\ Got[2].n # 0
    /\ Resume(IF Len(Got) < 3 THEN More ELSE <<Return(Law(Got[2].n, Got[1], Got[3]), 0)>>)
    /\ UNCHANGED strict

(* The end of pl_silo_scan_stream: nothing follows the root node.  What an *)
(* arbitrary stream held is written again, as a load does to compare the   *)
(* hash of what it decoded with the hash it asked for.                     *)
Accept ==
    /\ Calling("ret") /\ Len(calls) = 1 /\ pos = Len(stream)
    /\ strict' = (strict /\ Len(used) = Len(table))
    /\ IF origin = "value" THEN phase' = "done" /\ UNCHANGED wvars
       ELSE /\ phase' = "encode"
            /\ value' = calls[1].v
            /\ out' = HeaderTokens(PinsIn(calls[1].v))
            /\ work' = <<Node(calls[1].v, 0)>>
    /\ UNCHANGED <<origin, stream, pos, table, used, calls>>

-----------------------------------------------------------------------------
Init ==
    /\ \/ /\ origin = "value" /\ phase = "encode"
          /\ value \in Values
          /\ out = HeaderTokens(PinsIn(value))
          /\ work = <<Node(value, 0)>>
       \/ /\ origin = "any" /\ phase = "decode"
          /\ value = Zero /\ out = <<>> /\ work = <<>>
    /\ stream = <<>> /\ pos = 0 /\ table = <<>> /\ used = <<>>
    /\ calls = <<[f |-> "header"]>>
    /\ strict = TRUE

Encode ==
    \/ EncodeNat \/ EncodePin \/ EncodeLaw \/ EncodeArity \/ EncodeApp \/ EncodeAppRange
    \/ EncodeLeaf \/ Written

DecodeNode ==
    /\ Calling("node") /\ Head(calls).d <= MaxDepth
    /\ origin = "any" => Cardinality({i \in DOMAIN stream : stream[i][1] = "op"}) <= MaxNodes
    /\ \E op \in UNION {ToSet(t) : t \in Tokens(0, 1, AnyOp)} :
        \/ DecodeSmol(op) \/ DecodeMedium(op) \/ DecodeBig(op) \/ DecodeMnat(op)
        \/ DecodePin(op) \/ DecodeApp(op) \/ DecodeLaw(op)

Decode ==
    \/ DecodeHeader \/ DecodeNode \/ DecodePage \/ DecodeLeaf \/ DecodeCrc \/ DecodeMnatEnd
    \/ ReturnToApp \/ ReturnToLaw \/ Accept

Next == Encode \/ Decode

(* The codec runs in the calling thread until it returns.                  *)
Spec == Init /\ [][Next]_vars /\ WF_vars(Next)

-----------------------------------------------------------------------------
(* What is written is read back: the reader accepts every stream of the    *)
(* writer and decodes the value it was written from; and what the          *)
(* canonical reader accepts of arbitrary streams can be written again.     *)
RoundTrip ==
    /\ (origin = "value") ~> (phase = "done" /\ calls[1].v = value)
    /\ (origin = "any" /\ phase = "encode" /\ strict) ~> (phase = "done")

(* A value has one canonical stream: the canonical reader accepts exactly  *)
(* the streams that the writer makes of what they decode to.  So a hash    *)
(* names one value, and a load that compares hashes accepts no other.      *)
OneStream == phase = "done" => (strict <=> out = stream)
=============================================================================
