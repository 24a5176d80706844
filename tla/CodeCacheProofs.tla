-------------------------- MODULE CodeCacheProofs --------------------------
(***************************************************************************)
(* CodeIsCurrent holds for every set of threads, laws and compilers, every *)
(* outcome of the compilers and every bound.  The inductive invariant adds *)
(* the types and what a demand under way has noted: from the moment it has *)
(* copied the compiler's hash until it returns, that compiler is still the *)
(* installed one, and the row it decodes is that compiler's row of its     *)
(* law.  Install waits for the save mutex, which such a demand holds.      *)
(***************************************************************************)
EXTENDS CodeCache, TLAPS

MadeRows == {Made(c, l) : c \in Compilers, l \in Laws}
CompilerSlots == {<<>>} \cup {<<c>> : c \in Compilers}

Unlocked == {"register", "claim", "lock", "after", "mark"}
Noted == {"find", "compile", "ingest", "publish"}

Frames ==
    [op : {"demand", "compile"}, law : Laws,
     at : Unlocked \cup {"lookup"} \cup Noted,
     by : CompilerSlots, row : {Null} \cup MadeRows,
     from : {"none", "local", "global", "compile"}, todo : SUBSET Laws]

\* The demand f would be right under the compiler d.
FrameOk(f, d) ==
    /\ f \in Frames
    /\ f.at \in Noted => d # <<>> /\ f.by = d
    /\ f.at \in {"ingest", "publish"} => f.row = Made(d[1], f.law)

AllOk(s, d) ==
    /\ s \in Seq(Frames)
    /\ \A i \in 1..Len(s) : FrameOk(s[i], d)

StackInv ==
    /\ stack \in [Threads -> Seq(Frames)]
    /\ \A t \in Threads : AllOk(stack[t], compiler)

\* x is what the compiler d makes of l.
Right(x, l, d) ==
    \E c \in Compilers : /\ d = <<c>>
                         /\ x = Made(c, l)
                         /\ Outcome[<<c, l>>] = "code"

\* Only a registered law has code, so that Install finds it.
SlotInv ==
    /\ slot \in [Laws -> {Null, None, Pending} \cup MadeRows]
    /\ \A l \in Laws : slot[l] \in MadeRows =>
          Right(slot[l], l, compiler) /\ l \in reg

CacheInv ==
    /\ cache \in [Laws -> {Null} \cup MadeRows]
    /\ \A l \in Laws : cache[l] \in MadeRows => Right(cache[l], l, compiler)

BlockInv ==
    /\ lawblk \in [InnerLaws -> {Null} \cup MadeRows]
    /\ \A i \in InnerLaws : lawblk[i] \in MadeRows =>
          \E l \in Laws : i \in Inner[l] /\ Right(lawblk[i], l, compiler)

\* Every row is under its own key.
RowsOk(r) ==
    /\ r \in [Keys -> {Null} \cup MadeRows]
    /\ \A c \in Compilers, l \in Laws : r[<<c, l>>] \in {Null, Made(c, l)}

IInv ==
    /\ compiler \in CompilerSlots
    /\ reg \subseteq Laws
    /\ StackInv
    /\ SlotInv
    /\ CacheInv
    /\ BlockInv
    /\ RowsOk(rows) /\ RowsOk(staged) /\ RowsOk(disk)

-----------------------------------------------------------------------------
(* Rows and the sentinel values of a slot *)

\* A code object is none of the sentinels, and names its compiler and law.
LEMMA MadeFacts ==
    /\ \A c, l : IsMade(Made(c, l)) /\ Made(c, l)[2] = c /\ Made(c, l)[3] = l
    /\ \A x \in {Null, None, Pending} : ~IsMade(x) /\ x \notin MadeRows
    /\ \A x \in {Null, None, Pending} \cup MadeRows : IsMade(x) <=> x \in MadeRows
    /\ \A x \in MadeRows :
          \E c \in Compilers, l \in Laws : x = Made(c, l)
  BY DEF Made, IsMade, Null, None, Pending, MadeRows

\* What the compiler of a slot makes of a law is a row.
LEMMA RightIsMade ==
    ASSUME NEW x, NEW l \in Laws, NEW d, Right(x, l, d)
    PROVE  /\ x \in MadeRows
           /\ d # <<>> /\ d[1] \in Compilers /\ d = <<d[1]>>
           /\ x = Made(d[1], l) /\ Outcome[<<d[1], l>>] = "code"
  <1>1. PICK c \in Compilers : d = <<c>> /\ x = Made(c, l)
                              /\ Outcome[<<c, l>>] = "code"
    BY Zenon DEF Right
  <1>2. d # <<>> /\ d[1] = c
    BY Zenon, <1>1
  <1> QED
    BY <1>1, <1>2 DEF MadeRows

-----------------------------------------------------------------------------
(* The stack of demands *)

\* The innermost demand may be replaced, a new one started, or it may return.
LEMMA AllOkSteps ==
    ASSUME NEW d, NEW s, AllOk(s, d)
    PROVE  /\ s # <<>> => Head(s) \in Frames /\ FrameOk(Head(s), d) /\ AllOk(Tail(s), d)
           /\ \A f : FrameOk(f, d) => AllOk(<<f>> \o s, d)
  <1>1. s \in Seq(Frames) /\ \A i \in 1..Len(s) : FrameOk(s[i], d)
    BY Zenon DEF AllOk
  <1>2. ASSUME s # <<>>
        PROVE  Head(s) \in Frames /\ FrameOk(Head(s), d) /\ AllOk(Tail(s), d)
    <2>1. Len(s) >= 1 /\ Head(s) = s[1] /\ Tail(s) \in Seq(Frames)
      BY <1>1, <1>2
    <2>2. Len(Tail(s)) = Len(s) - 1 /\ \A i \in 1..Len(Tail(s)) : Tail(s)[i] = s[i + 1]
      BY <1>1, <1>2
    <2>3. \A i \in 1..Len(Tail(s)) : i + 1 \in 1..Len(s)
      BY <1>1, <2>1, <2>2
    <2> QED
      BY <1>1, <2>1, <2>2, <2>3 DEF AllOk, FrameOk
  <1>3. ASSUME NEW f, FrameOk(f, d)
        PROVE  AllOk(<<f>> \o s, d)
    <2>1. f \in Frames
      BY Zenon, <1>3 DEF FrameOk
    <2>2. <<f>> \o s \in Seq(Frames) /\ Len(<<f>> \o s) = Len(s) + 1
      BY <1>1, <2>1
    <2>3. \A i \in 1..(Len(s) + 1) :
             (<<f>> \o s)[i] = IF i = 1 THEN f ELSE s[i - 1]
      BY <1>1, <2>1
    <2>4. \A i \in 1..(Len(s) + 1) : i # 1 => i - 1 \in 1..Len(s)
      BY <1>1
    <2> QED
      BY Zenon, <1>1, <1>3, <2>2, <2>3, <2>4 DEF AllOk
  <1> QED
    BY Zenon, <1>2, <1>3

\* One thread's stack may change to any that is right under the compiler.
LEMMA StackUpdate ==
    ASSUME StackInv, compiler' = compiler,
           NEW t \in Threads, NEW s, AllOk(s, compiler),
           stack' = [stack EXCEPT ![t] = s]
    PROVE  StackInv'
  <1>1. s \in Seq(Frames)
    BY Zenon DEF AllOk
  <1>2. stack' \in [Threads -> Seq(Frames)]
    BY Zenon, <1>1 DEF StackInv
  <1>3. ASSUME NEW u \in Threads PROVE AllOk(stack'[u], compiler)
    BY Zenon DEF StackInv
  <1> QED
    BY Zenon, <1>2, <1>3 DEF StackInv

\* The innermost demand of a thread is right.
LEMMA TopOk ==
    ASSUME StackInv, NEW t \in Threads, stack[t] # <<>>
    PROVE  /\ Top(t) \in Frames /\ FrameOk(Top(t), compiler)
           /\ AllOk(Tail(stack[t]), compiler)
  <1>1. AllOk(stack[t], compiler)
    BY Zenon DEF StackInv
  <1> QED
    BY Zenon, <1>1, AllOkSteps DEF Top

\* The ways a thread's stack changes keep the stacks right: the innermost
\* demand moves on,
LEMMA BecomesInv ==
    ASSUME StackInv, compiler' = compiler, NEW t \in Threads, stack[t] # <<>>,
           NEW f, FrameOk(f, compiler), Becomes(t, f)
    PROVE  StackInv'
  <1>1. AllOk(<<f>> \o Tail(stack[t]), compiler)
    BY Zenon, TopOk, AllOkSteps
  <1> QED
    BY Zenon, <1>1, StackUpdate DEF Becomes

\* a demand starts,
LEMMA CallInv ==
    ASSUME StackInv, compiler' = compiler, NEW t \in Threads,
           NEW f, FrameOk(f, compiler), Call(t, f)
    PROVE  StackInv'
  <1>1. AllOk(<<f>> \o stack[t], compiler)
    BY Zenon, AllOkSteps DEF StackInv
  <1> QED
    BY Zenon, <1>1, StackUpdate DEF Call

\* or one returns.
LEMMA ReturnInv ==
    ASSUME StackInv, compiler' = compiler, NEW t \in Threads, stack[t] # <<>>,
           Return(t)
    PROVE  StackInv'
  BY Zenon, TopOk, StackUpdate DEF Return

\* A demand may leave the mutex at any point.
LEMMA PutCodeReturnsInv ==
    ASSUME StackInv, NEW t \in Threads, stack[t] # <<>>,
           compiler' = compiler, PutCodeReturns(t)
    PROVE  StackInv'
  <1>1. Top(t) \in Frames
    BY Zenon, TopOk
  <1>2. FrameOk([Top(t) EXCEPT !.at = "after"], compiler)
    BY Zenon, <1>1 DEF FrameOk, Frames, Noted, Unlocked
  <1>3. CASE Top(t).op = "demand"
    BY Zenon, <1>2, <1>3, BecomesInv DEF PutCodeReturns, Goto
  <1>4. CASE Top(t).op # "demand"
    BY Zenon, <1>4, ReturnInv DEF PutCodeReturns
  <1> QED
    BY Zenon, <1>3, <1>4

\* A demand may go to a point where it relies on nothing noted.
LEMMA GotoInv ==
    ASSUME StackInv, NEW t \in Threads, stack[t] # <<>>,
           NEW at \in Unlocked \cup {"lookup"},
           compiler' = compiler, Goto(t, at)
    PROVE  StackInv'
  <1>1. Top(t) \in Frames
    BY Zenon, TopOk
  <1>2. FrameOk([Top(t) EXCEPT !.at = at], compiler)
    BY Zenon, <1>1 DEF FrameOk, Frames, Noted, Unlocked
  <1> QED
    BY Zenon, <1>2, BecomesInv DEF Goto

\* A demand about to decode a row that is right.
LEMMA IngestInv ==
    ASSUME StackInv, NEW t \in Threads, stack[t] # <<>>, Top(t).at \in Noted,
           compiler \in CompilerSlots, compiler' = compiler,
           NEW from \in {"local", "global", "compile"},
           Ingest(t, Made(compiler[1], Top(t).law), from)
    PROVE  StackInv'
  <1> DEFINE r == Made(compiler[1], Top(t).law)
             todo == IF Outcome[<<r[2], r[3]>>] = "code" THEN Callees[r[3]] ELSE {}
             f == [Top(t) EXCEPT !.at = "ingest", !.row = r, !.from = from,
                                 !.todo = todo]
  <1>1. Top(t) \in Frames /\ FrameOk(Top(t), compiler)
    BY Zenon, TopOk
  <1>2. compiler # <<>> /\ Top(t).by = compiler /\ Top(t).law \in Laws
    BY Zenon, <1>1 DEF FrameOk, Frames
  <1>3. compiler[1] \in Compilers
    BY <1>2 DEF CompilerSlots
  <1>4. r \in MadeRows /\ r[3] = Top(t).law
    BY <1>2, <1>3, MadeFacts DEF MadeRows
  <1>5. todo \in SUBSET Laws
    BY Zenon, <1>2, <1>4, CodeCacheAssumption
  <1>6. f \in Frames /\ f.at = "ingest" /\ f.by = compiler /\ f.row = r
        /\ f.law = Top(t).law
    <2> HIDE DEF todo, r
    <2> QED BY Zenon, <1>1, <1>2, <1>4, <1>5 DEF Frames, Noted
  <1>7. FrameOk(f, compiler)
    <2> HIDE DEF f
    <2> QED BY Zenon, <1>2, <1>6 DEF FrameOk
  <1>8. Becomes(t, f)
    BY Zenon DEF Ingest
  <1> HIDE DEF f
  <1> QED
    BY Zenon, <1>7, <1>8, BecomesInv

-----------------------------------------------------------------------------
(* The store and the rows *)

\* A slot may take a sentinel or, its law being registered, the code the
\* compiler makes of the law.
LEMMA SlotUpdate ==
    ASSUME SlotInv, compiler' = compiler, NEW l \in Laws, NEW x,
           x \in {Null, None, Pending} \/ (Right(x, l, compiler) /\ l \in reg'),
           reg \ {l} \subseteq reg',
           slot' = [slot EXCEPT ![l] = x]
    PROVE  SlotInv'
  <1>1. x \in {Null, None, Pending} \cup MadeRows
    BY Zenon, RightIsMade
  <1>2. slot' \in [Laws -> {Null, None, Pending} \cup MadeRows]
    BY Zenon, <1>1 DEF SlotInv
  <1>3. x \in MadeRows => Right(x, l, compiler) /\ l \in reg'
    BY Zenon, MadeFacts
  <1>4. ASSUME NEW m \in Laws, slot'[m] \in MadeRows
        PROVE  Right(slot'[m], m, compiler) /\ m \in reg'
    BY Zenon, <1>3, <1>4 DEF SlotInv
  <1> QED
    BY Zenon, <1>2, <1>4 DEF SlotInv

\* A step that leaves the store and the compiler alone.
LEMMA StoreKept ==
    ASSUME IInv, compiler' = compiler, UNCHANGED store
    PROVE  reg' \subseteq Laws /\ SlotInv' /\ CacheInv' /\ BlockInv'
  BY Zenon DEF IInv, store, SlotInv, CacheInv, BlockInv

\* Registering a law gives its pin the code cached for it.
LEMMA RegisterInv ==
    ASSUME IInv, compiler' = compiler, NEW l \in Laws, Register(l)
    PROVE  reg' \subseteq Laws /\ SlotInv' /\ CacheInv' /\ BlockInv'
  <1>1. reg' \subseteq Laws /\ CacheInv' /\ BlockInv'
    BY Zenon DEF IInv, Register, CacheInv, BlockInv
  <1>2. CASE l \notin reg /\ IsMade(cache[l])
    <2>1. Right(cache[l], l, compiler)
      BY Zenon, <1>2, MadeFacts DEF IInv, CacheInv
    <2> QED
      BY Zenon, <1>1, <1>2, <2>1, SlotUpdate DEF Register, IInv
  <1>3. CASE ~(l \notin reg /\ IsMade(cache[l]))
    BY Zenon, <1>1, <1>3 DEF Register, IInv, SlotInv
  <1> QED
    BY Zenon, <1>2, <1>3

\* A row put under its own key.
LEMMA RowPut ==
    ASSUME NEW r, RowsOk(r), NEW c \in Compilers, NEW l \in Laws
    PROVE  RowsOk([r EXCEPT ![<<c, l>>] = Made(c, l)])
  <1>1. <<c, l>> \in Keys /\ Made(c, l) \in MadeRows
    BY DEF Keys, MadeRows
  <1>2. [r EXCEPT ![<<c, l>>] = Made(c, l)] \in [Keys -> {Null} \cup MadeRows]
    BY Zenon, <1>1 DEF RowsOk
  <1>3. ASSUME NEW d \in Compilers, NEW m \in Laws
        PROVE  [r EXCEPT ![<<c, l>>] = Made(c, l)][<<d, m>>] \in {Null, Made(d, m)}
    <2>1. <<d, m>> \in Keys
      BY Zenon DEF Keys
    <2>2. CASE d = c /\ m = l
      BY Zenon, <2>2, <1>1 DEF RowsOk
    <2>3. CASE ~(d = c /\ m = l)
      BY Zenon, <2>1, <2>3 DEF RowsOk
    <2> QED
      BY Zenon, <2>2, <2>3
  <1> QED
    BY Zenon, <1>2, <1>3 DEF RowsOk

\* A checkpoint moves rows, each under its own key.
LEMMA CheckpointInv ==
    ASSUME NEW s, RowsOk(s), RowsOk(disk), Checkpoint(s)
    PROVE  RowsOk(staged') /\ RowsOk(disk')
  <1>1. RowsOk(NoRows)
    <2>1. \A c \in Compilers, l \in Laws : <<c, l>> \in Keys
      BY Zenon DEF Keys
    <2> QED
      BY Zenon, <2>1 DEF RowsOk, NoRows
  <1>2. RowsOk(Flushed(s))
    <2>1. \A c \in Compilers, l \in Laws : <<c, l>> \in Keys
      BY Zenon DEF Keys
    <2>2. Flushed(s) \in [Keys -> {Null} \cup MadeRows]
      BY Zenon DEF RowsOk, Flushed
    <2>3. ASSUME NEW c \in Compilers, NEW l \in Laws
          PROVE  Flushed(s)[<<c, l>>] \in {Null, Made(c, l)}
      BY Zenon, <2>1 DEF RowsOk, Flushed
    <2> QED
      BY Zenon, <2>2, <2>3 DEF RowsOk
  <1> QED
    BY Zenon, <1>1, <1>2 DEF Checkpoint

\* plgc_put of a row under its own key.
LEMMA PutGlobalInv ==
    ASSUME RowsOk(staged), RowsOk(disk), NEW c \in Compilers, NEW l \in Laws,
           PutGlobal(<<c, l>>, Made(c, l))
    PROVE  RowsOk(staged') /\ RowsOk(disk')
  <1> DEFINE s == [staged EXCEPT ![<<c, l>>] = Made(c, l)]
  <1>1. RowsOk(s)
    BY Zenon, RowPut
  <1>2. Checkpoint(s) \/ (staged' = s /\ disk' = disk)
    BY Zenon DEF PutGlobal
  <1> HIDE DEF s
  <1> QED
    BY Zenon, <1>1, <1>2, CheckpointInv

-----------------------------------------------------------------------------
(* The steps *)

\* A demand that has noted the compiler: the installed one, and its row key.
LEMMA NotedFacts ==
    ASSUME IInv, NEW t \in Threads, stack[t] # <<>>, Top(t).at \in Noted
    PROVE  /\ compiler[1] \in Compilers /\ compiler = <<compiler[1]>>
           /\ Top(t).by = compiler /\ Top(t).law \in Laws
           /\ TheKey(t) = <<compiler[1], Top(t).law>> /\ TheKey(t) \in Keys
           /\ Top(t).at \in {"ingest", "publish"} =>
                Top(t).row = Made(compiler[1], Top(t).law)
  <1>1. Top(t) \in Frames /\ FrameOk(Top(t), compiler)
    BY Zenon, TopOk DEF IInv
  <1>2. /\ compiler # <<>> /\ Top(t).by = compiler /\ Top(t).law \in Laws
        /\ Top(t).at \in {"ingest", "publish"} =>
             Top(t).row = Made(compiler[1], Top(t).law)
    BY Zenon, <1>1 DEF FrameOk, Frames
  <1>3. compiler[1] \in Compilers /\ compiler = <<compiler[1]>>
    BY <1>2 DEF IInv, CompilerSlots
  <1>4. TheKey(t) = <<compiler[1], Top(t).law>>
    BY Zenon, <1>2 DEF TheKey, CacheKey
  <1> QED
    BY <1>2, <1>3, <1>4 DEF Keys

\* A started demand relies on nothing yet.
LEMMA NewFrameOk ==
    ASSUME NEW l \in Laws, NEW op \in {"demand", "compile"},
           NEW at \in Unlocked, NEW d
    PROVE  FrameOk(Frame(op, l, at), d)
  <1>1. Frame(op, l, at) \in Frames
    <2>1. <<>> \in CompilerSlots /\ Null \in {Null} \cup MadeRows
          /\ {} \in SUBSET Laws /\ at \in Unlocked \cup {"lookup"} \cup Noted
      BY Zenon DEF CompilerSlots
    <2> QED
      BY Zenon, <2>1 DEF Frame, Frames
  <1>2. Frame(op, l, at).at \notin Noted
    BY Zenon DEF Frame, Unlocked, Noted
  <1> QED
    BY Zenon, <1>1, <1>2 DEF FrameOk, Noted

\* The frame a demand starts with.
LEMMA DemandFrameOk ==
    ASSUME NEW l \in Laws, NEW d
    PROVE  FrameOk(DemandFrame(l), d)
  BY Zenon, NewFrameOk DEF DemandFrame, Unlocked

\* Publishing the code made of a right row keeps the tables right.
LEMMA PublishInv ==
    ASSUME IInv, compiler' = compiler, reg' = reg, NEW l \in Laws,
           compiler[1] \in Compilers, compiler = <<compiler[1]>>,
           Outcome[<<compiler[1], l>>] = "code",
           Publish(l, Made(compiler[1], l))
    PROVE  reg' \subseteq Laws /\ SlotInv' /\ CacheInv' /\ BlockInv'
  <1> DEFINE code == Made(compiler[1], l)
             kept == IF IsMade(cache[l]) THEN cache[l] ELSE code
  <1>1. Right(code, l, compiler) /\ code \in MadeRows /\ code[3] = l
    <2>1. Right(code, l, compiler)
      BY Zenon DEF Right
    <2>2. code[3] = l
      BY Zenon, MadeFacts
    <2> HIDE DEF code
    <2> QED
      BY Zenon, <2>1, <2>2, RightIsMade
  <1>2. Right(kept, l, compiler) /\ kept \in MadeRows
    <2>1. IsMade(cache[l]) => cache[l] \in MadeRows /\ Right(cache[l], l, compiler)
      BY Zenon, MadeFacts DEF IInv, CacheInv
    <2> HIDE DEF code
    <2> QED BY Zenon, <1>1, <2>1
  <1>3. /\ cache' = [cache EXCEPT ![l] = kept]
        /\ lawblk' = [i \in InnerLaws |->
                        IF kept = code /\ i \in Inner[code[3]] /\ ~IsMade(lawblk[i])
                        THEN code ELSE lawblk[i]]
        /\ slot' = IF l \in reg THEN [slot EXCEPT ![l] = kept] ELSE slot
    BY Zenon DEF Publish
  <1> HIDE DEF code, kept
  <1>4. CacheInv'
    <2>1. cache' \in [Laws -> {Null} \cup MadeRows]
      BY Zenon, <1>2, <1>3 DEF IInv, CacheInv
    <2>2. ASSUME NEW m \in Laws, cache'[m] \in MadeRows
          PROVE  Right(cache'[m], m, compiler)
      BY Zenon, <1>2, <1>3, <2>2 DEF IInv, CacheInv
    <2> QED
      BY Zenon, <2>1, <2>2 DEF CacheInv
  <1>5. SlotInv'
    <2>1. CASE l \in reg
      BY Zenon, <1>2, <1>3, <2>1, SlotUpdate DEF IInv
    <2>2. CASE l \notin reg
      BY Zenon, <1>3, <2>2 DEF IInv, SlotInv
    <2> QED
      BY Zenon, <2>1, <2>2
  <1>6. BlockInv'
    <2>1. lawblk' \in [InnerLaws -> {Null} \cup MadeRows]
      BY Zenon, <1>1, <1>3 DEF IInv, BlockInv
    <2>2. ASSUME NEW i \in InnerLaws, lawblk'[i] \in MadeRows
          PROVE  \E m \in Laws : i \in Inner[m] /\ Right(lawblk'[i], m, compiler)
      <3>1. CASE lawblk'[i] = lawblk[i]
        BY Zenon, <2>2, <3>1 DEF IInv, BlockInv
      <3>2. CASE lawblk'[i] # lawblk[i]
        <4>1. lawblk'[i] = code /\ i \in Inner[l]
          BY Zenon, <1>1, <1>3, <3>2
        <4> QED
          BY Zenon, <1>1, <4>1
      <3> QED
        BY Zenon, <3>1, <3>2
    <2> QED
      BY Zenon, <2>1, <2>2 DEF BlockInv
  <1> QED
    BY Zenon, <1>4, <1>5, <1>6 DEF IInv

\* The first state.
LEMMA InitIInv == Init => IInv
  <1> SUFFICES ASSUME Init PROVE IInv
    BY Zenon
  <1>1. compiler \in CompilerSlots /\ reg \subseteq Laws
    BY Zenon DEF Init, CompilerSlots
  <1>2. StackInv
    <2>1. <<>> \in Seq(Frames) /\ Len(<<>>) = 0
      OBVIOUS
    <2>2. AllOk(<<>>, compiler)
      BY <2>1 DEF AllOk
    <2> QED
      BY Zenon, <2>1, <2>2 DEF Init, StackInv
  <1>3. SlotInv /\ CacheInv /\ BlockInv
    BY Zenon, MadeFacts DEF Init, SlotInv, CacheInv, BlockInv
  <1>4. RowsOk(NoRows)
    <2>1. \A c \in Compilers, l \in Laws : <<c, l>> \in Keys
      BY Zenon DEF Keys
    <2> QED
      BY Zenon, <2>1 DEF RowsOk, NoRows
  <1> QED
    BY Zenon, <1>1, <1>2, <1>3, <1>4 DEF Init, IInv

\* A step of pl_law_code or of pl_store_code_demand outside
\* pl_store_put_code, and the start of the Compile operation.
LEMMA DemandSteps ==
    ASSUME IInv, NEW t \in Threads, NEW l \in Laws,
           \/ Enter(t, l) \/ CompileOp(t, l) \/ RegisterDemanded(t)
           \/ Claim(t) \/ After(t) \/ Mark(t)
    PROVE  IInv'
  <1>1. CASE Enter(t, l)
    <2>1. StackInv'
      BY Zenon, <1>1, DemandFrameOk, CallInv DEF Enter, IInv
    <2> QED
      BY Zenon, <1>1, <2>1, StoreKept DEF Enter, IInv, caches
  <1>2. CASE CompileOp(t, l)
    <2>1. FrameOk(Frame("compile", l, "lock"), compiler)
      BY Zenon, NewFrameOk DEF Unlocked
    <2>2. StackInv'
      BY Zenon, <1>2, <2>1, CallInv DEF CompileOp, IInv
    <2> QED
      BY Zenon, <1>2, <2>2, StoreKept DEF CompileOp, IInv, caches
  <1>3. CASE RegisterDemanded(t)
    <2>1. stack[t] # <<>> /\ compiler' = compiler
      BY Zenon, <1>3 DEF RegisterDemanded, At
    <2>2. Top(t).law \in Laws
      BY Zenon, <2>1, TopOk DEF IInv, Frames
    <2>3. StackInv'
      BY Zenon, <1>3, <2>1, GotoInv DEF RegisterDemanded, IInv, Unlocked
    <2> QED
      BY Zenon, <1>3, <2>1, <2>2, <2>3, RegisterInv DEF RegisterDemanded, IInv, caches
  <1>4. CASE Claim(t)
    <2>1. stack[t] # <<>> /\ compiler' = compiler /\ UNCHANGED <<reg, cache, lawblk>>
          /\ UNCHANGED caches
      BY Zenon, <1>4 DEF Claim, At
    <2>2. Top(t).law \in Laws
      BY Zenon, <2>1, TopOk DEF IInv, Frames
    <2>3. CacheInv' /\ BlockInv'
      BY Zenon, <2>1 DEF IInv, CacheInv, BlockInv
    <2>4. CASE slot[Top(t).law] = Null
      <3>1. slot' = [slot EXCEPT ![Top(t).law] = Pending] /\ Goto(t, "lock")
        BY Zenon, <1>4, <2>4 DEF Claim
      <3>2. SlotInv' /\ StackInv'
        BY Zenon, <2>1, <2>2, <3>1, SlotUpdate, GotoInv DEF IInv, Unlocked
      <3> QED
        BY Zenon, <2>1, <2>3, <3>2 DEF IInv, caches
    <2>5. CASE slot[Top(t).law] # Null
      <3>1. slot' = slot /\ Return(t)
        BY Zenon, <1>4, <2>5 DEF Claim
      <3>2. SlotInv' /\ StackInv'
        BY Zenon, <2>1, <3>1, ReturnInv DEF IInv, SlotInv
      <3> QED
        BY Zenon, <2>1, <2>3, <3>2 DEF IInv, caches
    <2> QED
      BY Zenon, <2>4, <2>5
  <1>5. CASE After(t)
    <2>1. stack[t] # <<>> /\ compiler' = compiler /\ (Goto(t, "mark") \/ Return(t))
      BY Zenon, <1>5 DEF After, At
    <2>2. StackInv'
      BY Zenon, <2>1, GotoInv, ReturnInv DEF IInv, Unlocked
    <2> QED
      BY Zenon, <1>5, <2>2, StoreKept DEF After, IInv, caches
  <1>6. CASE Mark(t)
    <2>1. stack[t] # <<>> /\ compiler' = compiler /\ UNCHANGED <<reg, cache, lawblk>>
          /\ UNCHANGED caches /\ Return(t)
      BY Zenon, <1>6 DEF Mark, At
    <2>2. Top(t).law \in Laws
      BY Zenon, <2>1, TopOk DEF IInv, Frames
    <2>3. CacheInv' /\ BlockInv' /\ StackInv'
      BY Zenon, <2>1, ReturnInv DEF IInv, CacheInv, BlockInv
    <2>4. slot' = slot \/ slot' = [slot EXCEPT ![Top(t).law] = None]
      BY Zenon, <1>6 DEF Mark
    <2>5. SlotInv'
      BY Zenon, <2>1, <2>2, <2>4, SlotUpdate DEF IInv, SlotInv
    <2> QED
      BY Zenon, <2>1, <2>3, <2>5 DEF IInv, caches
  <1> QED
    BY Zenon, <1>1, <1>2, <1>3, <1>4, <1>5, <1>6

\* A step of pl_store_put_code up to the row to decode.
LEMMA LookupSteps ==
    ASSUME IInv, NEW t \in Threads,
           \/ Lock(t) \/ Lookup(t) \/ LocalRow(t) \/ GlobalRow(t)
           \/ NoRow(t) \/ RunCompiler(t)
    PROVE  IInv'
  <1>0. stack[t] # <<>> /\ compiler' = compiler
    BY Zenon DEF Lock, Lookup, LocalRow, GlobalRow, NoRow, RunCompiler, At
  <1>a. Top(t) \in Frames /\ Top(t).law \in Laws
    BY Zenon, <1>0, TopOk DEF IInv, Frames
  <1>1. CASE Lock(t)
    <2>1. StackInv'
      BY Zenon, <1>0, <1>1, GotoInv DEF Lock, IInv
    <2>2. reg' \subseteq Laws /\ SlotInv' /\ CacheInv' /\ BlockInv'
      BY Zenon, <1>0, <1>a, <1>1, RegisterInv, StoreKept DEF Lock
    <2> QED
      BY Zenon, <1>0, <1>1, <2>1, <2>2 DEF Lock, IInv, caches
  <1>2. CASE Lookup(t)
    <2> DEFINE l == Top(t).law
    <2>1. UNCHANGED <<reg, cache, lawblk>> /\ UNCHANGED caches
      BY Zenon, <1>2 DEF Lookup
    <2>2. CacheInv' /\ BlockInv'
      BY Zenon, <1>0, <2>1 DEF IInv, CacheInv, BlockInv
    <2>3. CASE compiler = <<>> \/ l \notin reg
      <3>1. slot' = slot /\ PutCodeReturns(t)
        BY Zenon, <1>2, <2>3 DEF Lookup
      <3>2. SlotInv' /\ StackInv'
        BY Zenon, <1>0, <2>1, <3>1, PutCodeReturnsInv DEF IInv, SlotInv
      <3> QED
        BY Zenon, <1>0, <2>1, <2>2, <3>2 DEF IInv, caches
    <2>4. CASE ~(compiler = <<>> \/ l \notin reg) /\ IsMade(cache[l])
      <3>1. slot' = [slot EXCEPT ![l] = cache[l]] /\ PutCodeReturns(t)
        BY Zenon, <1>2, <2>4 DEF Lookup
      <3>2. Right(cache[l], l, compiler)
        BY Zenon, <1>a, <2>4, MadeFacts DEF IInv, CacheInv
      <3>3. SlotInv' /\ StackInv'
        BY Zenon, <1>0, <1>a, <2>1, <2>4, <3>1, <3>2, SlotUpdate, PutCodeReturnsInv
           DEF IInv
      <3> QED
        BY Zenon, <1>0, <2>1, <2>2, <3>3 DEF IInv, caches
    <2>5. CASE ~(compiler = <<>> \/ l \notin reg) /\ ~IsMade(cache[l])
      <3> DEFINE f == [Top(t) EXCEPT !.at = "find", !.by = compiler]
      <3>1. slot' = slot /\ Becomes(t, f)
        BY Zenon, <1>2, <2>5 DEF Lookup
      <3>2. f \in Frames /\ f.at = "find" /\ f.by = compiler
        BY Zenon, <1>a DEF IInv, Frames, Noted
      <3> HIDE DEF f
      <3>3. FrameOk(f, compiler)
        BY Zenon, <2>5, <3>2 DEF FrameOk
      <3>4. SlotInv' /\ StackInv'
        BY Zenon, <1>0, <2>1, <3>1, <3>3, BecomesInv DEF IInv, SlotInv
      <3> QED
        BY Zenon, <1>0, <2>1, <2>2, <3>4 DEF IInv, caches
    <2> QED
      BY Zenon, <2>3, <2>4, <2>5
  <1>3. CASE LocalRow(t)
    <2>1. Top(t).at \in Noted
      BY Zenon, <1>3 DEF LocalRow, At, Noted
    <2>2. rows[TheKey(t)] = Made(compiler[1], Top(t).law)
      BY <1>0, <1>3, <2>1, NotedFacts DEF LocalRow, IInv, RowsOk
    <2>3. StackInv'
      BY Zenon, <1>0, <1>3, <2>1, <2>2, IngestInv DEF LocalRow, IInv
    <2> QED
      BY Zenon, <1>0, <1>3, <2>3, StoreKept DEF LocalRow, IInv, caches
  <1>4. CASE GlobalRow(t)
    <2>1. Top(t).at \in Noted
      BY Zenon, <1>4 DEF GlobalRow, At, Noted
    <2>2. PICK r \in GlobalRows(TheKey(t)) :
             /\ rows' = IF format = "native"
                        THEN [rows EXCEPT ![TheKey(t)] = r] ELSE rows
             /\ Ingest(t, r, "global")
      BY Zenon, <1>4 DEF GlobalRow
    <2>3. r = Made(compiler[1], Top(t).law)
      BY <1>0, <2>1, <2>2, NotedFacts DEF GlobalRows, IInv, RowsOk
    <2>4. StackInv'
      BY Zenon, <1>0, <2>1, <2>2, <2>3, IngestInv DEF IInv
    <2>5. RowsOk(rows')
      BY Zenon, <1>0, <2>1, <2>2, <2>3, NotedFacts, RowPut DEF IInv
    <2> QED
      BY Zenon, <1>0, <1>4, <2>4, <2>5, StoreKept DEF GlobalRow, IInv
  <1>5. CASE NoRow(t)
    <2> DEFINE f == [Top(t) EXCEPT !.at = "compile"]
    <2>1. Top(t).at \in Noted
      BY Zenon, <1>5 DEF NoRow, At, Noted
    <2>2. f \in Frames /\ f.at = "compile" /\ f.by = compiler /\ compiler # <<>>
      BY <1>0, <1>a, <2>1, NotedFacts DEF Frames, Noted
    <2>3. Becomes(t, f)
      BY Zenon, <1>5 DEF NoRow, Goto
    <2> HIDE DEF f
    <2>4. FrameOk(f, compiler)
      BY Zenon, <2>2 DEF FrameOk
    <2>5. StackInv'
      BY Zenon, <1>0, <2>3, <2>4, BecomesInv DEF IInv
    <2> QED
      BY Zenon, <1>0, <1>5, <2>5, StoreKept DEF NoRow, IInv, caches
  <1>6. CASE RunCompiler(t)
    <2>1. Top(t).at \in Noted
      BY Zenon, <1>6 DEF RunCompiler, At, Noted
    <2>2. PutCodeReturns(t) \/ Ingest(t, Made(compiler[1], Top(t).law), "compile")
      BY Zenon, <1>0, <1>6, <2>1, NotedFacts DEF RunCompiler
    <2>3. StackInv'
      BY Zenon, <1>0, <2>1, <2>2, PutCodeReturnsInv, IngestInv DEF IInv
    <2> QED
      BY Zenon, <1>0, <1>6, <2>3, StoreKept DEF RunCompiler, IInv, caches
  <1> QED
    BY Zenon, <1>1, <1>2, <1>3, <1>4, <1>5, <1>6

\* A step of pl_store_put_code from the row to decode on.
LEMMA ServeSteps ==
    ASSUME IInv, NEW t \in Threads,
           IngestCallee(t) \/ Attach(t) \/ Migrate(t) \/ Admit(t)
    PROVE  IInv'
  <1>0. stack[t] # <<>> /\ compiler' = compiler /\ Top(t).at \in Noted
    BY Zenon DEF IngestCallee, Attach, Migrate, Admit, At, Noted
  <1>a. Top(t) \in Frames /\ FrameOk(Top(t), compiler) /\ AllOk(Tail(stack[t]), compiler)
    BY Zenon, <1>0, TopOk DEF IInv
  <1>b. /\ compiler[1] \in Compilers /\ compiler = <<compiler[1]>>
        /\ Top(t).by = compiler /\ Top(t).law \in Laws
        /\ TheKey(t) = <<compiler[1], Top(t).law>>
        /\ Top(t).at \in {"ingest", "publish"} =>
             Top(t).row = Made(compiler[1], Top(t).law)
    BY Zenon, <1>0, NotedFacts
  <1>1. CASE IngestCallee(t)
    <2>1. PICK l \in Top(t).todo :
            LET rest == [Top(t) EXCEPT !.todo = @ \ {l}] IN
            \/ stack' = [stack EXCEPT
                            ![t] = <<DemandFrame(l)>> \o (<<rest>> \o Tail(@))]
            \/ Becomes(t, rest)
      BY Zenon, <1>1 DEF IngestCallee
    <2> DEFINE rest == [Top(t) EXCEPT !.todo = @ \ {l}]
    <2>2. l \in Laws
      BY Zenon, <1>a, <2>1 DEF Frames
    <2>3. /\ rest \in Frames /\ rest.at = Top(t).at /\ rest.by = Top(t).by
          /\ rest.row = Top(t).row /\ rest.law = Top(t).law
      BY Zenon, <1>a DEF Frames
    <2>4. \/ stack' = [stack EXCEPT
                          ![t] = <<DemandFrame(l)>> \o (<<rest>> \o Tail(@))]
          \/ Becomes(t, rest)
      BY Zenon, <2>1
    <2> HIDE DEF rest
    <2>5. FrameOk(rest, compiler)
      BY Zenon, <1>a, <2>3 DEF FrameOk
    <2>6. ASSUME Becomes(t, rest) PROVE StackInv'
      BY Zenon, <1>0, <2>5, <2>6, BecomesInv DEF IInv
    <2>7. ASSUME stack' = [stack EXCEPT
                             ![t] = <<DemandFrame(l)>> \o (<<rest>> \o Tail(@))]
          PROVE  StackInv'
      <3>1. AllOk(<<rest>> \o Tail(stack[t]), compiler)
        BY Zenon, <1>a, <2>5, AllOkSteps
      <3>2. FrameOk(DemandFrame(l), compiler)
        BY Zenon, <2>2, DemandFrameOk
      <3>3. AllOk(<<DemandFrame(l)>> \o (<<rest>> \o Tail(stack[t])), compiler)
        BY Zenon, <3>1, <3>2, AllOkSteps
      <3> QED
        BY Zenon, <1>0, <2>7, <3>3, StackUpdate DEF IInv
    <2>8. StackInv'
      BY Zenon, <2>4, <2>6, <2>7
    <2> QED
      BY Zenon, <1>0, <1>1, <2>8, StoreKept DEF IngestCallee, IInv, caches
  <1>2. CASE Attach(t)
    <2> DEFINE f == [Top(t) EXCEPT !.at = "publish"]
    <2>1. Top(t).at = "ingest" /\ Top(t).row = Made(compiler[1], Top(t).law)
          /\ reg' = reg /\ UNCHANGED caches
      BY Zenon, <1>b, <1>2 DEF Attach, At
    <2>2. reg' \subseteq Laws /\ SlotInv' /\ CacheInv' /\ BlockInv'
      <3>0. Top(t).row[2] = compiler[1] /\ Top(t).row[3] = Top(t).law
        BY <2>1, MadeFacts
      <3>a. IF Outcome[<<compiler[1], Top(t).law>>] = "code"
            THEN Publish(Top(t).law, Top(t).row)
            ELSE UNCHANGED <<slot, cache, lawblk>>
        BY Zenon, <1>2, <3>0 DEF Attach
      <3>1. CASE Outcome[<<compiler[1], Top(t).law>>] = "code"
        <4>1. Publish(Top(t).law, Made(compiler[1], Top(t).law))
          BY Zenon, <2>1, <3>1, <3>a
        <4> QED
          BY Zenon, <1>0, <1>b, <2>1, <3>1, <4>1, PublishInv
      <3>2. CASE Outcome[<<compiler[1], Top(t).law>>] # "code"
        <4>1. UNCHANGED <<slot, cache, lawblk>>
          BY Zenon, <3>2, <3>a
        <4> QED
          BY Zenon, <1>0, <2>1, <4>1, StoreKept DEF store
      <3> QED
        BY Zenon, <3>1, <3>2
    <2>3. PutCodeReturns(t) \/ Becomes(t, f)
      BY Zenon, <1>2 DEF Attach, Goto
    <2>4. /\ f \in Frames /\ f.at = "publish" /\ f.by = compiler
          /\ f.row = Top(t).row /\ f.law = Top(t).law
      BY Zenon, <1>a, <1>b DEF Frames, Noted
    <2>c. compiler # <<>>
      BY Zenon, <1>0, <1>a DEF FrameOk
    <2> HIDE DEF f
    <2>5. FrameOk(f, compiler)
      BY Zenon, <2>1, <2>4, <2>c DEF FrameOk
    <2>6. StackInv'
      BY Zenon, <1>0, <2>3, <2>5, PutCodeReturnsInv, BecomesInv DEF IInv
    <2> QED
      BY Zenon, <1>0, <2>1, <2>2, <2>6 DEF IInv, caches
  <1>3. CASE Migrate(t)
    <2>1. Top(t).row = Made(compiler[1], Top(t).law) /\ PutCodeReturns(t)
          /\ UNCHANGED store /\ rows' = rows
      BY Zenon, <1>b, <1>3 DEF Migrate, At
    <2>2. StackInv'
      BY Zenon, <1>0, <2>1, PutCodeReturnsInv DEF IInv
    <2>3. RowsOk(staged') /\ RowsOk(disk')
      BY Zenon, <1>b, <1>3, <2>1, PutGlobalInv DEF Migrate, IInv
    <2> QED
      BY Zenon, <1>0, <2>1, <2>2, <2>3, StoreKept DEF IInv
  <1>4. CASE Admit(t)
    <2>1. Top(t).row = Made(compiler[1], Top(t).law) /\ PutCodeReturns(t)
          /\ UNCHANGED store
      BY Zenon, <1>b, <1>4 DEF Admit, At
    <2>2. StackInv'
      BY Zenon, <1>0, <2>1, PutCodeReturnsInv DEF IInv
    <2>3. RowsOk(rows') /\ RowsOk(staged') /\ RowsOk(disk')
      BY <1>b, <1>4, <2>1, RowPut, PutGlobalInv DEF Admit, IInv
    <2> QED
      BY Zenon, <1>0, <2>1, <2>2, <2>3, StoreKept DEF IInv
  <1> QED
    BY Zenon, <1>1, <1>2, <1>3, <1>4

\* A demand outside the mutex is right under any compiler.
LEMMA UnlockedOk ==
    ASSUME StackInv, NEW d, \A t \in Threads : ~Holds(t)
    PROVE  \A t \in Threads : AllOk(stack[t], d)
  <1> SUFFICES ASSUME NEW t \in Threads PROVE AllOk(stack[t], d)
    BY Zenon
  <1>1. stack[t] \in Seq(Frames) /\ DOMAIN stack[t] = 1..Len(stack[t])
    BY DEF StackInv
  <1>2. \A i \in 1..Len(stack[t]) : stack[t][i] \in Frames /\ stack[t][i].at \notin Locked
    BY <1>1 DEF Holds
  <1> QED
    BY Zenon, <1>1, <1>2 DEF AllOk, FrameOk, Locked, Noted

\* A law is interned, or a dead one leaves the tables.
LEMMA InternSteps ==
    ASSUME IInv, NEW l \in Laws, Intern(l) \/ GcWeak(l)
    PROVE  IInv'
  <1>1. CASE Intern(l)
    <2>1. compiler' = compiler /\ Register(l) /\ stack' = stack /\ UNCHANGED caches
      BY Zenon, <1>1 DEF Intern
    <2>2. StackInv'
      BY Zenon, <2>1 DEF IInv, StackInv
    <2> QED
      BY Zenon, <2>1, <2>2, RegisterInv DEF IInv, caches
  <1>2. CASE GcWeak(l)
    <2>1. compiler' = compiler /\ reg' = reg \ {l} /\ stack' = stack
          /\ slot' = [slot EXCEPT ![l] = Null] /\ UNCHANGED <<cache, lawblk>>
          /\ UNCHANGED caches
      BY Zenon, <1>2 DEF GcWeak
    <2>2. StackInv' /\ CacheInv' /\ BlockInv'
      BY Zenon, <2>1 DEF IInv, StackInv, CacheInv, BlockInv
    <2>3. SlotInv'
      BY Zenon, <2>1, SlotUpdate DEF IInv
    <2> QED
      BY Zenon, <2>1, <2>2, <2>3 DEF IInv, caches
  <1> QED
    BY Zenon, <1>1, <1>2

\* Another compiler is installed while no demand holds the mutex.
LEMMA InstallStep ==
    ASSUME IInv, NEW t \in Threads, NEW c \in Compilers, Install(t, c)
    PROVE  IInv'
  <1>1. /\ compiler' = <<c>> /\ reg' = reg /\ stack' = stack /\ UNCHANGED caches
        /\ slot' = [m \in Laws |-> IF m \in reg THEN Null ELSE slot[m]]
        /\ cache' = [m \in Laws |-> Null]
        /\ lawblk' = [i \in InnerLaws |-> Null]
    BY Zenon DEF Install, Invalidate
  <1>2. \A u \in Threads : ~Holds(u)
    <2>1. ~Holds(t)
      BY DEF Install, Holds
    <2> QED
      BY Zenon, <2>1 DEF Install, SaveFree
  <1>3. StackInv'
    BY Zenon, <1>1, <1>2, UnlockedOk DEF IInv, StackInv
  <1>4. CacheInv' /\ BlockInv'
    BY Zenon, <1>1, MadeFacts DEF CacheInv, BlockInv
  <1>5. SlotInv'
    <2>1. slot' \in [Laws -> {Null, None, Pending} \cup MadeRows]
      BY Zenon, <1>1 DEF IInv, SlotInv
    <2>2. \A m \in Laws : slot'[m] \notin MadeRows
      BY Zenon, <1>1, MadeFacts DEF IInv, SlotInv
    <2> QED
      BY Zenon, <2>1, <2>2 DEF SlotInv
  <1> QED
    BY Zenon, <1>1, <1>3, <1>4, <1>5 DEF IInv, caches, CompilerSlots

\* A Save checkpoints the machine-wide rows.
LEMMA SaveStep ==
    ASSUME IInv, NEW t \in Threads, Save(t)
    PROVE  IInv'
  <1>1. compiler' = compiler /\ UNCHANGED store /\ rows' = rows /\ stack' = stack
        /\ Checkpoint(staged)
    BY Zenon DEF Save
  <1>2. StackInv' /\ RowsOk(staged') /\ RowsOk(disk')
    BY Zenon, <1>1, CheckpointInv DEF IInv, StackInv
  <1> QED
    BY Zenon, <1>1, <1>2, StoreKept DEF IInv

\* A new process has the saved rows and nothing else.
LEMMA RestartStep ==
    ASSUME IInv, Restart
    PROVE  IInv'
  <1>1. /\ compiler' = <<>> /\ reg' = {} /\ staged' = NoRows /\ disk' = disk
        /\ slot' = [m \in Laws |-> Null]
        /\ cache' = [m \in Laws |-> Null]
        /\ lawblk' = [i \in InnerLaws |-> Null]
        /\ stack' = [u \in Threads |-> <<>>]
    BY Zenon DEF Restart
  <1>2. PICK kept \in SUBSET {k \in Keys : rows[k] # Null} :
           rows' = [k \in Keys |-> IF k \in kept THEN rows[k] ELSE Null]
    BY Zenon DEF Restart
  <1>3. \A d \in Compilers, m \in Laws : <<d, m>> \in Keys
    BY Zenon DEF Keys
  <1>4. RowsOk(rows') /\ RowsOk(staged')
    BY Zenon, <1>1, <1>2, <1>3 DEF IInv, RowsOk, NoRows
  <1>5. SlotInv' /\ CacheInv' /\ BlockInv'
    BY Zenon, <1>1, MadeFacts DEF SlotInv, CacheInv, BlockInv
  <1>6. StackInv'
    <2>1. <<>> \in Seq(Frames) /\ Len(<<>>) = 0
      OBVIOUS
    <2>2. AllOk(<<>>, compiler')
      BY <2>1 DEF AllOk
    <2> QED
      BY Zenon, <1>1, <2>1, <2>2 DEF StackInv
  <1> QED
    BY Zenon, <1>1, <1>4, <1>5, <1>6 DEF IInv, CompilerSlots

\* Every step.
LEMMA NextIInv == IInv /\ [Next]_vars => IInv'
  <1> SUFFICES ASSUME IInv, [Next]_vars PROVE IInv'
    BY Zenon
  <1>1. ASSUME NEW t \in Threads, Step(t) PROVE IInv'
    <2>1. CASE \/ RegisterDemanded(t) \/ Claim(t) \/ After(t) \/ Mark(t)
      <3>1. stack[t] # <<>>
        BY Zenon, <2>1 DEF RegisterDemanded, Claim, After, Mark, At
      <3>2. Top(t).law \in Laws
        BY Zenon, <3>1, TopOk DEF IInv, Frames
      <3> QED
        BY Zenon, <2>1, <3>2, DemandSteps
    <2>2. CASE \/ Lock(t) \/ Lookup(t) \/ LocalRow(t) \/ GlobalRow(t)
               \/ NoRow(t) \/ RunCompiler(t)
      BY Zenon, <2>2, LookupSteps
    <2>3. CASE IngestCallee(t) \/ Attach(t) \/ Migrate(t) \/ Admit(t)
      BY Zenon, <2>3, ServeSteps
    <2> QED
      BY Zenon, <1>1, <2>1, <2>2, <2>3 DEF Step
  <1>2. ASSUME NEW t \in Threads, NEW l \in Laws, Enter(t, l) \/ CompileOp(t, l)
        PROVE  IInv'
    BY Zenon, <1>2, DemandSteps
  <1>3. ASSUME NEW t \in Threads, NEW c \in Compilers, Install(t, c)
        PROVE  IInv'
    BY Zenon, <1>3, InstallStep
  <1>4. ASSUME NEW t \in Threads, Save(t) PROVE IInv'
    BY Zenon, <1>4, SaveStep
  <1>5. ASSUME NEW l \in Laws, Intern(l) \/ GcWeak(l) PROVE IInv'
    BY Zenon, <1>5, InternSteps
  <1>6. ASSUME Restart PROVE IInv'
    BY Zenon, <1>6, RestartStep
  <1>7. CASE UNCHANGED vars
    BY Zenon, <1>7 DEF vars, store, caches, IInv, StackInv, SlotInv, CacheInv, BlockInv
  <1> QED
    BY Zenon, <1>1, <1>2, <1>3, <1>4, <1>5, <1>6, <1>7 DEF Next

\* The inductive invariant gives the property.
LEMMA IInvCurrent == IInv => CodeIsCurrent
  <1> SUFFICES ASSUME IInv PROVE CodeIsCurrent
    BY Zenon
  <1>1. ASSUME NEW l \in Laws, NEW x \in {slot[l], cache[l]}, IsMade(x)
        PROVE  /\ compiler # <<>> /\ x = Made(compiler[1], l)
               /\ Outcome[<<compiler[1], l>>] = "code"
    <2>1. x \in MadeRows
      BY Zenon, <1>1, MadeFacts DEF IInv, SlotInv, CacheInv
    <2>2. Right(x, l, compiler)
      BY Zenon, <1>1, <2>1 DEF IInv, SlotInv, CacheInv
    <2> QED
      BY Zenon, <2>2, RightIsMade
  <1>2. ASSUME NEW i \in InnerLaws, IsMade(lawblk[i])
        PROVE  compiler = <<lawblk[i][2]>> /\ i \in Inner[lawblk[i][3]]
    <2>1. lawblk[i] \in MadeRows
      BY Zenon, <1>2, MadeFacts DEF IInv, BlockInv
    <2>2. PICK l \in Laws : i \in Inner[l] /\ Right(lawblk[i], l, compiler)
      BY Zenon, <2>1 DEF IInv, BlockInv
    <2>3. compiler = <<compiler[1]>> /\ lawblk[i] = Made(compiler[1], l)
      BY Zenon, <2>2, RightIsMade
    <2>4. lawblk[i][2] = compiler[1] /\ lawblk[i][3] = l
      BY <2>3, MadeFacts
    <2> QED
      BY Zenon, <2>2, <2>3, <2>4
  <1>3. ASSUME NEW k \in Keys, NEW r \in {rows[k], staged[k], disk[k]}, r # Null
        PROVE  r = Made(k[1], k[2])
    <2>1. PICK c \in Compilers, l \in Laws : k = <<c, l>>
      BY DEF Keys
    <2>2. k[1] = c /\ k[2] = l
      BY Zenon, <2>1
    <2> QED
      BY Zenon, <1>3, <2>1, <2>2 DEF IInv, RowsOk
  <1> QED
    BY Zenon, <1>1, <1>2, <1>3 DEF CodeIsCurrent

\* Whatever threads, laws and compilers there are and whatever the compilers
\* make of the laws: attached code, cached code and law blocks are the
\* installed compiler's, and every row of the store's and of the machine's
\* caches is its key's (pl_store_put_code, pl_store_put_compiler).
THEOREM CodeAlwaysCurrent == Spec => []CodeIsCurrent
  <1>1. Init => IInv
    BY Zenon, InitIInv
  <1>2. IInv /\ [Next]_vars => IInv'
    BY Zenon, NextIInv
  <1>3. IInv => CodeIsCurrent
    BY Zenon, IInvCurrent
  <1> QED
    BY <1>1, <1>2, <1>3, PTL DEF Spec
=============================================================================
