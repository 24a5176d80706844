----------------------------- MODULE CodeCache -----------------------------
(***************************************************************************)
(* How a store attaches compiled bytecode to its laws: pl_law_code,        *)
(* pl_store_code_demand, pl_store_put_code, pl_store_put_compiler and the  *)
(* machine-wide code cache (the plgc_ functions) of store.c.              *)
(*                                                                         *)
(* Evaluator threads enter laws.  The first to enter one without code      *)
(* claims its slot, takes the store's recursive save mutex, and looks the  *)
(* code up in four places: the store's code cache, its persistent rows,    *)
(* the machine-wide rows, and at last the installed compiler, a PLAN       *)
(* program whose run enters laws itself.  Decoding a row demands the code  *)
(* of the laws it calls, on the same thread, with the mutex held.          *)
(* Meanwhile other threads install another compiler, save, collect, or the *)
(* process restarts.                                                       *)
(*                                                                         *)
(* A row or a code object is the pair of the compiler and the law it was   *)
(* made from.  What a compiler makes of a law is a function (it is a pure  *)
(* PLAN program): Outcome.  A pin is the law it holds, since the intern    *)
(* table keeps one canonical pin per hash.                                 *)
(***************************************************************************)
EXTENDS Naturals, FiniteSets, Sequences

CONSTANTS
    Threads,      \* evaluator threads
    Laws,         \* hashed laws
    Compilers,    \* hashed compiler pins
    Outcome,      \* compiler, law -> "code" | "junk" (undecodable) | "raise"
    Callees,      \* law -> laws its row calls with every argument
    Uses,         \* compiler -> laws entered while it runs
    Inner,        \* law -> unpinned laws its code holds blocks for
    IngestDepth,  \* PL_INGEST_DEMAND_DEPTH
    StageFlush,   \* PLGC_STAGE_FLUSH
    MaxOps        \* bound on Install, Compile, GC and restarts together

ASSUME CodeCacheAssumption ==
    /\ Outcome \in [Compilers \X Laws -> {"code", "junk", "raise"}]
    /\ Callees \in [Laws -> SUBSET Laws]
    /\ Uses \in [Compilers -> SUBSET Laws]
    /\ DOMAIN Inner = Laws
    /\ IngestDepth \in Nat /\ StageFlush \in Nat /\ MaxOps \in Nat

VARIABLES
    format,    \* "silo" or "native"
    compiler,  \* <<>> or <<the installed compiler>>
    reg,       \* laws in the intern table, s->pins and code_targets
    slot,      \* cell 6 of a law's pin
    cache,     \* s->code_cache
    lawblk,    \* s->lawblk
    rows,      \* the store's (compiler, law) -> row entries
    staged,    \* plgc_staged
    disk,      \* plgc.mdb
    stack,     \* per thread: its demands, the innermost first
    ops        \* operations counted against MaxOps

store == <<reg, slot, cache, lawblk>>
caches == <<rows, staged, disk>>
vars == <<format, compiler, store, caches, stack, ops>>

Null == <<"null">>
None == <<"none">>
Pending == <<"pending">>
Made(c, l) == <<"made", c, l>>
IsMade(x) == x[1] = "made"
InnerLaws == UNION {Inner[l] : l \in Laws}

Keys == Compilers \X Laws
NoRows == [k \in Keys |-> Null]

Init ==
    /\ format \in {"silo", "native"}
    /\ compiler = <<>>
    /\ reg = {}
    /\ slot = [l \in Laws |-> Null]
    /\ cache = [l \in Laws |-> Null]
    /\ lawblk = [i \in InnerLaws |-> Null]
    /\ rows = NoRows /\ staged = NoRows /\ disk = NoRows
    /\ stack = [t \in Threads |-> <<>>]
    /\ ops = 0

-----------------------------------------------------------------------------
(* The calls of a thread.  A frame is one pl_store_code_demand ("demand")  *)
(* or the pl_store_put_code of the Compile operation ("compile").  A       *)
(* thread owns the save mutex while one of its frames is inside            *)
(* pl_store_put_code.                                                      *)

Frame(op, l, at) ==
    [op |-> op, law |-> l, at |-> at, by |-> <<>>, row |-> Null,
     from |-> "none", todo |-> {}]

Top(t) == Head(stack[t])
At(t, at) == stack[t] # <<>> /\ Top(t).at = at
Becomes(t, f) == stack' = [stack EXCEPT ![t] = <<f>> \o Tail(@)]
Goto(t, at) == Becomes(t, [Top(t) EXCEPT !.at = at])
Call(t, f) == stack' = [stack EXCEPT ![t] = <<f>> \o @]
Return(t) == stack' = [stack EXCEPT ![t] = Tail(@)]

Locked == {"lookup", "find", "compile", "ingest", "publish"}
Holds(t) == \E i \in DOMAIN stack[t] : stack[t][i].at \in Locked

SaveFreeOnce(t) == \A u \in Threads : ~Holds(u)

\* The save mutex is recursive.
SaveFree(t) == \A u \in Threads \ {t} : ~Holds(u)

\* pl_store_put_code unlocks and returns.
PutCodeReturns(t) ==
    IF Top(t).op = "demand" THEN Goto(t, "after") ELSE Return(t)

\* pl_store_register_canonical and pl_store_index_hashed_law_locked: a new
\* pin takes the code the cache holds for its hash.
Register(l) ==
    /\ reg' = reg \cup {l}
    /\ slot' = IF l \notin reg /\ IsMade(cache[l])
               THEN [slot EXCEPT ![l] = cache[l]] ELSE slot
    /\ UNCHANGED <<cache, lawblk>>

\* A law of a native image is reachable without being registered.
Exists(l) == format = "native" \/ l \in reg

-----------------------------------------------------------------------------
(* pl_law_code and pl_store_code_demand *)

DemandFrame(l) ==
    Frame("demand", l, IF format = "native" THEN "register" ELSE "claim")

\* Threads enter a law from the program they run; the thread that compiles
\* also enters the laws of the compiler.
Enters(t, l) ==
    stack[t] = <<>> \/ (At(t, "compile") /\ l \in Uses[Top(t).by[1]])

\* pl_law_code finds the slot empty; pl_store_code_demand finds a compiler.
Enter(t, l) ==
    /\ Enters(t, l)
    /\ Exists(l)
    /\ slot[l] = Null
    /\ compiler # <<>>
    /\ Call(t, DemandFrame(l))
    /\ UNCHANGED <<format, compiler, store, caches, ops>>

RegisterDemanded(t) ==
    /\ At(t, "register")
    /\ Register(Top(t).law)
    /\ Goto(t, "claim")
    /\ UNCHANGED <<format, compiler, caches, ops>>

\* The compare-and-exchange from NULL to PL_CODE_PENDING; a loser returns.
Claim(t) ==
    /\ At(t, "claim")
    /\ LET l == Top(t).law IN
       IF slot[l] = Null
       THEN slot' = [slot EXCEPT ![l] = Pending] /\ Goto(t, "lock")
       ELSE slot' = slot /\ Return(t)
    /\ UNCHANGED <<format, compiler, reg, cache, lawblk, caches, ops>>

\* The load of the slot after pl_store_put_code.
After(t) ==
    /\ At(t, "after")
    /\ IF slot[Top(t).law] = Pending THEN Goto(t, "mark") ELSE Return(t)
    /\ UNCHANGED <<format, compiler, store, caches, ops>>

\* Nothing was attached: from PL_CODE_PENDING to PL_CODE_NONE, if it still is.
Mark(t) ==
    /\ At(t, "mark")
    /\ LET l == Top(t).law IN
       slot' = IF slot[l] = Pending THEN [slot EXCEPT ![l] = None] ELSE slot
    /\ Return(t)
    /\ UNCHANGED <<format, compiler, reg, cache, lawblk, caches, ops>>

-----------------------------------------------------------------------------
(* pl_store_put_code *)

\* The Compile operation calls it for a hashed pin, without a claim.
CompileOp(t, l) ==
    /\ stack[t] = <<>> /\ Exists(l) /\ ops < MaxOps
    /\ Call(t, Frame("compile", l, "lock"))
    /\ ops' = ops + 1
    /\ UNCHANGED <<format, compiler, store, caches>>

\* pl_store_save_lock; a native store loads and registers the pin first.
Lock(t) ==
    /\ At(t, "lock")
    /\ SaveFree(t)
    /\ IF format = "native" THEN Register(Top(t).law) ELSE UNCHANGED store
    /\ Goto(t, "lookup")
    /\ UNCHANGED <<format, compiler, caches, ops>>

\* Without a compiler or a registered law there is nothing to do; cached
\* code is attached; otherwise the compiler's hash is noted and mu released.
Lookup(t) ==
    /\ At(t, "lookup")
    /\ LET l == Top(t).law IN
       IF compiler = <<>> \/ l \notin reg
       THEN slot' = slot /\ PutCodeReturns(t)
       ELSE IF IsMade(cache[l])
       THEN slot' = [slot EXCEPT ![l] = cache[l]] /\ PutCodeReturns(t)
       ELSE /\ slot' = slot
            /\ Becomes(t, [Top(t) EXCEPT !.at = "find", !.by = compiler])
    /\ UNCHANGED <<format, compiler, reg, cache, lawblk, caches, ops>>

\* codecache_key: the row of a law under one compiler.
CacheKey(c, l) == <<c, l>>

TheKey(t) == CacheKey(Top(t).by[1], Top(t).law)

\* pl_bytecode_from_val_in is about to decode a row found or made.
Ingest(t, row, from) ==
    Becomes(t, [Top(t) EXCEPT !.at = "ingest", !.row = row, !.from = from,
                              !.todo = IF Outcome[<<row[2], row[3]>>] = "code"
                                       THEN Callees[row[3]] ELSE {}])

\* The store's own row is served; an undecodable one counts too.
LocalRow(t) ==
    /\ At(t, "find")
    /\ rows[TheKey(t)] # Null
    /\ Ingest(t, rows[TheKey(t)], "local")
    /\ UNCHANGED <<format, compiler, store, caches, ops>>

\* plgc_get: a staged row, or one of the file when its lock is free in time.
GlobalRows(k) == {r \in {staged[k], disk[k]} : r # Null}

\* The machine-wide row is served, the store having none that loads.  A
\* native store records it as its own.
GlobalRow(t) ==
    /\ At(t, "find")
    /\ \E r \in GlobalRows(TheKey(t)) :
          /\ rows' = IF format = "native"
                     THEN [rows EXCEPT ![TheKey(t)] = r] ELSE rows
          /\ Ingest(t, r, "global")
    /\ UNCHANGED <<format, compiler, store, staged, disk, ops>>

\* No row, or none that loads here: a file's lock stayed busy, a pin of the
\* row does not resolve in this store.
NoRow(t) ==
    /\ At(t, "find")
    /\ Goto(t, "compile")
    /\ UNCHANGED <<format, compiler, store, caches, ops>>

\* The compiler's run ends: it raised, or its result is snapshot.
RunCompiler(t) ==
    /\ At(t, "compile")
    /\ LET c == Top(t).by[1]  l == Top(t).law IN
       IF Outcome[<<c, l>>] = "raise" THEN PutCodeReturns(t)
       ELSE Ingest(t, Made(c, l), "compile")
    /\ UNCHANGED <<format, compiler, store, caches, ops>>

\* eager_callee_mask: a callee without code is demanded, unless ingests are
\* nested too deep.
IngestCallee(t) ==
    /\ At(t, "ingest")
    /\ \E l \in Top(t).todo :
          LET rest == [Top(t) EXCEPT !.todo = @ \ {l}]
              depth == Cardinality({i \in DOMAIN stack[t] :
                                      stack[t][i].at = "ingest"})
          IN IF ~IsMade(slot[l]) /\ depth <= IngestDepth /\ Exists(l)
             THEN stack' = [stack EXCEPT
                              ![t] = <<DemandFrame(l)>> \o (<<rest>> \o Tail(@))]
             ELSE Becomes(t, rest)
    /\ UNCHANGED <<format, compiler, store, caches, ops>>

\* The first code of a generation is the one published, with its arity and
\* its blocks for unpinned laws; an existing block entry is kept.
Publish(l, code) ==
    LET kept == IF IsMade(cache[l]) THEN cache[l] ELSE code IN
    /\ cache' = [cache EXCEPT ![l] = kept]
    /\ lawblk' = [i \in InnerLaws |->
                    IF kept = code /\ i \in Inner[code[3]] /\ ~IsMade(lawblk[i])
                    THEN code ELSE lawblk[i]]
    /\ slot' = IF l \in reg THEN [slot EXCEPT ![l] = kept] ELSE slot

\* The row is decoded; code is attached to the law's pin under mu.
Attach(t) ==
    /\ At(t, "ingest")
    /\ Top(t).todo = {}
    /\ LET r == Top(t).row IN
       IF Outcome[<<r[2], r[3]>>] = "code" THEN Publish(Top(t).law, r)
       ELSE UNCHANGED <<slot, cache, lawblk>>
    /\ IF Top(t).from = "global" THEN PutCodeReturns(t) ELSE Goto(t, "publish")
    /\ UNCHANGED <<format, compiler, reg, caches, ops>>

\* pl_store_cache_checkpoint: the staged rows reach the file, or a busy lock
\* defers them.
Flushed(s) == [k \in Keys |-> IF s[k] # Null THEN s[k] ELSE disk[k]]
Checkpoint(s) ==
    \/ staged' = NoRows /\ disk' = Flushed(s)
    \/ staged' = s /\ disk' = disk

\* plgc_put
PutGlobal(k, r) ==
    LET s == [staged EXCEPT ![k] = r] IN
    IF Cardinality({j \in Keys : s[j] # Null}) >= StageFlush
    THEN Checkpoint(s) ELSE staged' = s /\ disk' = disk

\* A row of the store migrates to the machine-wide cache unless found there.
Migrate(t) ==
    /\ At(t, "publish") /\ Top(t).from = "local"
    /\ \/ GlobalRows(TheKey(t)) # {} /\ UNCHANGED <<staged, disk>>
       \/ staged[TheKey(t)] = Null /\ PutGlobal(TheKey(t), Top(t).row)
    /\ PutCodeReturns(t)
    /\ UNCHANGED <<format, compiler, store, rows, ops>>

\* A row just compiled is recorded in both caches, unless it was quick to
\* make or does not save.
Admit(t) ==
    /\ At(t, "publish") /\ Top(t).from = "compile"
    /\ \/ /\ rows' = [rows EXCEPT ![TheKey(t)] = Top(t).row]
          /\ PutGlobal(TheKey(t), Top(t).row)
       \/ UNCHANGED <<rows, staged, disk>>
    /\ PutCodeReturns(t)
    /\ UNCHANGED <<format, compiler, store, ops>>

-----------------------------------------------------------------------------
(* The rest of the process *)

\* A law is interned by a load or a save.
Intern(l) ==
    /\ l \notin reg
    /\ Register(l)
    /\ UNCHANGED <<format, compiler, caches, stack, ops>>

\* pl_store_gc_weak: an unreachable pin leaves the tables.  The code cache
\* keeps its entry.
GcWeak(l) ==
    /\ format = "silo" /\ l \in reg /\ ops < MaxOps
    /\ \A t \in Threads : \A i \in DOMAIN stack[t] : stack[t][i].law # l
    /\ reg' = reg \ {l}
    /\ slot' = [slot EXCEPT ![l] = Null]
    /\ ops' = ops + 1
    /\ UNCHANGED <<format, compiler, cache, lawblk, caches, stack>>

InvalidateSlots ==
    /\ slot' = [l \in Laws |-> IF l \in reg THEN Null ELSE slot[l]]
    /\ UNCHANGED <<cache, lawblk, reg>>

\* pl_store_invalidate_code_locked
Invalidate ==
    /\ slot' = [l \in Laws |-> IF l \in reg THEN Null ELSE slot[l]]
    /\ cache' = [l \in Laws |-> Null]
    /\ lawblk' = [i \in InnerLaws |-> Null]
    /\ reg' = reg

\* The Install operation: pl_store_put_compiler under both mutexes.  The
\* installed compiler again is no work.
Install(t, c) ==
    /\ stack[t] = <<>> /\ ops < MaxOps
    /\ SaveFree(t)
    /\ compiler # <<c>>
    /\ Invalidate
    /\ compiler' = <<c>>
    /\ ops' = ops + 1
    /\ UNCHANGED <<format, caches, stack>>

\* pl_store_save_root checkpoints the machine-wide cache once it is done.
Save(t) ==
    /\ stack[t] = <<>>
    /\ staged # NoRows
    /\ Checkpoint(staged)
    /\ UNCHANGED <<format, compiler, store, rows, stack, ops>>

\* The process ends at any point and another opens the store, with the rows
\* that had been saved.
Restart ==
    /\ ops < MaxOps
    /\ \E kept \in SUBSET {k \in Keys : rows[k] # Null} :
          rows' = [k \in Keys |-> IF k \in kept THEN rows[k] ELSE Null]
    /\ compiler' = <<>>
    /\ reg' = {}
    /\ slot' = [l \in Laws |-> Null]
    /\ cache' = [l \in Laws |-> Null]
    /\ lawblk' = [i \in InnerLaws |-> Null]
    /\ staged' = NoRows
    /\ stack' = [t \in Threads |-> <<>>]
    /\ ops' = ops + 1
    /\ UNCHANGED <<format, disk>>

\* The steps of a thread inside a demand.
Step(t) ==
    \/ RegisterDemanded(t)
    \/ Claim(t)
    \/ Lock(t)
    \/ Lookup(t)
    \/ LocalRow(t)
    \/ GlobalRow(t)
    \/ NoRow(t)
    \/ RunCompiler(t)
    \/ IngestCallee(t)
    \/ Attach(t)
    \/ Migrate(t)
    \/ Admit(t)
    \/ After(t)
    \/ Mark(t)

Next ==
    \/ \E t \in Threads :
          \/ Step(t)
          \/ \E l \in Laws : Enter(t, l) \/ CompileOp(t, l)
          \/ \E c \in Compilers : Install(t, c)
          \/ Save(t)
    \/ \E l \in Laws : Intern(l) \/ GcWeak(l)
    \/ Restart

\* Some thread inside a demand that can run does; nothing obliges anyone to
\* start an operation.
Spec == Init /\ [][Next]_vars /\ WF_vars(\E t \in Threads : Step(t))

-----------------------------------------------------------------------------
(* Properties *)

\* Whatever the interleaving of demands, installs, collections and restarts,
\* the code a pin carries, the code the store would attach next and the
\* blocks of unpinned laws are what the installed compiler makes of that
\* law; and every persistent row is what the compiler of its key makes of
\* the law of its key (store.c: "THE answer").
CodeIsCurrent ==
    /\ \A l \in Laws : \A x \in {slot[l], cache[l]} :
          IsMade(x) => /\ compiler # <<>> /\ x = Made(compiler[1], l)
                       /\ Outcome[<<compiler[1], l>>] = "code"
    /\ \A i \in InnerLaws : IsMade(lawblk[i]) =>
          /\ compiler = <<lawblk[i][2]>>
          /\ i \in Inner[lawblk[i][3]]
    /\ \A k \in Keys : \A r \in {rows[k], staged[k], disk[k]} :
          r # Null => r = Made(k[1], k[2])

\* Every demand returns, with callees that demand each other and a compiler
\* that demands its own laws while the save mutex is held; and once the
\* threads have left, no claim is left behind and a law is marked as having
\* no code only if the installed compiler really makes none of it, although
\* a slow claimant may mark a slot that a later generation has claimed anew.
Settles ==
    <>[](/\ \A t \in Threads : stack[t] = <<>>
         /\ \A l \in Laws :
               /\ slot[l] # Pending
               /\ slot[l] = None => /\ compiler # <<>>
                                    /\ Outcome[<<compiler[1], l>>] # "code")
=============================================================================
