--------------------------- MODULE Gc2WorldProofs ---------------------------
(***************************************************************************)
(* Safety of the stop-the-world handshake for any number of threads, any   *)
(* nesting of scopes and any number of spans.                              *)
(*                                                                         *)
(* MarkExcludesMutators is not inductive: entering a scope is guarded by   *)
(* the flag "stopped" and leaving one counts "active" down, so the         *)
(* invariant ties the flag to the one thread that set it and the two       *)
(* counters to the scopes they count.                                      *)
(***************************************************************************)
EXTENDS Gc2World, FiniteSetTheorems, TLAPS

Scopes == {t \in Threads : depth[t] > 0}
BlockingScopes == {t \in Threads : blk[t]}

\* The counters of the gate count the scopes of the threads.
Counts ==
  /\ active = Cardinality(Scopes)
  /\ blocking = Cardinality(BlockingScopes)

\* The gate is closed by one collector at a time.
OneStopper ==
  \A c \in Threads : pc[c] \in Stopping =>
    /\ stopped
    /\ \A d \in Threads : pc[d] \in Stopping => d = c

\* A store lock is owned inside a scope, or by the collector while it marks.
LockOwners ==
  \A t \in Threads : saveMu = t \/ storeMu = t => InScope(t) \/ pc[t] = "mark"

\* A collector goes on to mark only after the previous sweep.
SweptBeforeMark ==
  /\ ~sweeping => work = 0
  /\ \A c \in Threads : pc[c] \in {"lock", "mark"} => ~sweeping

IInv ==
  /\ TypeOK
  /\ Counts
  /\ OneStopper
  /\ MarkExcludesMutators
  /\ LockOwners
  /\ SweptBeforeMark

-----------------------------------------------------------------------------
\* Both counted sets are finite: they are sets of threads.
LEMMA ScopesFinite ==
  /\ IsFiniteSet(Scopes) /\ Cardinality(Scopes) \in Nat
  /\ IsFiniteSet(BlockingScopes) /\ Cardinality(BlockingScopes) \in Nat
  BY Zenon, WorldAssumption, FS_Subset, FS_CardinalityType DEF Scopes, BlockingScopes

\* Counting a thread in: what active++ and blocking++ keep true.
LEMMA CountIn ==
  ASSUME NEW S, IsFiniteSet(S), NEW x, x \notin S
  PROVE  /\ IsFiniteSet(S \cup {x})
         /\ Cardinality(S \cup {x}) = Cardinality(S) + 1
  BY Zenon, FS_AddElement

\* Counting a thread out: the counter was positive, so it never wraps.
LEMMA CountOut ==
  ASSUME NEW S, IsFiniteSet(S), NEW x \in S
  PROVE  /\ Cardinality(S \ {x}) = Cardinality(S) - 1
         /\ Cardinality(S) - 1 \in Nat
<1>1. IsFiniteSet(S \ {x}) /\ Cardinality(S \ {x}) = Cardinality(S) - 1
  BY Zenon, FS_RemoveElement
<1> QED
  BY Zenon, <1>1, FS_CardinalityType

-----------------------------------------------------------------------------
\* The handshake starts with the gate open, no scope and no lock.
LEMMA InitIInv == Init => IInv
<1> SUFFICES ASSUME Init PROVE IInv
  BY Zenon
<1>1. TypeOK
  <2>1. depth \in [Threads -> 0..MaxDepth]
    BY WorldAssumption DEF Init
  <2>2. blk \in [Threads -> BOOLEAN] /\ force \in [Threads -> BOOLEAN]
    BY Zenon DEF Init
  <2> QED
    BY Zenon, <2>1, <2>2 DEF Init, TypeOK, PCs
<1>2. Counts
  <2>1. Scopes = {} /\ BlockingScopes = {}
    BY DEF Init, Scopes, BlockingScopes
  <2> QED
    BY Zenon, <2>1, FS_EmptySet DEF Init, Counts
<1>3. OneStopper /\ MarkExcludesMutators
  BY Zenon DEF Init, OneStopper, MarkExcludesMutators, Stopping, Exclusive
<1>4. LockOwners /\ SweptBeforeMark
  BY Zenon, WorldAssumption DEF Init, LockOwners, SweptBeforeMark
<1> QED
  BY Zenon, <1>1, <1>2, <1>3, <1>4 DEF IInv

\* The steps that leave the program counters, the scopes and the gate alone.
LEMMA LockSteps ==
  ASSUME IInv, NEW t \in Threads,
         \/ LockSave(t) \/ LockStore(t) \/ LockSys(t)
         \/ UnlockSave(t) \/ UnlockStore(t) \/ UnlockSys(t)
         \/ Alloc(t) \/ Request(t)
  PROVE  IInv'
<1> USE DEF LockSave, LockStore, LockSys, UnlockSave, UnlockStore, UnlockSys,
            Alloc, Request, gate, sweep, locks
<1>0. /\ UNCHANGED <<pc, force, sweeping, cvAsleep>>
      /\ UNCHANGED <<depth, blk, active, blocking, stopped, asleep>>
  BY Zenon
<1>w. work' \in 0..work
  <2>1. work \in Nat
    BY Zenon DEF IInv, TypeOK
  <2>2. work' \in 0..work \/ work' = work
    BY Zenon
  <2> QED
    BY <2>1, <2>2
<1>1. TypeOK'
  <2>1. requested' \in BOOLEAN
    BY Zenon DEF IInv, TypeOK
  <2>2. work' \in Nat
    BY <1>w DEF IInv, TypeOK
  <2>3. /\ saveMu' \in Threads \cup {None}
        /\ storeMu' \in Threads \cup {None}
        /\ sysMu' \in Threads \cup {None}
    BY Zenon DEF IInv, TypeOK
  <2> QED
    BY Zenon, <1>0, <2>1, <2>2, <2>3 DEF IInv, TypeOK
<1>2. Counts'
  BY Zenon, <1>0 DEF IInv, Counts, Scopes, BlockingScopes
<1>3. OneStopper' /\ MarkExcludesMutators'
  BY Zenon, <1>0 DEF IInv, OneStopper, MarkExcludesMutators, InScope
<1>4. LockOwners'
  BY Zenon, WorldAssumption DEF IInv, LockOwners, InScope, TypeOK
<1>5. SweptBeforeMark'
  <2>1. work = 0 => work' = 0
    BY <1>w
  <2> QED
    BY Zenon, <1>0, <2>1 DEF IInv, SweptBeforeMark
<1> QED
  BY Zenon, <1>1, <1>2, <1>3, <1>4, <1>5 DEF IInv

\* The sweeper, and waits that return for no reason.
LEMMA SweepSteps ==
  ASSUME IInv, SweeperStep \/ SpuriousWakeup
  PROVE  IInv'
<1> USE DEF SweeperStep, SweepOne, SweepEnd, SweepIdle, SpuriousWakeup,
            gate, locks
<1>0. /\ UNCHANGED <<pc, force, requested, depth, blk, active, blocking, stopped>>
      /\ UNCHANGED <<saveMu, storeMu, sysMu>>
  BY Zenon
<1>1. \/ work' = work /\ (sweeping' = sweeping \/ (work = 0 /\ sweeping' = FALSE))
      \/ work > 0 /\ work' = work - 1 /\ sweeping /\ sweeping' = sweeping
  BY Zenon DEF sweep
<1>2. work' \in Nat /\ sweeping' \in BOOLEAN
  <2>1. work \in Nat /\ sweeping \in BOOLEAN
    BY Zenon DEF IInv, TypeOK
  <2>2. \/ work' = work
        \/ work > 0 /\ work' = work - 1
    BY Zenon, <1>1
  <2>3. work' \in Nat
    BY <2>1, <2>2
  <2> QED
    BY Zenon, <1>1, <2>1, <2>3
<1>3. asleep' \in SUBSET Threads /\ cvAsleep' \in SUBSET (Threads \cup {Sweeper})
  BY Zenon DEF IInv, TypeOK, sweep
<1>4. TypeOK'
  BY Zenon, <1>0, <1>2, <1>3 DEF IInv, TypeOK
<1>5. Counts' /\ OneStopper' /\ MarkExcludesMutators' /\ LockOwners'
  BY Zenon, <1>0 DEF IInv, Counts, Scopes, BlockingScopes, OneStopper,
              MarkExcludesMutators, LockOwners, InScope
<1>6. SweptBeforeMark'
  BY <1>0, <1>1 DEF IInv, SweptBeforeMark
<1> QED
  BY Zenon, <1>4, <1>5, <1>6 DEF IInv

\* A thread outside collect moves between states outside collect.
LEMMA PcOutside ==
  ASSUME IInv, NEW t \in Threads, pc[t] \notin Stopping,
         NEW x \in PCs \ Stopping, pc' = [pc EXCEPT ![t] = x],
         UNCHANGED <<stopped, depth, saveMu, storeMu>>
  PROVE  /\ pc' \in [Threads -> PCs]
         /\ OneStopper' /\ MarkExcludesMutators' /\ LockOwners'
         /\ \A c \in Threads : pc'[c] \in {"lock", "mark"} =>
              pc[c] \in {"lock", "mark"}
<1>1. /\ pc' \in [Threads -> PCs]
      /\ \A c \in Threads : pc'[c] = IF c = t THEN x ELSE pc[c]
  BY Zenon DEF IInv, TypeOK
<1>2. \A c \in Threads : pc'[c] \in Stopping => pc[c] \in Stopping
  BY Zenon, <1>1
<1>3. OneStopper'
  BY Zenon, <1>2 DEF IInv, OneStopper
<1>4. MarkExcludesMutators'
  BY Zenon, <1>1 DEF IInv, MarkExcludesMutators, Exclusive, Stopping, InScope
<1>5. LockOwners'
  BY Zenon, <1>1 DEF IInv, LockOwners, InScope, Stopping
<1>6. \A c \in Threads : pc'[c] \in {"lock", "mark"} => pc[c] \in {"lock", "mark"}
  BY Zenon, <1>1 DEF Stopping
<1> QED
  BY Zenon, <1>1, <1>3, <1>4, <1>5, <1>6

\* A step that moves one thread outside collect and leaves the scopes alone.
LEMMA QuietSteps ==
  ASSUME IInv, NEW t \in Threads,
         \/ StartWait(t) \/ HostWait(t)
         \/ \E u \in Threads : Serve(u, t)
         \/ \E f \in BOOLEAN : StartCollect(t, f)
  PROVE  IInv'
<1> USE DEF StartWait, HostWait, WaitSweep, Serve, StartCollect, Goto,
            gate, sweep, locks
<1>0. /\ UNCHANGED <<requested, sweeping, work, saveMu, storeMu, sysMu>>
      /\ UNCHANGED <<depth, blk, active, blocking, stopped, asleep>>
  BY Zenon
<1>1. \/ pc' = pc
      \/ /\ pc[t] \notin Stopping
         /\ \E x \in {"wait", "run", "check"} : pc' = [pc EXCEPT ![t] = x]
  BY Zenon DEF Stopping
<1>2. /\ pc' \in [Threads -> PCs]
      /\ OneStopper' /\ MarkExcludesMutators' /\ LockOwners'
      /\ \A c \in Threads : pc'[c] \in {"lock", "mark"} =>
           pc[c] \in {"lock", "mark"}
  <2>1. CASE pc' = pc
    BY Zenon, <1>0, <2>1 DEF IInv, TypeOK, OneStopper, MarkExcludesMutators, LockOwners,
                      InScope
  <2>2. CASE /\ pc[t] \notin Stopping
             /\ \E x \in {"wait", "run", "check"} : pc' = [pc EXCEPT ![t] = x]
    <3>1. PICK x \in {"wait", "run", "check"} : pc' = [pc EXCEPT ![t] = x]
      BY Zenon, <2>2
    <3>2. x \in PCs \ Stopping
      BY Zenon DEF PCs, Stopping
    <3> QED
      BY Zenon, <1>0, <2>2, <3>1, <3>2, PcOutside
  <2> QED
    BY Zenon, <1>1, <2>1, <2>2
<1>3. TypeOK'
  <2>1. cvAsleep' \in SUBSET (Threads \cup {Sweeper})
    BY Zenon DEF IInv, TypeOK
  <2>2. force' \in [Threads -> BOOLEAN]
    BY Zenon DEF IInv, TypeOK
  <2> QED
    BY Zenon, <1>0, <1>2, <2>1, <2>2 DEF IInv, TypeOK
<1>4. Counts' /\ SweptBeforeMark'
  BY Zenon, <1>0, <1>2 DEF IInv, Counts, Scopes, BlockingScopes, SweptBeforeMark
<1> QED
  BY Zenon, <1>2, <1>3, <1>4 DEF IInv

\* A thread gets through the gate, or falls asleep in front of it.
LEMMA EnterStep ==
  ASSUME IInv, NEW t \in Threads, Enter(t)
  PROVE  IInv'
<1> USE DEF Goto, Sleep, sweep, locks
<1>0. /\ UNCHANGED <<force, requested, blk, blocking, stopped>>
      /\ UNCHANGED <<sweeping, work, cvAsleep, saveMu, storeMu, sysMu>>
      /\ ~InScope(t) /\ pc[t] \in {"run", "enter"}
  BY Zenon DEF Enter
<1>1. CASE /\ stopped
           /\ pc' = [pc EXCEPT ![t] = "enter"]
           /\ asleep' = asleep \cup {t}
           /\ UNCHANGED <<depth, active>>
  <2>1. /\ pc' \in [Threads -> PCs]
        /\ OneStopper' /\ MarkExcludesMutators' /\ LockOwners'
        /\ \A c \in Threads : pc'[c] \in {"lock", "mark"} =>
             pc[c] \in {"lock", "mark"}
    BY Zenon, <1>0, <1>1, PcOutside DEF PCs, Stopping
  <2>2. TypeOK'
    BY Zenon, <1>0, <1>1, <2>1 DEF IInv, TypeOK
  <2>3. Counts' /\ SweptBeforeMark'
    BY Zenon, <1>0, <1>1, <2>1 DEF IInv, Counts, Scopes, BlockingScopes, SweptBeforeMark
  <2> QED
    BY Zenon, <2>1, <2>2, <2>3 DEF IInv
<1>2. CASE /\ ~stopped
           /\ pc' = [pc EXCEPT ![t] = "run"]
           /\ depth' = [depth EXCEPT ![t] = 1]
           /\ active' = active + 1
           /\ UNCHANGED asleep
  <2>1. /\ pc' \in [Threads -> PCs]
        /\ \A c \in Threads : pc'[c] = IF c = t THEN "run" ELSE pc[c]
    BY Zenon, <1>2 DEF IInv, TypeOK, PCs
  <2>2. \A c \in Threads : pc[c] \notin Stopping
    BY Zenon, <1>2 DEF IInv, OneStopper
  <2>3. \A c \in Threads : pc'[c] \notin Stopping
    BY Zenon, <2>1, <2>2 DEF Stopping
  <2>4. OneStopper' /\ MarkExcludesMutators'
    BY Zenon, <2>3 DEF OneStopper, MarkExcludesMutators, Exclusive, Stopping
  <2>5. /\ depth' \in [Threads -> 0..MaxDepth]
        /\ \A c \in Threads : depth'[c] = IF c = t THEN 1 ELSE depth[c]
    BY <1>2, WorldAssumption DEF IInv, TypeOK
  <2>6. LockOwners'
    BY Zenon, <1>0, <2>1, <2>5 DEF IInv, LockOwners, InScope
  <2>7. Scopes' = Scopes \cup {t} /\ t \notin Scopes
    BY <1>0, <2>5 DEF Scopes, InScope
  <2>8. active' = Cardinality(Scopes')
    BY Zenon, <1>2, <2>7, ScopesFinite, CountIn DEF IInv, Counts
  <2>9. Counts'
    BY Zenon, <1>0, <2>8 DEF IInv, Counts, BlockingScopes
  <2>10. active' \in Nat
    BY <1>2 DEF IInv, TypeOK
  <2>11. TypeOK'
    BY Zenon, <1>0, <1>2, <2>1, <2>5, <2>10 DEF IInv, TypeOK
  <2>12. SweptBeforeMark'
    BY Zenon, <1>0, <2>3 DEF IInv, SweptBeforeMark, Stopping
  <2> QED
    BY Zenon, <2>4, <2>6, <2>9, <2>11, <2>12 DEF IInv
<1> QED
  BY Zenon, <1>1, <1>2 DEF Enter

\* A nested scope is one more level of a scope that already counts.
LEMMA EnterNestedStep ==
  ASSUME IInv, NEW t \in Threads, EnterNested(t)
  PROVE  IInv'
<1> USE DEF sweep, locks
<1>0. /\ UNCHANGED <<pc, force, requested, blk, active, blocking, stopped, asleep>>
      /\ UNCHANGED <<sweeping, work, cvAsleep, saveMu, storeMu, sysMu>>
      /\ depth' = [depth EXCEPT ![t] = @ + 1]
      /\ depth[t] \in 1..MaxDepth - 1
  BY Zenon DEF EnterNested
<1>1. depth' \in [Threads -> 0..MaxDepth]
  BY <1>0, WorldAssumption DEF IInv, TypeOK
<1>2. \A c \in Threads : depth'[c] > 0 <=> depth[c] > 0
  BY <1>0, WorldAssumption DEF IInv, TypeOK
<1>3. Scopes' = Scopes
  BY Zenon, <1>2 DEF Scopes
<1>4. Counts'
  BY Zenon, <1>0, <1>3 DEF IInv, Counts, BlockingScopes
<1>5. TypeOK' /\ OneStopper' /\ SweptBeforeMark'
  BY Zenon, <1>0, <1>1 DEF IInv, TypeOK, OneStopper, SweptBeforeMark
<1>6. MarkExcludesMutators' /\ LockOwners'
  BY Zenon, <1>0, <1>2 DEF IInv, MarkExcludesMutators, LockOwners, InScope
<1> QED
  BY Zenon, <1>4, <1>5, <1>6 DEF IInv

\* Leaving the outermost scope counts the thread out; it owns no lock then.
LEMMA LeaveStep ==
  ASSUME IInv, NEW t \in Threads, Leave(t)
  PROVE  IInv'
<1> USE DEF sweep, locks, Broadcast
<1>0. /\ UNCHANGED <<pc, force, requested, stopped, sweeping, work, cvAsleep>>
      /\ UNCHANGED <<saveMu, storeMu, sysMu>>
      /\ depth' = [depth EXCEPT ![t] = @ - 1]
      /\ depth[t] > 0 /\ HoldsNone(t)
  BY Zenon DEF Leave, InScope
<1>1. /\ depth' \in [Threads -> 0..MaxDepth]
      /\ depth'[t] = depth[t] - 1
      /\ \A c \in Threads \ {t} : depth'[c] = depth[c]
  BY <1>0, WorldAssumption DEF IInv, TypeOK
<1>2. \A c \in Threads : depth'[c] > 0 => depth[c] > 0
  BY Zenon, <1>0, <1>1
<1>3. OneStopper' /\ SweptBeforeMark'
  BY Zenon, <1>0 DEF IInv, OneStopper, SweptBeforeMark
<1>4. MarkExcludesMutators'
  BY Zenon, <1>0, <1>2 DEF IInv, MarkExcludesMutators, InScope
<1>5. LockOwners'
  BY Zenon, <1>0, <1>1 DEF IInv, LockOwners, InScope, HoldsNone
<1>6. CASE depth[t] > 1 /\ UNCHANGED <<blk, active, blocking, asleep>>
  <2>1. Scopes' = Scopes
    BY <1>0, <1>1, <1>6 DEF Scopes, IInv, TypeOK
  <2>2. Counts'
    BY Zenon, <1>6, <2>1 DEF IInv, Counts, BlockingScopes
  <2>3. TypeOK'
    BY Zenon, <1>0, <1>1, <1>6 DEF IInv, TypeOK
  <2> QED
    BY Zenon, <1>3, <1>4, <1>5, <2>2, <2>3 DEF IInv
<1>7. CASE /\ depth[t] = 1
           /\ active' = active - 1
           /\ blocking' = IF blk[t] THEN blocking - 1 ELSE blocking
           /\ blk' = [blk EXCEPT ![t] = FALSE]
           /\ asleep' = {}
  <2>1. Scopes' = Scopes \ {t} /\ t \in Scopes
    BY <1>0, <1>1, <1>7 DEF Scopes
  <2>2. active' = Cardinality(Scopes') /\ active' \in Nat
    BY Zenon, <1>7, <2>1, ScopesFinite, CountOut DEF IInv, Counts
  <2>3. /\ blk' \in [Threads -> BOOLEAN]
        /\ BlockingScopes' = BlockingScopes \ {t}
    BY Zenon, <1>7 DEF BlockingScopes, IInv, TypeOK
  <2>4. blocking' = Cardinality(BlockingScopes') /\ blocking' \in Nat
    <3>1. CASE blk[t]
      <4>1. t \in BlockingScopes
        BY Zenon, <3>1 DEF BlockingScopes
      <4>2. blocking' = blocking - 1
        BY Zenon, <1>7, <3>1
      <4> QED
        BY Zenon, <2>3, <4>1, <4>2, ScopesFinite, CountOut DEF IInv, Counts
    <3>2. CASE ~blk[t]
      <4>1. BlockingScopes' = BlockingScopes
        BY Zenon, <2>3, <3>2 DEF BlockingScopes
      <4>2. blocking' = blocking
        BY Zenon, <1>7, <3>2
      <4> QED
        BY Zenon, <4>1, <4>2, ScopesFinite DEF IInv, Counts
    <3> QED
      BY Zenon, <3>1, <3>2
  <2>5. Counts'
    BY Zenon, <2>2, <2>4 DEF Counts
  <2>6. TypeOK'
    BY Zenon, <1>0, <1>1, <1>7, <2>2, <2>3, <2>4 DEF IInv, TypeOK
  <2> QED
    BY Zenon, <1>3, <1>4, <1>5, <2>5, <2>6 DEF IInv
<1> QED
  BY Zenon, <1>6, <1>7 DEF Leave

\* A scope declares itself blocking, and may then block in the host.
LEMMA BlockingSteps ==
  ASSUME IInv, NEW t \in Threads, Blocking(t) \/ BeginIo(t)
  PROVE  IInv'
<1> USE DEF gate, sweep, locks, Goto
<1>0. /\ UNCHANGED <<force, requested, depth, active, stopped>>
      /\ UNCHANGED <<sweeping, work, cvAsleep, saveMu, storeMu, sysMu>>
  BY Zenon DEF Blocking, BeginIo, DeclareBlocking
<1>1. /\ pc' \in [Threads -> PCs]
      /\ OneStopper' /\ MarkExcludesMutators' /\ LockOwners'
      /\ \A c \in Threads : pc'[c] \in {"lock", "mark"} =>
           pc[c] \in {"lock", "mark"}
  <2>1. CASE pc' = pc
    BY Zenon, <1>0, <2>1 DEF IInv, TypeOK, OneStopper, MarkExcludesMutators, LockOwners,
                      InScope
  <2>2. CASE pc[t] = "run" /\ pc' = [pc EXCEPT ![t] = "io"]
    BY Zenon, <1>0, <2>2, PcOutside DEF PCs, Stopping
  <2> QED
    BY Zenon, <2>1, <2>2 DEF Blocking, BeginIo
<1>2. /\ blk' \in [Threads -> BOOLEAN] /\ asleep' \in SUBSET Threads
      /\ blocking' = Cardinality(BlockingScopes') /\ blocking' \in Nat
  <2>1. CASE UNCHANGED gate
    BY Zenon, <2>1 DEF IInv, TypeOK, Counts, BlockingScopes
  <2>2. CASE /\ ~blk[t]
             /\ blk' = [blk EXCEPT ![t] = TRUE]
             /\ blocking' = blocking + 1
             /\ asleep' = {}
    <3>1. blk' \in [Threads -> BOOLEAN] /\ asleep' \in SUBSET Threads
      BY Zenon, <2>2 DEF IInv, TypeOK
    <3>2. BlockingScopes' = BlockingScopes \cup {t} /\ t \notin BlockingScopes
      BY Zenon, <2>2 DEF BlockingScopes, IInv, TypeOK
    <3>3. blocking' = Cardinality(BlockingScopes') /\ blocking' \in Nat
      BY <2>2, <3>2, ScopesFinite, CountIn DEF IInv, Counts
    <3> QED
      BY Zenon, <3>1, <3>3
  <2> QED
    BY Zenon, <2>1, <2>2 DEF Blocking, BeginIo, DeclareBlocking, Broadcast
<1>3. TypeOK'
  BY Zenon, <1>0, <1>1, <1>2 DEF IInv, TypeOK
<1>4. Counts' /\ SweptBeforeMark'
  BY Zenon, <1>0, <1>1, <1>2 DEF IInv, Counts, Scopes, SweptBeforeMark
<1> QED
  BY Zenon, <1>1, <1>3, <1>4 DEF IInv

\* No scope is left when the counter is zero.
LEMMA NoActiveNoScope ==
  ASSUME IInv, active = 0
  PROVE  \A t \in Threads : ~InScope(t)
<1>1. Scopes = {}
  BY Zenon, ScopesFinite, FS_EmptySet DEF IInv, Counts
<1> QED
  BY Zenon, <1>1 DEF Scopes, InScope

\* The steps of collect that leave scopes, counters and locks alone, by where
\* the thread was and where it goes.
LEMMA HandshakeSteps ==
  ASSUME IInv, NEW t \in Threads, Check(t) \/ Drain(t) \/ Reopen(t)
  PROVE  IInv'
<1> USE DEF Check, Close, Drain, Reopened, Reopen, Goto, Sleep, Broadcast,
            sweep, locks
<1>0. /\ UNCHANGED <<force, requested, depth, blk, active, blocking>>
      /\ UNCHANGED <<sweeping, work, cvAsleep, saveMu, storeMu, sysMu>>
  BY Zenon
<1>1. asleep' \in SUBSET Threads
  BY Zenon DEF IInv, TypeOK
<1>2. stopped' \in BOOLEAN
  BY Zenon DEF IInv, TypeOK
<1>3. \/ UNCHANGED <<pc, stopped>>
      \/ /\ pc[t] = "check" /\ UNCHANGED stopped
         /\ pc' = [pc EXCEPT ![t] = "run"]
      \/ /\ pc[t] = "check" /\ ~stopped /\ stopped'
         /\ \/ pc' = [pc EXCEPT ![t] = "drain"]
            \/ active = 0 /\ pc' = [pc EXCEPT ![t] = "gcwait"]
      \/ /\ pc[t] = "drain" /\ UNCHANGED stopped /\ active = 0
         /\ pc' = [pc EXCEPT ![t] = "gcwait"]
      \/ /\ pc[t] \in {"drain", "reopen"} /\ ~stopped'
         /\ \E x \in {"run", "check"} : pc' = [pc EXCEPT ![t] = x]
  BY Zenon DEF IInv, TypeOK
<1>4. pc' \in [Threads -> PCs]
  BY <1>3 DEF IInv, TypeOK, PCs
<1>5. \A c \in Threads : c # t => pc'[c] = pc[c]
  BY Zenon, <1>3 DEF IInv, TypeOK
<1>6. OneStopper'
  BY <1>3, <1>4, <1>5 DEF IInv, TypeOK, OneStopper, Stopping
<1>7. MarkExcludesMutators'
  <2>1. pc'[t] \in Exclusive => pc[t] \in Exclusive \/ active = 0
    BY Zenon, <1>3 DEF IInv, TypeOK, Exclusive
  <2>2. \A c \in Threads : pc'[c] \in Exclusive =>
          \A u \in Threads : ~InScope(u)
    BY Zenon, <1>5, <2>1, NoActiveNoScope DEF IInv, MarkExcludesMutators
  <2> QED
    BY Zenon, <1>0, <2>2 DEF MarkExcludesMutators, InScope
<1>8. LockOwners' /\ SweptBeforeMark'
  <2>1. \A c \in Threads : /\ pc[c] = "mark" => pc'[c] = "mark"
                           /\ pc'[c] \in {"lock", "mark"} =>
                                pc[c] \in {"lock", "mark"}
    BY Zenon, <1>3, <1>5 DEF IInv, TypeOK
  <2> QED
    BY Zenon, <1>0, <2>1 DEF IInv, LockOwners, SweptBeforeMark, InScope
<1>9. TypeOK'
  BY Zenon, <1>0, <1>1, <1>2, <1>4 DEF IInv, TypeOK
<1>10. Counts'
  BY Zenon, <1>0 DEF IInv, Counts, Scopes, BlockingScopes
<1> QED
  BY Zenon, <1>6, <1>7, <1>8, <1>9, <1>10 DEF IInv

\* Between the end of the scopes and the reopening of the gate: the wait for
\* the sweeper, the locks, and the mark itself.
LEMMA ExclusiveSteps ==
  ASSUME IInv, NEW t \in Threads, WaitPrevious(t) \/ TakeLocks(t) \/ Mark(t)
  PROVE  IInv'
<1> USE DEF WaitPrevious, WaitSweep, TakeLocks, Mark, Goto, gate, sweep, locks
<1>0. /\ UNCHANGED <<force, depth, blk, active, blocking, stopped, asleep, sysMu>>
      /\ pc[t] \in Exclusive
  BY Zenon DEF Exclusive
<1>1. \/ UNCHANGED <<pc, saveMu, storeMu, sweeping, work>>
      \/ /\ ~sweeping /\ pc' = [pc EXCEPT ![t] = "lock"]
         /\ UNCHANGED <<saveMu, storeMu, sweeping, work>>
      \/ /\ pc[t] = "lock" /\ pc' = [pc EXCEPT ![t] = "mark"]
         /\ saveMu' = t /\ storeMu' = t /\ UNCHANGED <<sweeping, work>>
      \/ /\ pc[t] = "mark" /\ pc' = [pc EXCEPT ![t] = "reopen"]
         /\ saveMu' = None /\ storeMu' = None
         /\ sweeping' = TRUE /\ work' \in 0..MaxWork
  BY Zenon
<1>2. /\ pc' \in [Threads -> PCs]
      /\ pc'[t] \in Exclusive
      /\ \A c \in Threads : c # t => pc'[c] = pc[c]
  BY Zenon, <1>0, <1>1 DEF IInv, TypeOK, PCs, Exclusive
<1>3. OneStopper' /\ MarkExcludesMutators'
  <2>1. \A c \in Threads : /\ pc'[c] \in Stopping <=> pc[c] \in Stopping
                           /\ pc'[c] \in Exclusive <=> pc[c] \in Exclusive
    BY Zenon, <1>0, <1>2 DEF Stopping, Exclusive
  <2> QED
    BY Zenon, <1>0, <2>1 DEF IInv, OneStopper, MarkExcludesMutators, InScope
<1>4. LockOwners'
  <2>1. \A u \in Threads : ~InScope(u)
    BY Zenon, <1>0 DEF IInv, MarkExcludesMutators
  <2>2. \A u \in Threads : pc[u] = "mark" => u = t
    BY Zenon, <1>0 DEF IInv, OneStopper, Exclusive, Stopping
  <2> QED
    BY <1>0, <1>1, <1>2, <2>1, <2>2, WorldAssumption
       DEF IInv, TypeOK, LockOwners, InScope
<1>5. requested' \in BOOLEAN
  BY Zenon DEF IInv, TypeOK
<1>6. cvAsleep' \in SUBSET (Threads \cup {Sweeper})
  BY Zenon DEF IInv, TypeOK, CvSignal
<1>7. work' \in Nat
  <2>1. work' = work \/ work' \in 0..MaxWork
    BY Zenon, <1>1
  <2>2. work \in Nat /\ MaxWork \in Nat
    BY Zenon, WorldAssumption DEF IInv, TypeOK
  <2> QED
    BY <2>1, <2>2
<1>8. sweeping' \in BOOLEAN
  BY Zenon, <1>1 DEF IInv, TypeOK
<1>9. saveMu' \in Threads \cup {None} /\ storeMu' \in Threads \cup {None}
  BY Zenon, <1>1 DEF IInv, TypeOK
<1>10. TypeOK'
  BY Zenon, <1>0, <1>2, <1>5, <1>6, <1>7, <1>8, <1>9 DEF IInv, TypeOK
<1>11. Counts'
  BY Zenon, <1>0 DEF IInv, Counts, Scopes, BlockingScopes
<1>12. SweptBeforeMark'
  <2>1. \A c \in Threads \ {t} : pc'[c] \notin {"lock", "mark"}
    BY Zenon, <1>0, <1>2 DEF IInv, OneStopper, Exclusive, Stopping
  <2>2. ~sweeping' => work' = 0
    BY Zenon, <1>1 DEF IInv, SweptBeforeMark
  <2>3. pc'[t] \in {"lock", "mark"} => ~sweeping'
    BY Zenon, <1>1 DEF IInv, TypeOK, SweptBeforeMark
  <2> QED
    BY Zenon, <2>1, <2>2, <2>3 DEF SweptBeforeMark
<1> QED
  BY Zenon, <1>3, <1>4, <1>10, <1>11, <1>12 DEF IInv

-----------------------------------------------------------------------------
\* Every step of the handshake preserves the invariant.
LEMMA NextIInv == IInv /\ [Next]_vars => IInv'
<1> SUFFICES ASSUME IInv, [Next]_vars PROVE IInv'
  BY Zenon
<1>1. CASE UNCHANGED vars
  BY Zenon, <1>1 DEF IInv, TypeOK, Counts, Scopes, BlockingScopes, OneStopper,
              MarkExcludesMutators, LockOwners, SweptBeforeMark, InScope,
              vars, gate, sweep, locks
<1>2. ASSUME NEW t \in Threads, Mutator(t) PROVE IInv'
  BY Zenon, <1>2, LockSteps, QuietSteps, EnterStep, EnterNestedStep, LeaveStep,
     BlockingSteps DEF Mutator
<1>3. ASSUME NEW t \in Threads, Collector(t) PROVE IInv'
  BY Zenon, <1>3, QuietSteps, HandshakeSteps, ExclusiveSteps DEF Collector
<1>4. CASE SweeperStep \/ SpuriousWakeup
  BY Zenon, <1>4, SweepSteps
<1> QED
  BY Zenon, <1>1, <1>2, <1>3, <1>4 DEF Next

\* The inductive invariant holds in every reachable state.
THEOREM WorldInvariant == Spec => []IInv
  BY InitIInv, NextIInv, PTL DEF Spec

\* The counters, flags and owners of the handshake always have their types; in
\* particular active and blocking never go below zero (pl_store_mutator_leave).
THEOREM WorldTypeCorrect == Spec => []TypeOK
<1>1. IInv => TypeOK
  BY Zenon DEF IInv
<1> QED
  BY <1>1, WorldInvariant, PTL

\* No thread is inside a mutator scope from the moment a collector has seen the
\* scopes end until it reopens the gate (collect).
THEOREM WorldMarkExclusion == Spec => []MarkExcludesMutators
<1>1. IInv => MarkExcludesMutators
  BY Zenon DEF IInv
<1> QED
  BY <1>1, WorldInvariant, PTL

\* A collector finds save_mu and mu free when it reaches for them (collect).
THEOREM WorldLocksFree == Spec => []CollectorFindsLocksFree
<1>1. IInv => CollectorFindsLocksFree
  <2> SUFFICES ASSUME IInv, NEW c \in Threads, pc[c] = "lock"
               PROVE  saveMu = None /\ storeMu = None
    BY Zenon DEF CollectorFindsLocksFree
  <2>1. \A t \in Threads : ~InScope(t) /\ pc[t] # "mark"
    BY Zenon DEF IInv, MarkExcludesMutators, OneStopper, Exclusive, Stopping
  <2> QED
    BY Zenon, <2>1 DEF IInv, TypeOK, LockOwners
<1> QED
  BY <1>1, WorldInvariant, PTL

\* The sweep queue is refilled only after the previous cycle was swept (collect
\* overwrites g->work).
THEOREM WorldQueueRefill == Spec => QueueRefilledOnlyWhenSwept
<1>1. IInv /\ [Next]_vars => [work' > work => ~sweeping /\ work = 0]_vars
  <2> SUFFICES ASSUME IInv, Next, work' > work
               PROVE  ~sweeping /\ work = 0
    BY Zenon
  <2>1. PICK t \in Threads : Mark(t)
    <3>1. work \in Nat
      BY Zenon DEF IInv, TypeOK
    <3>2. \/ work' = work \/ work' \in 0..work \/ work' = work - 1
          \/ \E t \in Threads : Mark(t)
      BY Zenon DEF Next, Mutator, Collector, SweeperStep, SpuriousWakeup, Enter,
             EnterNested, Leave, Blocking, BeginIo, Serve, LockSave, LockStore,
             LockSys, UnlockSave, UnlockStore, UnlockSys, Alloc, Request,
             StartWait, HostWait, StartCollect, Check, Drain, WaitPrevious,
             WaitSweep, TakeLocks, Reopen, SweepOne, SweepEnd, SweepIdle, sweep
    <3> QED
      BY <3>1, <3>2
  <2> QED
    BY Zenon, <2>1 DEF IInv, SweptBeforeMark, Mark
<1> QED
  BY <1>1, WorldInvariant, PTL DEF Spec, QueueRefilledOnlyWhenSwept

-----------------------------------------------------------------------------
(***************************************************************************)
(* The handshake implements Gc2Gate: every step is a step of the gate or   *)
(* leaves the mapped variables alone.                                      *)
(***************************************************************************)

\* A step that leaves scopes, queue and store->mu alone, and moves no thread to
\* or from the point where the collector owns the locks, is a stuttering step.
LEMMA GateStutter ==
  ASSUME IInv, UNCHANGED <<depth, sweeping, work, storeMu>>,
         pc' \in [Threads -> PCs],
         \A t \in Threads : pc'[t] = "mark" <=> pc[t] = "mark"
  PROVE  UNCHANGED Gate!gateVars
<1>1. InsideScope' = InsideScope
  BY Zenon DEF InsideScope, InScope
<1>2. storeMu # None => storeMu \in Threads
  BY Zenon DEF IInv, TypeOK
<1>3. MutatorOwner' = MutatorOwner
  BY Zenon, <1>2 DEF MutatorOwner
<1> QED
  BY Zenon, <1>1, <1>3 DEF Gate!gateVars

\* The steps of a mutator (pl_store_mutator_enter, pl_store_mutator_leave, the
\* mutexes and pl_gc2_alloc).
LEMMA MutatorMapsToGate ==
  ASSUME IInv, NEW t \in Threads, Mutator(t)
  PROVE  Gate!Next \/ UNCHANGED Gate!gateVars
<1>0. /\ pc \in [Threads -> PCs] /\ depth \in [Threads -> 0..MaxDepth]
      /\ MaxDepth \in Nat
  BY Zenon, WorldAssumption DEF IInv, TypeOK
<1>1. storeMu = t /\ pc[t] = "run" => MutatorOwner = t
  BY Zenon DEF MutatorOwner
<1>2. CASE Enter(t)
  <2>1. CASE stopped
    BY Zenon, <1>0, <1>2, <2>1, GateStutter DEF Enter, Goto, sweep, locks, PCs
  <2>2. CASE ~stopped
    <3>1. InsideScope' = InsideScope \cup {t} /\ t \notin InsideScope
      BY <1>0, <1>2, <2>2 DEF Enter, InsideScope, InScope
    <3>2. MutatorOwner' = MutatorOwner
      BY Zenon, <1>0, <1>2, <2>2, IInv DEF Enter, Goto, MutatorOwner, locks, IInv, TypeOK
    <3>3. Gate!Enter(t)
      BY Zenon, <1>2, <3>1, <3>2 DEF Enter, Gate!Enter, sweep
    <3> QED
      BY Zenon, <3>3 DEF Gate!Next
  <2> QED
    BY Zenon, <2>1, <2>2
<1>3. CASE Leave(t)
  <2>1. CASE depth[t] > 1
    <3>1. InsideScope' = InsideScope
      BY <1>0, <1>3, <2>1 DEF Leave, InsideScope, InScope
    <3>2. MutatorOwner' = MutatorOwner
      BY Zenon, <1>3 DEF Leave, MutatorOwner, locks
    <3> QED
      BY Zenon, <1>3, <3>1, <3>2 DEF Leave, sweep, Gate!gateVars
  <2>2. CASE depth[t] = 1
    <3>1. InsideScope' = InsideScope \ {t} /\ t \in InsideScope
      BY <1>0, <1>3, <2>2 DEF Leave, InsideScope, InScope
    <3>2. MutatorOwner' = MutatorOwner /\ MutatorOwner # t
      BY Zenon, <1>3, WorldAssumption DEF Leave, MutatorOwner, locks, HoldsNone
    <3>3. Gate!Leave(t)
      BY Zenon, <1>3, <3>1, <3>2 DEF Leave, Gate!Leave, sweep
    <3> QED
      BY Zenon, <3>3 DEF Gate!Next
  <2> QED
    BY Zenon, <1>0, <1>3, <2>1, <2>2 DEF Leave, InScope
<1>4. CASE LockStore(t)
  <2>1. InsideScope' = InsideScope /\ t \in InsideScope
    BY Zenon, <1>4 DEF LockStore, InsideScope, InScope, gate
  <2>2. MutatorOwner = None /\ MutatorOwner' = t
    BY Zenon, <1>4, WorldAssumption DEF LockStore, MutatorOwner
  <2>3. Gate!Lock(t)
    BY Zenon, <1>4, <2>1, <2>2 DEF LockStore, Gate!Lock, sweep
  <2> QED
    BY Zenon, <2>3 DEF Gate!Next
<1>5. CASE UnlockStore(t)
  <2>1. InsideScope' = InsideScope
    BY Zenon, <1>5 DEF UnlockStore, InsideScope, InScope, gate
  <2>2. MutatorOwner = t /\ MutatorOwner' = None
    BY Zenon, <1>1, <1>5 DEF UnlockStore, MutatorOwner
  <2>3. Gate!Unlock(t)
    BY Zenon, <1>5, <2>1, <2>2 DEF UnlockStore, Gate!Unlock, sweep
  <2> QED
    BY Zenon, <2>3 DEF Gate!Next
<1>6. CASE Alloc(t)
  <2>1. InsideScope' = InsideScope /\ t \in InsideScope
    BY Zenon, <1>6 DEF Alloc, InsideScope, InScope, gate
  <2>2. MutatorOwner = t /\ MutatorOwner' = MutatorOwner
    BY Zenon, <1>1, <1>6 DEF Alloc, MutatorOwner, locks
  <2>3. Gate!Alloc(t)
    BY Zenon, <1>6, <2>1, <2>2 DEF Alloc, Gate!Alloc
  <2> QED
    BY Zenon, <2>3 DEF Gate!Next
<1>7. CASE EnterNested(t)
  <2>1. InsideScope' = InsideScope
    BY <1>0, <1>7 DEF EnterNested, InsideScope, InScope
  <2>2. MutatorOwner' = MutatorOwner
    BY Zenon, <1>7 DEF EnterNested, MutatorOwner, locks
  <2> QED
    BY Zenon, <1>7, <2>1, <2>2 DEF EnterNested, sweep, Gate!gateVars
<1>8. CASE \/ Blocking(t) \/ BeginIo(t) \/ (\E u \in Threads : Serve(u, t))
           \/ LockSave(t) \/ LockSys(t) \/ UnlockSave(t) \/ UnlockSys(t)
           \/ Request(t) \/ StartWait(t) \/ HostWait(t)
  <2>1. UNCHANGED <<depth, sweeping, work, storeMu>>
    BY Zenon, <1>8 DEF Blocking, BeginIo, DeclareBlocking, Serve, LockSave, LockSys,
                UnlockSave, UnlockSys, Request, StartWait, HostWait, WaitSweep,
                gate, sweep, locks
  <2>2. \/ pc' = pc
        \/ pc[t] # "mark" /\ \E x \in PCs \ {"mark"} : Goto(t, x)
    BY Zenon, <1>8 DEF Blocking, BeginIo, Serve, LockSave, LockSys, UnlockSave,
                UnlockSys, Request, StartWait, HostWait, WaitSweep, PCs
  <2>3. /\ pc' \in [Threads -> PCs]
        /\ \A u \in Threads : pc'[u] = "mark" <=> pc[u] = "mark"
    BY Zenon, <1>0, <2>2 DEF Goto
  <2> QED
    BY Zenon, <2>1, <2>3, GateStutter
<1> QED
  BY Zenon, <1>2, <1>3, <1>4, <1>5, <1>6, <1>7, <1>8 DEF Mutator

\* The steps of a collector: the mark is the only one the gate sees (collect).
LEMMA CollectorMapsToGate ==
  ASSUME IInv, NEW t \in Threads, Collector(t)
  PROVE  Gate!Next \/ UNCHANGED Gate!gateVars
<1>0. pc \in [Threads -> PCs]
  BY Zenon DEF IInv, TypeOK
<1>1. CASE Mark(t)
  <2>1. InsideScope = {} /\ InsideScope' = {}
    BY Zenon, <1>1 DEF Mark, IInv, MarkExcludesMutators, Exclusive, InsideScope,
                InScope, gate
  <2>2. storeMu # None => pc[storeMu] = "mark"
    BY Zenon, <2>1 DEF IInv, TypeOK, LockOwners, InsideScope
  <2>3. MutatorOwner = None /\ MutatorOwner' = None
    BY Zenon, <1>1, <2>2 DEF Mark, MutatorOwner
  <2>4. ~sweeping
    BY Zenon, <1>1 DEF Mark, IInv, SweptBeforeMark
  <2>5. Gate!Collect
    BY Zenon, <1>1, <2>1, <2>3, <2>4 DEF Mark, Gate!Collect
  <2> QED
    BY Zenon, <2>5 DEF Gate!Next
<1>2. CASE TakeLocks(t)
  <2>1. InsideScope' = InsideScope
    BY Zenon, <1>2 DEF TakeLocks, InsideScope, InScope, gate
  <2>2. MutatorOwner = None /\ MutatorOwner' = None
    BY Zenon, <1>0, <1>2 DEF TakeLocks, MutatorOwner, Goto
  <2> QED
    BY Zenon, <1>2, <2>1, <2>2 DEF TakeLocks, sweep, Gate!gateVars
<1>3. CASE \/ (\E f \in BOOLEAN : StartCollect(t, f))
           \/ Check(t) \/ Drain(t) \/ WaitPrevious(t) \/ Reopen(t)
  <2>1. UNCHANGED <<depth, sweeping, work, storeMu>>
    BY Zenon, <1>3 DEF StartCollect, Check, Drain, WaitPrevious, WaitSweep, Reopen,
                gate, sweep, locks
  <2>2. \/ pc' = pc
        \/ pc[t] # "mark" /\ \E x \in PCs \ {"mark"} : Goto(t, x)
    BY Zenon, <1>3 DEF StartCollect, Check, Close, Drain, Reopened, WaitPrevious,
                WaitSweep, Reopen, PCs
  <2>3. /\ pc' \in [Threads -> PCs]
        /\ \A u \in Threads : pc'[u] = "mark" <=> pc[u] = "mark"
    BY Zenon, <1>0, <2>2 DEF Goto
  <2> QED
    BY Zenon, <2>1, <2>3, GateStutter
<1> QED
  BY Zenon, <1>1, <1>2, <1>3 DEF Collector

\* Gc2World implements Gc2Gate, for any number of threads, nesting depth and
\* queue length: a mark is one step that no mutator scope overlaps, with the
\* mutex free and the previous sweep over (collect, pl_store_mutator_enter).
THEOREM WorldImplementsGate == Spec => ImplementsGate
<1>1. Init => Gate!Init
  BY DEF Init, Gate!Init, InsideScope, InScope, MutatorOwner
<1>2. IInv /\ [Next]_vars => [Gate!Next]_(Gate!gateVars)
  <2> SUFFICES ASSUME IInv, [Next]_vars
               PROVE  Gate!Next \/ UNCHANGED Gate!gateVars
    BY Zenon
  <2>1. CASE UNCHANGED vars
    BY Zenon, <2>1 DEF vars, gate, sweep, locks, Gate!gateVars, InsideScope, InScope,
                MutatorOwner
  <2>2. CASE SweeperStep \/ SpuriousWakeup
    <3>1. UNCHANGED <<pc, depth, storeMu>>
      BY Zenon, <2>2 DEF SweeperStep, SweepOne, SweepEnd, SweepIdle, SpuriousWakeup,
                  gate, locks
    <3>2. InsideScope' = InsideScope /\ MutatorOwner' = MutatorOwner
      BY Zenon, <3>1 DEF InsideScope, InScope, MutatorOwner
    <3>3. Gate!SweepOne \/ Gate!SweepEnd \/ UNCHANGED <<sweeping, work>>
      BY Zenon, <2>2, <3>2 DEF SweeperStep, SweepOne, SweepEnd, SweepIdle,
             SpuriousWakeup, sweep, Gate!SweepOne, Gate!SweepEnd
    <3> QED
      BY Zenon, <3>2, <3>3 DEF Gate!Next, Gate!gateVars
  <2> QED
    BY Zenon, <2>1, <2>2, MutatorMapsToGate, CollectorMapsToGate DEF Next
<1> QED
  BY <1>1, <1>2, WorldInvariant, PTL DEF Spec, ImplementsGate, Gate!Spec

=============================================================================
