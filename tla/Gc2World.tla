------------------------------ MODULE Gc2World ------------------------------
(***************************************************************************)
(* The stop-the-world handshake of the shared heap (GC2).                  *)
(*                                                                         *)
(* Threads enter and leave mutator scopes; a collector closes the gate,    *)
(* waits for every scope to end, marks, and reopens the gate while a       *)
(* background sweeper frees the queued spans.  A scope that is about to    *)
(* block in the host declares it, and a collector that is already waiting  *)
(* then reopens the gate, because the blocked thread may need another one. *)
(*                                                                         *)
(* One action is one critical section of world_mu or of gc2's own mu.  The *)
(* wait set of each condition variable is explicit: a thread that waits    *)
(* moves again only after a broadcast, a signal or a spurious wakeup.      *)
(* The queued spans are a number here; Gc2Heap has the spans themselves.   *)
(***************************************************************************)
EXTENDS Integers, FiniteSets

CONSTANTS
  Threads,      \* the OS threads of the process that use the store
  IoThreads,    \* those that run host effects which need another thread
  HostThreads,  \* those that call pl_store_gc_collect and pl_store_gc_wait
  SaveThreads,  \* those that allocate in the store or persist
  SysThreads,   \* those that take the scheduler's mutex
  NestThreads,  \* those that nest scopes
  Spurious,     \* those whose waits may return for no reason
  MaxDepth,     \* bound: how deep scopes are nested
  MaxWork,      \* bound: how many spans one collection queues
  Sweeper,      \* the sweeper thread
  None

ASSUME WorldAssumption ==
  /\ IsFiniteSet(Threads)
  /\ IoThreads \subseteq Threads
  /\ HostThreads \subseteq Threads
  /\ SaveThreads \subseteq Threads
  /\ SysThreads \subseteq Threads
  /\ NestThreads \subseteq Threads
  /\ MaxDepth \in Nat \ {0}
  /\ MaxWork \in Nat
  /\ Sweeper \notin Threads
  /\ None \notin Threads

VARIABLES
  pc,         \* where each thread is in the functions of gc2.c
  depth,      \* scope depth of each thread; 0 is "no scope"
  blk,        \* the thread's scope has declared itself blocking
  force,      \* the argument of collect()
  asleep,     \* threads waiting on world_cv
  active,     \* g->active
  blocking,   \* g->blocking
  stopped,    \* g->stopped: the gate is closed
  requested,  \* g->requested
  sweeping,   \* g->sweeping
  work,       \* g->work_n
  cvAsleep,   \* threads (the sweeper included) waiting on g->cv
  saveMu,     \* owner of store->save_mu
  storeMu,    \* owner of store->mu
  sysMu       \* owner of the scheduler's mutex, taken by its root callback

gate == <<depth, blk, active, blocking, stopped, asleep>>
sweep == <<sweeping, work, cvAsleep>>
locks == <<saveMu, storeMu, sysMu>>
vars == <<pc, force, requested, gate, sweep, locks>>

PCs == {"run", "enter", "check", "drain", "gcwait", "lock", "mark", "reopen",
        "io", "wait"}

\* The collector has stopped the world and not yet reopened it.
Stopping == {"drain", "gcwait", "lock", "mark", "reopen"}

\* The collector has seen every scope end.
Exclusive == {"gcwait", "lock", "mark", "reopen"}

TypeOK ==
  /\ pc \in [Threads -> PCs]
  /\ depth \in [Threads -> 0..MaxDepth]
  /\ blk \in [Threads -> BOOLEAN]
  /\ force \in [Threads -> BOOLEAN]
  /\ asleep \in SUBSET Threads
  /\ active \in Nat
  /\ blocking \in Nat
  /\ stopped \in BOOLEAN
  /\ requested \in BOOLEAN
  /\ sweeping \in BOOLEAN
  /\ work \in Nat
  /\ cvAsleep \in SUBSET (Threads \cup {Sweeper})
  /\ saveMu \in Threads \cup {None}
  /\ storeMu \in Threads \cup {None}
  /\ sysMu \in Threads \cup {None}

Init ==
  /\ pc = [t \in Threads |-> "run"]
  /\ depth = [t \in Threads |-> 0]
  /\ blk = [t \in Threads |-> FALSE]
  /\ force = [t \in Threads |-> FALSE]
  /\ asleep = {}
  /\ active = 0
  /\ blocking = 0
  /\ stopped = FALSE
  /\ requested = FALSE
  /\ sweeping = FALSE
  /\ work = 0
  /\ cvAsleep = {Sweeper}
  /\ saveMu = None
  /\ storeMu = None
  /\ sysMu = None

Goto(t, where) == pc' = [pc EXCEPT ![t] = where]

\* pthread_cond_wait on world_cv, and its broadcast.
Sleep(t) == asleep' = asleep \cup {t}
Broadcast == asleep' = {}

InScope(t) == depth[t] > 0
HoldsNone(t) == saveMu # t /\ storeMu # t /\ sysMu # t

-----------------------------------------------------------------------------
(***************************************************************************)
(* Mutator scopes.                                                         *)
(***************************************************************************)

\* Every caller of the gate has released the scheduler's mutex first.
GateCaller(t) == HoldsNone(t)

\* Bug: a thread that has waited for the gate does not look at it again.
EnterAfterOneWait(t) ==
  /\ \/ pc[t] = "run" /\ GateCaller(t)
     \/ pc[t] = "enter" /\ t \notin asleep
  /\ ~InScope(t)
  /\ \/ /\ stopped /\ pc[t] = "run"
        /\ Goto(t, "enter")
        /\ Sleep(t)
        /\ UNCHANGED <<depth, active>>
     \/ /\ ~stopped \/ pc[t] = "enter"
        /\ Goto(t, "run")
        /\ depth' = [depth EXCEPT ![t] = 1]
        /\ active' = active + 1
        /\ UNCHANGED asleep
  /\ UNCHANGED <<force, requested, blk, blocking, stopped, sweep, locks>>

\* pl_store_mutator_enter by a thread with no scope.  A thread that finds the
\* gate closed waits and looks again.
Enter(t) ==
  /\ \/ pc[t] = "run" /\ GateCaller(t)
     \/ pc[t] = "enter" /\ t \notin asleep
  /\ ~InScope(t)
  /\ \/ /\ stopped
        /\ Goto(t, "enter")
        /\ Sleep(t)
        /\ UNCHANGED <<depth, active>>
     \/ /\ ~stopped
        /\ Goto(t, "run")
        /\ depth' = [depth EXCEPT ![t] = 1]
        /\ active' = active + 1
        /\ UNCHANGED asleep
  /\ UNCHANGED <<force, requested, blk, blocking, stopped, sweep, locks>>

\* A nested pl_store_mutator_enter never meets the gate.
EnterNested(t) ==
  /\ t \in NestThreads
  /\ pc[t] = "run"
  /\ depth[t] \in 1..MaxDepth - 1
  /\ depth' = [depth EXCEPT ![t] = @ + 1]
  /\ UNCHANGED <<pc, force, requested, blk, active, blocking, stopped, asleep,
                 sweep, locks>>

\* Bug: every scope counts as a blocking one when it ends.
LeaveAsBlocking(t) ==
  /\ pc[t] = "run"
  /\ InScope(t)
  /\ HoldsNone(t)
  /\ depth' = [depth EXCEPT ![t] = @ - 1]
  /\ \/ /\ depth[t] > 1
        /\ UNCHANGED <<blk, active, blocking, asleep>>
     \/ /\ depth[t] = 1
        /\ active' = active - 1
        /\ blocking' = blocking - 1
        /\ blk' = [blk EXCEPT ![t] = FALSE]
        /\ Broadcast
  /\ UNCHANGED <<pc, force, requested, stopped, sweep, locks>>

\* Bug: a scope ends while its thread still owns a lock.
LeaveHolding(t) ==
  /\ pc[t] = "run"
  /\ InScope(t)
  /\ depth' = [depth EXCEPT ![t] = @ - 1]
  /\ \/ /\ depth[t] > 1
        /\ UNCHANGED <<blk, active, blocking, asleep>>
     \/ /\ depth[t] = 1
        /\ active' = active - 1
        /\ blocking' = IF blk[t] THEN blocking - 1 ELSE blocking
        /\ blk' = [blk EXCEPT ![t] = FALSE]
        /\ Broadcast
  /\ UNCHANGED <<pc, force, requested, stopped, sweep, locks>>

\* pl_store_mutator_leave: the outermost one gives the scope back.
Leave(t) ==
  /\ pc[t] = "run"
  /\ InScope(t)
  /\ HoldsNone(t)
  /\ depth' = [depth EXCEPT ![t] = @ - 1]
  /\ \/ /\ depth[t] > 1
        /\ UNCHANGED <<blk, active, blocking, asleep>>
     \/ /\ depth[t] = 1
        /\ active' = active - 1
        /\ blocking' = IF blk[t] THEN blocking - 1 ELSE blocking
        /\ blk' = [blk EXCEPT ![t] = FALSE]
        /\ Broadcast
  /\ UNCHANGED <<pc, force, requested, stopped, sweep, locks>>

\* Bug: the waiting collector is not woken.
DeclareQuietly(t) ==
  \/ /\ blk[t]
     /\ UNCHANGED gate
  \/ /\ ~blk[t]
     /\ blk' = [blk EXCEPT ![t] = TRUE]
     /\ blocking' = blocking + 1
     /\ UNCHANGED <<depth, active, stopped, asleep>>

\* The body of pl_store_mutator_blocking: once per scope, and it wakes a
\* collector that waits for the scopes to end.
DeclareBlocking(t) ==
  \/ /\ blk[t]
     /\ UNCHANGED gate
  \/ /\ ~blk[t]
     /\ blk' = [blk EXCEPT ![t] = TRUE]
     /\ blocking' = blocking + 1
     /\ Broadcast
     /\ UNCHANGED <<depth, active, stopped>>

\* A service that may block in the store: er_service_unlock declares it, with
\* the scheduler's mutex still held, and goes on.
Blocking(t) ==
  /\ pc[t] = "run"
  /\ InScope(t)
  /\ DeclareBlocking(t)
  /\ UNCHANGED <<pc, force, requested, sweep, locks>>

\* er_actor_rplan_effect: a host effect that cannot finish before another
\* thread has run.
BeginIo(t) ==
  /\ t \in IoThreads
  /\ pc[t] = "run"
  /\ InScope(t)
  /\ HoldsNone(t)
  /\ Goto(t, "io")
  /\ DeclareBlocking(t)
  /\ UNCHANGED <<force, requested, sweep, locks>>

\* Another thread, inside a scope of its own, does what the effect of t needs.
Serve(u, t) ==
  /\ pc[t] = "io"
  /\ u # t
  /\ pc[u] = "run"
  /\ InScope(u)
  /\ Goto(t, "run")
  /\ UNCHANGED <<force, requested, gate, sweep, locks>>

-----------------------------------------------------------------------------
(***************************************************************************)
(* The locks a collector takes, as the other threads use them.             *)
(***************************************************************************)

\* Bug: save_mu is taken outside every scope.
LockSaveAnywhere(t) ==
  /\ t \in SaveThreads
  /\ pc[t] = "run"
  /\ HoldsNone(t)
  /\ saveMu = None
  /\ saveMu' = t
  /\ UNCHANGED <<pc, force, requested, gate, sweep, storeMu, sysMu>>

\* Persistence operations take save_mu, and mu inside it.
LockSave(t) ==
  /\ t \in SaveThreads
  /\ pc[t] = "run"
  /\ InScope(t)
  /\ HoldsNone(t)
  /\ saveMu = None
  /\ saveMu' = t
  /\ UNCHANGED <<pc, force, requested, gate, sweep, storeMu, sysMu>>

LockStore(t) ==
  /\ t \in SaveThreads
  /\ pc[t] = "run"
  /\ InScope(t)
  /\ sysMu # t
  /\ storeMu = None
  /\ storeMu' = t
  /\ UNCHANGED <<pc, force, requested, gate, sweep, saveMu, sysMu>>

\* An executor takes the scheduler's mutex with and without a scope.
LockSys(t) ==
  /\ t \in SysThreads
  /\ pc[t] = "run"
  /\ HoldsNone(t)
  /\ sysMu = None
  /\ sysMu' = t
  /\ UNCHANGED <<pc, force, requested, gate, sweep, saveMu, storeMu>>

UnlockSys(t) ==
  /\ pc[t] = "run"
  /\ sysMu = t
  /\ sysMu' = None
  /\ UNCHANGED <<pc, force, requested, gate, sweep, saveMu, storeMu>>

UnlockStore(t) ==
  /\ pc[t] = "run"
  /\ storeMu = t
  /\ storeMu' = None
  /\ UNCHANGED <<pc, force, requested, gate, sweep, saveMu, sysMu>>

UnlockSave(t) ==
  /\ pc[t] = "run"
  /\ storeMu # t
  /\ saveMu = t
  /\ saveMu' = None
  /\ UNCHANGED <<pc, force, requested, gate, sweep, storeMu, sysMu>>

\* pl_gc2_alloc under mu: it may sweep queued spans first, and it requests a
\* collection when the budget is spent.
Alloc(t) ==
  /\ pc[t] = "run"
  /\ InScope(t)
  /\ storeMu = t
  /\ work' \in 0..work
  /\ requested' \in {requested, TRUE}
  /\ UNCHANGED <<pc, force, gate, sweeping, cvAsleep, locks>>

\* pl_store_gc_request, and pl_store_gc_set_threshold when the new budget is
\* already spent.
Request(t) ==
  /\ pc[t] = "run"
  /\ requested' = TRUE
  /\ UNCHANGED <<pc, force, gate, sweep, locks>>

-----------------------------------------------------------------------------
(***************************************************************************)
(* The sweeper thread and pl_store_gc_wait.                                *)
(***************************************************************************)

CvSignal ==
  IF cvAsleep = {} THEN UNCHANGED cvAsleep
  ELSE \E x \in cvAsleep : cvAsleep' = cvAsleep \ {x}

\* One queued span per hold of the mutex.
SweepOne ==
  /\ Sweeper \notin cvAsleep
  /\ sweeping
  /\ work > 0
  /\ work' = work - 1
  /\ UNCHANGED <<pc, force, requested, gate, sweeping, cvAsleep, locks>>

\* The queue is empty: clear the flag, broadcast, and wait for the next cycle.
SweepEnd ==
  /\ Sweeper \notin cvAsleep
  /\ sweeping
  /\ work = 0
  /\ sweeping' = FALSE
  /\ cvAsleep' = {Sweeper}
  /\ UNCHANGED <<pc, force, requested, gate, work, locks>>

\* A wakeup that finds nothing to sweep.
SweepIdle ==
  /\ Sweeper \notin cvAsleep
  /\ ~sweeping
  /\ cvAsleep' = cvAsleep \cup {Sweeper}
  /\ UNCHANGED <<pc, force, requested, gate, sweeping, work, locks>>

\* pl_store_gc_wait, for a thread at "from" that goes on to "to".
WaitSweep(t, from, to) ==
  /\ pc[t] = from
  /\ t \notin cvAsleep
  /\ \/ /\ sweeping
        /\ cvAsleep' = cvAsleep \cup {t}
        /\ UNCHANGED pc
     \/ /\ ~sweeping
        /\ Goto(t, to)
        /\ UNCHANGED cvAsleep
  /\ UNCHANGED <<force, requested, gate, sweeping, work, locks>>

\* A host thread calls pl_store_gc_wait.
StartWait(t) ==
  /\ t \in HostThreads
  /\ pc[t] = "run"
  /\ ~InScope(t)
  /\ HoldsNone(t)
  /\ Goto(t, "wait")
  /\ UNCHANGED <<force, requested, gate, sweep, locks>>

HostWait(t) == WaitSweep(t, "wait", "run")

-----------------------------------------------------------------------------
(***************************************************************************)
(* collect().                                                              *)
(***************************************************************************)

\* pl_store_gc_poll and pl_store_gc_collect.  A poll reads the flag first; both
\* are called outside every scope and lock.
StartCollect(t, f) ==
  /\ pc[t] = "run"
  /\ ~InScope(t)
  /\ GateCaller(t)
  /\ IF f THEN t \in HostThreads ELSE requested
  /\ Goto(t, "check")
  /\ force' = [force EXCEPT ![t] = f]
  /\ UNCHANGED <<requested, gate, sweep, locks>>

\* Close the gate; wait unless every scope has already ended.
Close(t) ==
  /\ stopped' = TRUE
  /\ \/ /\ active > 0
        /\ Goto(t, "drain")
        /\ Sleep(t)
     \/ /\ active = 0
        /\ Goto(t, "gcwait")
        /\ UNCHANGED asleep

\* From the label retry: wait for another collector, give up a poll that is no
\* longer wanted or that meets a blocking scope, make a forced collection wait
\* for the blocking scopes to end, or close the gate.
Check(t) ==
  /\ pc[t] = "check"
  /\ t \notin asleep
  /\ \/ /\ stopped \/ (force[t] /\ blocking > 0)
        /\ Sleep(t)
        /\ UNCHANGED <<pc, stopped>>
     \/ /\ ~stopped
        /\ ~force[t] /\ (~requested \/ blocking > 0)
        /\ Goto(t, "run")
        /\ UNCHANGED <<asleep, stopped>>
     \/ /\ ~stopped
        /\ (force[t] \/ requested) /\ blocking = 0
        /\ Close(t)
  /\ UNCHANGED <<force, requested, depth, blk, active, blocking, sweep, locks>>

\* A scope blocks while the collector drains: reopen the gate and broadcast.
\* A poll gives up; a forced collection goes back to retry, where it waits.
Reopened(t) ==
  /\ stopped' = FALSE
  /\ \/ ~force[t] /\ Goto(t, "run") /\ Broadcast
     \/ force[t] /\ Goto(t, "check") /\ asleep' = {t}

\* Bug: the collector waits for blocking scopes too.
DrainBlocking(t) ==
  /\ pc[t] = "drain"
  /\ t \notin asleep
  /\ \/ /\ active > 0
        /\ Sleep(t)
        /\ UNCHANGED <<pc, stopped>>
     \/ /\ active = 0
        /\ Goto(t, "gcwait")
        /\ UNCHANGED <<asleep, stopped>>
  /\ UNCHANGED <<force, requested, depth, blk, active, blocking, sweep, locks>>

Drain(t) ==
  /\ pc[t] = "drain"
  /\ t \notin asleep
  /\ \/ /\ blocking > 0
        /\ Reopened(t)
     \/ /\ blocking = 0 /\ active > 0
        /\ Sleep(t)
        /\ UNCHANGED <<pc, stopped>>
     \/ /\ blocking = 0 /\ active = 0
        /\ Goto(t, "gcwait")
        /\ UNCHANGED <<asleep, stopped>>
  /\ UNCHANGED <<force, requested, depth, blk, active, blocking, sweep, locks>>

\* Bug: the collector does not wait for the sweeper.
SkipPrevious(t) ==
  /\ pc[t] = "gcwait"
  /\ Goto(t, "lock")
  /\ UNCHANGED <<force, requested, gate, sweep, locks>>

\* The previous sweep must be over before marking.
WaitPrevious(t) == WaitSweep(t, "gcwait", "lock")

\* save_mu, then mu: the store's lock order.
TakeLocks(t) ==
  /\ pc[t] = "lock"
  /\ saveMu = None /\ storeMu = None
  /\ saveMu' = t
  /\ storeMu' = t
  /\ Goto(t, "mark")
  /\ UNCHANGED <<force, requested, gate, sweep, sysMu>>

\* mark_world, the sweep queue, and the release of the locks.  The scheduler's
\* root callback takes its mutex, so it must be free at that moment.
Mark(t) ==
  /\ pc[t] = "mark"
  /\ sysMu = None
  /\ work' \in 0..MaxWork
  /\ sweeping' = TRUE
  /\ CvSignal
  /\ requested' = FALSE
  /\ saveMu' = None
  /\ storeMu' = None
  /\ Goto(t, "reopen")
  /\ UNCHANGED <<force, gate, sysMu>>

Reopen(t) ==
  /\ pc[t] = "reopen"
  /\ stopped' = FALSE
  /\ Broadcast
  /\ Goto(t, "run")
  /\ UNCHANGED <<force, requested, depth, blk, active, blocking, sweep, locks>>

-----------------------------------------------------------------------------
\* POSIX allows a wait to return for no reason.
SpuriousWakeup ==
  \/ /\ \E t \in asleep \cap Spurious : asleep' = asleep \ {t}
     /\ UNCHANGED <<pc, force, requested, depth, blk, active, blocking, stopped,
                    sweep, locks>>
  \/ /\ \E x \in cvAsleep \cap Spurious : cvAsleep' = cvAsleep \ {x}
     /\ UNCHANGED <<pc, force, requested, gate, sweeping, work, locks>>

Mutator(t) ==
  \/ Enter(t) \/ EnterNested(t) \/ Leave(t) \/ Blocking(t)
  \/ BeginIo(t) \/ (\E u \in Threads : Serve(u, t))
  \/ LockSave(t) \/ LockStore(t) \/ LockSys(t)
  \/ UnlockSave(t) \/ UnlockStore(t) \/ UnlockSys(t)
  \/ Alloc(t) \/ Request(t) \/ StartWait(t) \/ HostWait(t)

Collector(t) ==
  \/ (\E f \in BOOLEAN : StartCollect(t, f))
  \/ Check(t) \/ Drain(t) \/ WaitPrevious(t)
  \/ TakeLocks(t) \/ Mark(t) \/ Reopen(t)

SweeperStep == SweepOne \/ SweepEnd \/ SweepIdle

Next ==
  \/ \E t \in Threads : Mutator(t) \/ Collector(t)
  \/ SweeperStep
  \/ SpuriousWakeup

Spec == Init /\ [][Next]_vars

(***************************************************************************)
(* Fairness.  A thread inside a gate function keeps running.  A slice has  *)
(* a fuel quantum, so every scope ends and every lock is released; a       *)
(* mutex does not starve a waiter.  A thread that an effect depends on     *)
(* runs when it can.  Entering a scope, taking a lock, polling, collecting *)
(* and spurious wakeups are never obliged to happen.                       *)
(***************************************************************************)
Going(t) ==
  \/ pc[t] = "enter" /\ Enter(t)
  \/ Check(t) \/ Drain(t) \/ WaitPrevious(t) \/ TakeLocks(t) \/ Reopen(t)
  \/ HostWait(t) \/ UnlockSys(t) \/ UnlockStore(t)
  \/ depth[t] > 1 /\ Leave(t)

Fairness ==
  /\ WF_vars(SweeperStep)
  /\ \A t \in Threads :
       /\ WF_vars(Going(t))
       /\ SF_vars(Mark(t))
       /\ SF_vars(depth[t] = 1 /\ Leave(t))
  /\ \A t \in SaveThreads : SF_vars(UnlockSave(t))
  /\ \A t \in Threads \ (IoThreads \cup HostThreads) :
       /\ SF_vars((\E u \in IoThreads : pc[u] = "io") /\ Enter(t))
       /\ SF_vars(\E u \in IoThreads : Serve(t, u))

FairSpec == Spec /\ Fairness

-----------------------------------------------------------------------------
(***************************************************************************)
(* Properties.                                                             *)
(***************************************************************************)

\* Once a collector has seen every scope end, no thread is inside a mutator
\* scope until it has marked and reopened the gate (collect).
MarkExcludesMutators ==
  \A c \in Threads : pc[c] \in Exclusive => \A t \in Threads : ~InScope(t)

\* When the collector reaches for save_mu and mu nobody owns them, so it never
\* waits for them with the world stopped (the comment in collect).
CollectorFindsLocksFree ==
  \A c \in Threads : pc[c] = "lock" => saveMu = None /\ storeMu = None

\* The sweep queue is refilled only when the previous cycle's queue is empty
\* and the sweeper has said so: collect overwrites g->work.
QueueRefilledOnlyWhenSwept ==
  [][work' > work => ~sweeping /\ work = 0]_vars

\* The handshake gives the heap what Gc2Gate promises: a mark is one step that
\* no mutator scope overlaps, with the mutex free and the last sweep over.
InsideScope == {t \in Threads : InScope(t)}
MutatorOwner ==
  IF storeMu # None /\ pc[storeMu] = "mark" THEN None ELSE storeMu
Gate == INSTANCE Gc2Gate WITH inside <- InsideScope, owner <- MutatorOwner
ImplementsGate == Gate!Spec

\* A closed gate opens again, whatever the threads do inside their scopes.
GateReopens == stopped ~> ~stopped

\* A host effect that needs another thread to make progress finishes: no
\* collector keeps that thread out of its scope for ever.
EffectsFinish == \A t \in IoThreads : pc[t] = "io" ~> pc[t] = "run"

=============================================================================
