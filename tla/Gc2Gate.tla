------------------------------- MODULE Gc2Gate -------------------------------
(***************************************************************************)
(* What the stop-the-world handshake promises to the shared heap.          *)
(*                                                                         *)
(* A collection is one step: it happens when no thread is in a mutator     *)
(* scope, nobody owns the store's mutex and the last sweep is over.        *)
(* Gc2World is the handshake that implements this; Gc2Heap builds the heap *)
(* on top of it.                                                           *)
(***************************************************************************)
EXTENDS Integers

CONSTANTS
  Threads,   \* threads that use the store
  MaxWork,   \* bound: how many spans one collection queues
  None

VARIABLES
  inside,    \* threads in a mutator scope
  owner,     \* owner of store->mu, None if it is free
  sweeping,  \* g->sweeping
  work       \* g->work_n

gateVars == <<inside, owner, sweeping, work>>

Init ==
  /\ inside = {}
  /\ owner = None
  /\ sweeping = FALSE
  /\ work = 0

\* The outermost pl_store_mutator_enter and pl_store_mutator_leave.
Enter(t) ==
  /\ t \notin inside
  /\ inside' = inside \cup {t}
  /\ UNCHANGED <<owner, sweeping, work>>

Leave(t) ==
  /\ t \in inside
  /\ owner # t
  /\ inside' = inside \ {t}
  /\ UNCHANGED <<owner, sweeping, work>>

\* store->mu is taken inside a scope only.
Lock(t) ==
  /\ t \in inside
  /\ owner = None
  /\ owner' = t
  /\ UNCHANGED <<inside, sweeping, work>>

Unlock(t) ==
  /\ owner = t
  /\ owner' = None
  /\ UNCHANGED <<inside, sweeping, work>>

\* An allocation may sweep queued spans itself.
Alloc(t) ==
  /\ t \in inside
  /\ owner = t
  /\ work' \in 0..work
  /\ UNCHANGED <<inside, owner, sweeping>>

Collect ==
  /\ inside = {}
  /\ owner = None
  /\ ~sweeping
  /\ sweeping' = TRUE
  /\ work' \in 0..MaxWork
  /\ UNCHANGED <<inside, owner>>

SweepOne ==
  /\ sweeping
  /\ work > 0
  /\ work' = work - 1
  /\ UNCHANGED <<inside, owner, sweeping>>

SweepEnd ==
  /\ sweeping
  /\ work = 0
  /\ sweeping' = FALSE
  /\ UNCHANGED <<inside, owner, work>>

Next ==
  \/ \E t \in Threads : Enter(t) \/ Leave(t) \/ Lock(t) \/ Unlock(t) \/ Alloc(t)
  \/ Collect \/ SweepOne \/ SweepEnd

Spec == Init /\ [][Next]_gateVars

=============================================================================
