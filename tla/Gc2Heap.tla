------------------------------- MODULE Gc2Heap -------------------------------
(***************************************************************************)
(* The shared non-moving heap: spans of slots, the allocator that assists  *)
(* the sweeper, the mark, the weak intern table, and the checkpoint and    *)
(* rollback of a Load.                                                     *)
(*                                                                         *)
(* A step of this module is a step of Gc2Gate together with what it does   *)
(* to the heap, and Gc2World implements Gc2Gate: nothing but the gate      *)
(* keeps the mark from running beside a mutator.  Sizes are abstracted to  *)
(* two kinds of span, small (several slots) and large (one object); the    *)
(* lists of the code are sets, so any order they could have is explored;   *)
(* the contents of an object are the objects it refers to and, for a       *)
(* canonical PIN, its hash.                                                *)
(***************************************************************************)
EXTENDS Gc2Gate, FiniteSets

CONSTANTS
  Spans,       \* extents of the address space that the buddy tree hands out
  Slots,       \* object slots
  SpanOf,      \* the span each slot lies in
  Hashes,      \* hashes of canonical PINs
  MaxSerial,   \* bound: allocation serials (SIZE_MAX in the code)
  MaxRefs      \* bound: references of one object

ASSUME HeapAssumption ==
  /\ IsFiniteSet(Spans)
  /\ MaxWork \in Nat /\ MaxWork >= Cardinality(Spans)
  /\ None \notin Threads
  /\ SpanOf \in [Slots -> Spans]
  /\ MaxSerial \in Nat
  /\ None \notin Slots
  /\ None \notin Hashes

VARIABLES
  kind,        \* "free" (owned by the buddy tree), "small" or "large"
  serial,      \* slot.serial; 0 is a free slot
  marked,      \* slots of queued spans with the mark bit set
  available,   \* spans on an allocation list
  queue,       \* g->work: spans waiting to be swept
  lastSerial,  \* g->serial
  refs,        \* objects an object refers to
  hash,        \* hash of a canonical PIN, None for every other object
  held,        \* objects each thread can reach from its registered roots
  intern,      \* the weak table: hash -> canonical PIN or None
  txn          \* checkpoint and hash of the Load a thread is in, or None

heap == <<kind, serial, marked, available, queue, lastSerial, refs, hash>>
roots == <<held, intern, txn>>
hvars == <<gateVars, heap, roots>>

Allocated(o) == serial[o] > 0

\* Unmarked in a span still to be swept: the sweeper will free it.
Doomed(o) == SpanOf[o] \in queue /\ o \notin marked

Live == {o \in Slots : Allocated(o) /\ ~Doomed(o)}

HTypeOK ==
  /\ inside \in SUBSET Threads
  /\ owner \in Threads \cup {None}
  /\ sweeping \in BOOLEAN
  /\ work = Cardinality(queue)
  /\ kind \in [Spans -> {"free", "small", "large"}]
  /\ serial \in [Slots -> Nat]
  /\ marked \in SUBSET Slots
  /\ available \in SUBSET Spans
  /\ queue \in SUBSET Spans
  /\ lastSerial \in Nat
  /\ refs \in [Slots -> SUBSET Slots]
  /\ hash \in [Slots -> Hashes \cup {None}]
  /\ held \in [Threads -> SUBSET Slots]
  /\ intern \in [Hashes -> Slots \cup {None}]
  /\ txn \in [Threads -> {None} \cup [mark : Nat, hash : Hashes]]

HInit ==
  /\ Init
  /\ kind = [s \in Spans |-> "free"]
  /\ serial = [o \in Slots |-> 0]
  /\ marked = {}
  /\ available = {}
  /\ queue = {}
  /\ lastSerial = 0
  /\ refs = [o \in Slots |-> {}]
  /\ hash = [o \in Slots |-> None]
  /\ held = [t \in Threads |-> {}]
  /\ intern = [h \in Hashes |-> None]
  /\ txn = [t \in Threads |-> None]

-----------------------------------------------------------------------------
(***************************************************************************)
(* Freeing slots: shared by the sweeper, the assisting allocator and the   *)
(* rollback.  "dead" is the set of slots that become free, "touched" the   *)
(* spans that are looked at afterwards.                                    *)
(***************************************************************************)

SlotsOf(s) == {o \in Slots : SpanOf[o] = s}

SerialWithout(dead) ==
  [o \in Slots |-> IF o \in dead THEN 0 ELSE serial[o]]

\* Spans with no object left go back to the buddy tree.
Emptied(dead, touched) ==
  {s \in touched : \A o \in SlotsOf(s) : o \in dead \/ ~Allocated(o)}

KindWithout(dead, touched) ==
  [s \in Spans |-> IF s \in Emptied(dead, touched) THEN "free" ELSE kind[s]]

\* The others go on an allocation list if they are small and have a free slot.
Refilled(dead, touched) ==
  {s \in touched \ Emptied(dead, touched) :
     /\ kind[s] = "small"
     /\ \E o \in SlotsOf(s) : o \in dead \/ ~Allocated(o)}

\* Bug: an empty span is freed but stays on its allocation list.
AvailableStale(dead, touched) == available \cup Refilled(dead, touched)

AvailableWithout(dead, touched) ==
  (available \ Emptied(dead, touched)) \cup Refilled(dead, touched)

\* The contents of a free slot are gone.
RefsWithout(dead) == [o \in Slots |-> IF o \in dead THEN {} ELSE refs[o]]
HashWithout(dead) == [o \in Slots |-> IF o \in dead THEN None ELSE hash[o]]

\* sweep_span on every span of Q: free what the mark did not reach.
Garbage(Q) ==
  {o \in Slots : SpanOf[o] \in Q /\ Allocated(o) /\ o \notin marked}

\* The mark bits of a swept span are not read again before they are cleared.
MarkedWithout(Q) == {o \in marked : SpanOf[o] \notin Q}

\* Bug: a swept span stays queued.
SweepAgain(Q) ==
  LET dead == Garbage(Q) IN
  /\ serial' = SerialWithout(dead)
  /\ kind' = KindWithout(dead, Q)
  /\ available' = AvailableWithout(dead, Q)
  /\ refs' = RefsWithout(dead)
  /\ hash' = HashWithout(dead)
  /\ marked' = MarkedWithout(Q)
  /\ UNCHANGED queue

SweepSpans(Q) ==
  LET dead == Garbage(Q) IN
  /\ serial' = SerialWithout(dead)
  /\ kind' = KindWithout(dead, Q)
  /\ available' = AvailableWithout(dead, Q)
  /\ refs' = RefsWithout(dead)
  /\ hash' = HashWithout(dead)
  /\ marked' = MarkedWithout(Q)
  /\ queue' = queue \ Q

-----------------------------------------------------------------------------
(***************************************************************************)
(* pl_gc2_alloc.                                                           *)
(***************************************************************************)

\* The queued spans an allocation sweeps first: none if a span of its class is
\* available, otherwise one after the other until one becomes available.  A
\* large object has no class list, so it sweeps the whole queue.
Assists(k, Q) ==
  IF k = "large" THEN Q = queue
  ELSE IF available # {} THEN Q = {}
  ELSE LET found == Refilled(Garbage(Q), Q)
       IN  (Q = queue /\ found = {}) \/ (\E s \in found : found = {s})

\* Where the object can go after that: a free slot of an available span, or a
\* slot of a new span when there is none.
Fits(k, Q, o) ==
  LET dead == Garbage(Q)
      avail == AvailableWithout(dead, Q)
  IN  /\ o \in dead \/ ~Allocated(o)
      /\ IF k = "small" /\ avail # {} THEN SpanOf[o] \in avail
         ELSE KindWithout(dead, Q)[SpanOf[o]] = "free"

\* A span stays available while it has another free slot.
AvailableWith(dead, avail, k, o) ==
  LET s == SpanOf[o] IN
  IF /\ k = "small"
     /\ \E p \in SlotsOf(s) \ {o} : p \in dead \/ ~Allocated(p)
  THEN avail \cup {s} ELSE avail \ {s}

\* Thread t, with mu held, allocates object o with references R and hash h.
AllocObject(t, k, Q, o, R, h) ==
  LET dead == Garbage(Q) IN
  /\ Alloc(t)
  /\ lastSerial < MaxSerial
  /\ Assists(k, Q)
  /\ Fits(k, Q, o)
  /\ serial' = [SerialWithout(dead) EXCEPT ![o] = lastSerial + 1]
  /\ lastSerial' = lastSerial + 1
  /\ kind' = [KindWithout(dead, Q) EXCEPT ![SpanOf[o]] = k]
  /\ available' = AvailableWith(dead, AvailableWithout(dead, Q), k, o)
  /\ marked' = MarkedWithout(Q) \ {o}
  /\ refs' = [RefsWithout(dead) EXCEPT ![o] = R]
  /\ hash' = [HashWithout(dead) EXCEPT ![o] = h]
  /\ queue' = queue \ Q
  /\ work' = Cardinality(queue')
  /\ held' = [held EXCEPT ![t] = @ \cup {o}]

References(t) == {R \in SUBSET held[t] : Cardinality(R) <= MaxRefs}

\* pl_store_try_alloc for anything but a canonical PIN.
TryAlloc(t) ==
  /\ \E k \in {"small", "large"}, Q \in SUBSET queue, o \in Slots,
        R \in References(t) : AllocObject(t, k, Q, o, R, None)
  /\ UNCHANGED <<intern, txn>>

\* No span has room and the buddy tree has none: the sweeping is done, and the
\* caller gets NULL.  A Load reports it; every other caller stops the process.
AllocNull(t) ==
  /\ txn[t] # None
  /\ Alloc(t)
  /\ \E k \in {"small", "large"}, Q \in SUBSET queue :
       /\ Assists(k, Q)
       /\ ~\E o \in Slots : Fits(k, Q, o)
       /\ SweepSpans(Q)
  /\ work' = Cardinality(queue')
  /\ UNCHANGED <<lastSerial, held, intern, txn>>

-----------------------------------------------------------------------------
(***************************************************************************)
(* Load: look the hash up, or build the PIN under a checkpoint.            *)
(***************************************************************************)

\* pl_store_intern_get finds a canonical PIN.
LoadHit(t, h) ==
  /\ owner = t
  /\ txn[t] = None
  /\ intern[h] # None
  /\ held' = [held EXCEPT ![t] = @ \cup {intern[h]}]
  /\ UNCHANGED <<gateVars, heap, intern, txn>>

\* pl_store_mark, with mu held until the Load is over.  A stream's hash is known
\* only when it has been built, so it may turn out to be interned already.
LoadBegin(t, h) ==
  /\ owner = t
  /\ txn[t] = None
  /\ txn' = [txn EXCEPT ![t] = [mark |-> lastSerial, hash |-> h]]
  /\ UNCHANGED <<gateVars, heap, held, intern>>

\* Bug: the intern table is not looked at again before the registration.
CommitUnchecked(t) ==
  /\ txn[t] # None
  /\ \E Q \in SUBSET queue, o \in Slots, R \in References(t) :
       /\ AllocObject(t, "small", Q, o, R, txn[t].hash)
       /\ intern' = [intern EXCEPT ![txn[t].hash] = o]
  /\ txn' = [txn EXCEPT ![t] = None]

\* pl_store_try_mk_pin for a hash without a PIN: allocate and register it.
LoadCommit(t) ==
  /\ txn[t] # None
  /\ intern[txn[t].hash] = None
  /\ \E Q \in SUBSET queue, o \in Slots, R \in References(t) :
       /\ AllocObject(t, "small", Q, o, R, txn[t].hash)
       /\ intern' = [intern EXCEPT ![txn[t].hash] = o]
  /\ txn' = [txn EXCEPT ![t] = None]

\* pl_store_release, when a Load fails or finds its hash interned: free every
\* object allocated after the mark and give the serials back.
LoadAbort(t) ==
  /\ owner = t
  /\ txn[t] # None
  /\ LET dead == {o \in Slots : serial[o] > txn[t].mark}
         touched == {SpanOf[o] : o \in dead}
     IN  /\ serial' = SerialWithout(dead)
         /\ kind' = KindWithout(dead, touched)
         /\ available' = AvailableWithout(dead, touched)
         /\ marked' = marked \ dead
         /\ refs' = RefsWithout(dead)
         /\ hash' = HashWithout(dead)
         /\ held' = [held EXCEPT ![t] = @ \ dead]
  /\ lastSerial' = txn[t].mark
  /\ txn' = [txn EXCEPT ![t] = None]
  /\ UNCHANGED <<gateVars, queue, intern>>

-----------------------------------------------------------------------------
(***************************************************************************)
(* What evaluation does with references, inside a scope.                   *)
(***************************************************************************)

Evaluating(t) == t \in inside /\ txn[t] = None

\* Follow a reference of a held object.
Deref(t) ==
  /\ Evaluating(t)
  /\ \E o \in held[t] : \E c \in refs[o] :
       held' = [held EXCEPT ![t] = @ \cup {c}]
  /\ UNCHANGED <<gateVars, heap, intern, txn>>

\* The last root of an object goes away.
Drop(t) ==
  /\ Evaluating(t)
  /\ \E o \in held[t] : held' = [held EXCEPT ![t] = @ \ {o}]
  /\ UNCHANGED <<gateVars, heap, intern, txn>>

\* er_deliver: the mailbox of the receiver, a root, gets the object.
Send(t) ==
  /\ Evaluating(t)
  /\ \E u \in Threads \ {t}, o \in held[t] :
       held' = [held EXCEPT ![u] = @ \cup {o}]
  /\ UNCHANGED <<gateVars, heap, intern, txn>>

-----------------------------------------------------------------------------
(***************************************************************************)
(* The collector and the sweeper.                                          *)
(***************************************************************************)

\* Bug: the trace does not follow references.
RootsOnly(R) == R

\* What a trace from R reaches: the least set with R closed under references.
Reachable(R) ==
  {o \in Slots : \A S \in SUBSET Slots :
                   (R \subseteq S /\ \A p \in S : refs[p] \subseteq S) => o \in S}

\* Bug: the queued spans stay on their allocation lists.
CollectKeepsLists ==
  /\ Collect
  /\ marked' = Reachable(UNION {held[t] : t \in Threads})
  /\ intern' = [h \in Hashes |->
                  IF intern[h] \in marked' THEN intern[h] ELSE None]
  /\ queue' = {s \in Spans : kind[s] # "free"}
  /\ work' = Cardinality(queue')
  /\ UNCHANGED <<kind, serial, lastSerial, refs, hash, held, txn, available>>

\* mark_world and the rest of collect under the locks: mark from the roots,
\* drop the weak entries that were not reached, take every span off its
\* allocation list and queue it.
HCollect ==
  /\ Collect
  /\ marked' = Reachable(UNION {held[t] : t \in Threads})
  /\ intern' = [h \in Hashes |->
                  IF intern[h] \in marked' THEN intern[h] ELSE None]
  /\ available' = {}
  /\ queue' = {s \in Spans : kind[s] # "free"}
  /\ work' = Cardinality(queue')
  /\ UNCHANGED <<kind, serial, lastSerial, refs, hash, held, txn>>

HSweepOne ==
  /\ SweepOne
  /\ \E s \in queue : SweepSpans({s})
  /\ UNCHANGED <<lastSerial, roots>>

HSweepEnd == SweepEnd /\ UNCHANGED <<heap, roots>>

\* Scopes and the mutex; a Load keeps mu to its end.
HEnter(t) == Enter(t) /\ UNCHANGED <<heap, roots>>
HLeave(t) == Leave(t) /\ UNCHANGED <<heap, roots>>
HLock(t) == Lock(t) /\ UNCHANGED <<heap, roots>>
HUnlock(t) == Unlock(t) /\ txn[t] = None /\ UNCHANGED <<heap, roots>>

HNext ==
  \/ \E t \in Threads :
       \/ HEnter(t) \/ HLeave(t) \/ HLock(t) \/ HUnlock(t)
       \/ TryAlloc(t) \/ AllocNull(t)
       \/ (\E h \in Hashes : LoadHit(t, h) \/ LoadBegin(t, h))
       \/ LoadCommit(t) \/ LoadAbort(t)
       \/ Deref(t) \/ Drop(t) \/ Send(t)
  \/ HCollect \/ HSweepOne \/ HSweepEnd

HSpec == HInit /\ [][HNext]_hvars

-----------------------------------------------------------------------------
(***************************************************************************)
(* Properties.                                                             *)
(***************************************************************************)

\* No thread, weak table entry or surviving object refers to a slot that has
\* been freed or that the sweeper is going to free.
NoDanglingReference ==
  /\ \A t \in Threads : held[t] \subseteq Live
  /\ \A h \in Hashes : intern[h] # None => intern[h] \in Live
  /\ \A o \in Live : refs[o] \subseteq Live

\* Every hash has at most one canonical PIN that is not garbage, and the intern
\* table knows it: register_canonical never meets a second representative.
OneRepresentative ==
  \A o \in Live : hash[o] # None => intern[hash[o]] = o

\* A queued span still exists when the sweeper gets to it, and no allocation
\* went into it meanwhile: a rollback and an assisting allocator free other
\* spans (pl_gc2_rollback, pl_gc2_alloc).
QueuedSpansUntouched ==
  /\ \A s \in queue : kind[s] # "free" /\ s \notin available
  /\ \A t \in Threads, o \in Slots :
       txn[t] # None /\ serial[o] > txn[t].mark => SpanOf[o] \notin queue

\* The allocation lists are exact for the spans already swept: a span is listed
\* if and only if it is small and has a free slot, and no span is kept empty.
AllocationListsExact ==
  \A s \in Spans \ queue :
    /\ s \in available <=>
         kind[s] = "small" /\ \E o \in SlotsOf(s) : ~Allocated(o)
    /\ kind[s] = "free" <=> \A o \in SlotsOf(s) : ~Allocated(o)

=============================================================================
