---------------------------- MODULE Gc2HeapProofs ----------------------------
(***************************************************************************)
(* Proofs about Gc2Heap: no reference ever dangles, whatever allocation,   *)
(* assisted and background sweeping, Load transactions and collections do  *)
(* in between.                                                             *)
(*                                                                         *)
(* Two things beside the checked invariants make the induction go through: *)
(* an object refers to older objects only (Serials), and everything that   *)
(* a Load in progress may have to take back is younger than its checkpoint *)
(* and known to its own thread only (Unpublished).                         *)
(***************************************************************************)
EXTENDS Gc2Heap, FiniteSetTheorems, TLAPS

\* mu is owned inside a scope, and a Load owns mu.
Owners ==
  /\ owner # None => owner \in inside
  /\ \A t \in Threads : txn[t] # None => owner = t

\* Serials grow, and references go from younger to older objects.
Serials ==
  /\ \A o \in Slots : serial[o] <= lastSerial
  /\ \A o \in Live : \A p \in refs[o] : serial[p] < serial[o]

\* What is younger than the checkpoint of a Load is known to that thread only.
Unpublished ==
  \A t \in Threads :
    txn[t] # None =>
      /\ txn[t].mark <= lastSerial
      /\ \A u \in Threads \ {t} : \A o \in held[u] : serial[o] <= txn[t].mark
      /\ \A h \in Hashes : intern[h] # None => serial[intern[h]] <= txn[t].mark

HInv ==
  /\ HTypeOK
  /\ Owners
  /\ NoDanglingReference
  /\ OneRepresentative
  /\ Serials
  /\ Unpublished
  /\ QueuedSpansUntouched
  /\ AllocationListsExact

\* The parts that the contents of the heap and the roots decide.
Contents ==
  NoDanglingReference /\ OneRepresentative /\ Serials /\ Unpublished

-----------------------------------------------------------------------------
\* The empty heap satisfies the invariant (pl_gc2_init).
LEMMA InitHInv == HInit => HInv
<1> SUFFICES ASSUME HInit PROVE HInv
  BY Zenon
<1>1. HTypeOK
  BY Zenon, FS_EmptySet DEF HInit, Init, HTypeOK
<1>2. \A o \in Slots : ~Allocated(o)
  BY DEF HInit, Allocated
<1>3. Live = {}
  BY Zenon, <1>2 DEF Live
<1>4. AllocationListsExact
  BY Zenon, <1>2 DEF HInit, AllocationListsExact, SlotsOf
<1> QED
  BY <1>1, <1>3, <1>4 DEF HInit, Init, HInv, Owners, NoDanglingReference,
     OneRepresentative, Serials, Unpublished, QueuedSpansUntouched

-----------------------------------------------------------------------------
(***************************************************************************)
(* Sweeping.                                                               *)
(***************************************************************************)

\* sweep_span frees exactly what is not live: the live objects stay, unchanged,
\* and nothing else appears.
LEMMA SweepKeepsLive ==
  ASSUME HInv, NEW Q \in SUBSET queue, SweepSpans(Q)
  PROVE  /\ Live' = Live
         /\ \A o \in Live : /\ serial'[o] = serial[o]
                            /\ refs'[o] = refs[o]
                            /\ hash'[o] = hash[o]
         /\ \A o \in Slots : serial'[o] = serial[o] \/ serial'[o] = 0
<1>1. /\ serial \in [Slots -> Nat] /\ SpanOf \in [Slots -> Spans]
      /\ marked \subseteq Slots
  BY Zenon, HeapAssumption DEF HInv, HTypeOK
<1>2. ASSUME NEW o \in Slots
      PROVE  /\ serial'[o] = IF o \in Garbage(Q) THEN 0 ELSE serial[o]
             /\ refs'[o] = IF o \in Garbage(Q) THEN {} ELSE refs[o]
             /\ hash'[o] = IF o \in Garbage(Q) THEN None ELSE hash[o]
             /\ o \in Garbage(Q) <=>
                  SpanOf[o] \in Q /\ serial[o] > 0 /\ o \notin marked
             /\ o \in Live <=>
                  serial[o] > 0 /\ ~(SpanOf[o] \in queue /\ o \notin marked)
             /\ o \in Live' <=>
                  serial'[o] > 0 /\ ~(SpanOf[o] \in queue' /\ o \notin marked')
             /\ SpanOf[o] \in queue' <=> SpanOf[o] \in queue \ Q
             /\ o \in marked' <=> o \in marked /\ SpanOf[o] \notin Q
  BY Zenon, <1>1 DEF SweepSpans, SerialWithout, RefsWithout, HashWithout, Garbage,
              MarkedWithout, Live, Doomed, Allocated
<1>3. \A o \in Slots : o \in Live' <=> o \in Live
  BY <1>1, <1>2
<1>4. Live \subseteq Slots /\ Live' \subseteq Slots
  BY Zenon DEF Live
<1>5. \A o \in Live : o \notin Garbage(Q)
  BY Zenon, <1>2, <1>4
<1> QED
  BY Zenon, <1>2, <1>3, <1>4, <1>5

\* The references, the intern table and the serials survive a sweep.
LEMMA SweepContents ==
  ASSUME HInv, NEW Q \in SUBSET queue, SweepSpans(Q),
         UNCHANGED <<lastSerial, held, intern, txn>>
  PROVE  Contents'
<1>0. /\ serial \in [Slots -> Nat] /\ lastSerial \in Nat
      /\ held \in [Threads -> SUBSET Slots]
      /\ intern \in [Hashes -> Slots \cup {None}]
      /\ refs \in [Slots -> SUBSET Slots]
      /\ hash \in [Slots -> Hashes \cup {None}]
      /\ txn \in [Threads -> {None} \cup [mark : Nat, hash : Hashes]]
      /\ Live \subseteq Slots
      /\ None \notin Slots /\ None \notin Hashes
  BY Zenon, HeapAssumption DEF HInv, HTypeOK, Live
<1>1. /\ Live' = Live
      /\ \A o \in Live : /\ serial'[o] = serial[o]
                         /\ refs'[o] = refs[o]
                         /\ hash'[o] = hash[o]
      /\ \A o \in Slots : serial'[o] = serial[o] \/ serial'[o] = 0
  BY Zenon, SweepKeepsLive
<1>2. NoDanglingReference'
  BY Zenon, <1>0, <1>1 DEF HInv, NoDanglingReference
<1>3. OneRepresentative'
  BY Zenon, <1>0, <1>1 DEF HInv, OneRepresentative
<1>4. Serials'
  <2>1. \A o \in Slots : serial'[o] <= lastSerial'
    BY <1>0, <1>1 DEF HInv, Serials
  <2>2. \A o \in Live : \A p \in refs[o] : p \in Live
    BY Zenon DEF HInv, NoDanglingReference
  <2>3. \A o \in Live' : \A p \in refs'[o] : serial'[p] < serial'[o]
    BY Zenon, <1>1, <2>2 DEF HInv, Serials
  <2> QED
    BY Zenon, <2>1, <2>3 DEF Serials
<1>5. Unpublished'
  <2>1. \A u \in Threads : \A o \in held[u] : serial'[o] = serial[o]
    BY Zenon, <1>0, <1>1 DEF HInv, NoDanglingReference
  <2>2. \A h \in Hashes : intern[h] # None => serial'[intern[h]] = serial[intern[h]]
    BY Zenon, <1>0, <1>1 DEF HInv, NoDanglingReference
  <2> QED
    BY Zenon, <2>1, <2>2 DEF HInv, Unpublished
<1> QED
  BY Zenon, <1>2, <1>3, <1>4, <1>5 DEF Contents

\* A swept span is free if it is empty, and available if it is small and has a
\* free slot; the spans still queued are not touched (span_free, available).
LEMMA SweepLists ==
  ASSUME HInv, NEW Q \in SUBSET queue, SweepSpans(Q),
         UNCHANGED txn
  PROVE  /\ QueuedSpansUntouched'
         /\ AllocationListsExact'
         /\ kind' \in [Spans -> {"free", "small", "large"}]
         /\ serial' \in [Slots -> Nat]
         /\ marked' \in SUBSET Slots
         /\ available' \in SUBSET Spans
         /\ queue' \in SUBSET Spans
         /\ refs' \in [Slots -> SUBSET Slots]
         /\ hash' \in [Slots -> Hashes \cup {None}]
<1> DEFINE dead == Garbage(Q)
<1>0. /\ serial \in [Slots -> Nat] /\ SpanOf \in [Slots -> Spans]
      /\ kind \in [Spans -> {"free", "small", "large"}]
      /\ available \in SUBSET Spans /\ queue \in SUBSET Spans
      /\ marked \in SUBSET Slots
      /\ refs \in [Slots -> SUBSET Slots]
      /\ hash \in [Slots -> Hashes \cup {None}]
      /\ Q \in SUBSET Spans
  BY Zenon, HeapAssumption DEF HInv, HTypeOK
<1>1. /\ serial' = [o \in Slots |-> IF o \in dead THEN 0 ELSE serial[o]]
      /\ kind' = [s \in Spans |-> IF s \in Emptied(dead, Q) THEN "free" ELSE kind[s]]
      /\ available' = (available \ Emptied(dead, Q)) \cup Refilled(dead, Q)
      /\ queue' = queue \ Q
      /\ marked' \subseteq marked
      /\ refs' = [o \in Slots |-> IF o \in dead THEN {} ELSE refs[o]]
      /\ hash' = [o \in Slots |-> IF o \in dead THEN None ELSE hash[o]]
  BY Zenon DEF SweepSpans, SerialWithout, KindWithout, AvailableWithout, RefsWithout,
         HashWithout, MarkedWithout
<1>2. \A o \in Slots : o \in dead => SpanOf[o] \in Q /\ serial[o] > 0
  BY Zenon DEF Garbage, Allocated
<1>3. Emptied(dead, Q) \subseteq Q /\ Refilled(dead, Q) \subseteq Q
  BY Zenon DEF Emptied, Refilled
<1>4. /\ kind' \in [Spans -> {"free", "small", "large"}]
      /\ serial' \in [Slots -> Nat]
      /\ marked' \in SUBSET Slots
      /\ available' \in SUBSET Spans
      /\ queue' \in SUBSET Spans
      /\ refs' \in [Slots -> SUBSET Slots]
      /\ hash' \in [Slots -> Hashes \cup {None}]
  <2>1. kind' \in [Spans -> {"free", "small", "large"}]
    BY Zenon, <1>0, <1>1
  <2>2. serial' \in [Slots -> Nat]
    BY Zenon, <1>0, <1>1
  <2>3. /\ available' \in SUBSET Spans /\ queue' \in SUBSET Spans
        /\ marked' \in SUBSET Slots
    BY Zenon, <1>0, <1>1, <1>3
  <2>4. refs' \in [Slots -> SUBSET Slots] /\ hash' \in [Slots -> Hashes \cup {None}]
    BY Zenon, <1>0, <1>1
  <2> QED
    BY Zenon, <2>1, <2>2, <2>3, <2>4
<1>5. QueuedSpansUntouched'
  <2>1. \A s \in queue' : kind'[s] # "free" /\ s \notin available'
    BY Zenon, <1>0, <1>1, <1>3 DEF HInv, QueuedSpansUntouched
  <2>2. \A o \in Slots : serial'[o] = serial[o] \/ serial'[o] = 0
    BY Zenon, <1>0, <1>1
  <2>3. \A t \in Threads, o \in Slots :
          txn'[t] # None /\ serial'[o] > txn'[t].mark => SpanOf[o] \notin queue'
    <3> SUFFICES ASSUME NEW t \in Threads, NEW o \in Slots, txn[t] # None,
                        serial'[o] > txn[t].mark
                 PROVE  SpanOf[o] \notin queue'
      BY Zenon
    <3>1. txn[t].mark \in Nat
      BY Zenon DEF HInv, HTypeOK
    <3>2. serial[o] > txn[t].mark
      BY <2>2, <3>1
    <3> QED
      BY Zenon, <1>1, <3>2 DEF HInv, QueuedSpansUntouched
  <2> QED
    BY Zenon, <2>1, <2>3 DEF QueuedSpansUntouched
<1>6. AllocationListsExact'
  <2> SUFFICES ASSUME NEW s \in Spans \ queue'
               PROVE  /\ s \in available' <=>
                           kind'[s] = "small" /\ \E o \in SlotsOf(s) : serial'[o] = 0
                      /\ kind'[s] = "free" <=> \A o \in SlotsOf(s) : serial'[o] = 0
    BY <1>4 DEF AllocationListsExact, Allocated, SlotsOf
  <2>1. \A o \in SlotsOf(s) : /\ o \in Slots /\ SpanOf[o] = s
                              /\ serial[o] \in Nat
                              /\ serial'[o] = IF o \in dead THEN 0 ELSE serial[o]
    BY Zenon, <1>0, <1>1 DEF SlotsOf
  <2>2. CASE s \in Q
    <3>1. s \in Emptied(dead, Q) <=> \A o \in SlotsOf(s) : serial'[o] = 0
      BY <2>1, <2>2 DEF Emptied, Allocated
    <3>2. s \in Refilled(dead, Q) <=>
            /\ s \notin Emptied(dead, Q) /\ kind[s] = "small"
            /\ \E o \in SlotsOf(s) : serial'[o] = 0
      BY <2>1, <2>2 DEF Refilled, Allocated
    <3>3. kind[s] # "free" /\ s \notin available
      BY Zenon, <2>2 DEF HInv, QueuedSpansUntouched
    <3> QED
      BY Zenon, <1>1, <2>2, <3>1, <3>2, <3>3
  <2>3. CASE s \notin Q
    <3>1. s \notin queue /\ kind'[s] = kind[s] /\ (s \in available' <=> s \in available)
      BY Zenon, <1>1, <1>3, <2>3
    <3>2. \A o \in SlotsOf(s) : serial'[o] = serial[o]
      BY Zenon, <1>2, <2>1, <2>3
    <3>3. /\ s \in available <=>
               kind[s] = "small" /\ \E o \in SlotsOf(s) : serial[o] = 0
          /\ kind[s] = "free" <=> \A o \in SlotsOf(s) : serial[o] = 0
      <4>1. \A o \in SlotsOf(s) : Allocated(o) <=> serial[o] # 0
        BY <2>1 DEF Allocated
      <4> QED
        BY Zenon, <3>1, <4>1 DEF HInv, AllocationListsExact
    <3> QED
      BY Zenon, <3>1, <3>2, <3>3
  <2> QED
    BY Zenon, <2>2, <2>3
<1> QED
  BY Zenon, <1>4, <1>5, <1>6

\* The sweeper (sweep_main), one span at a time.
LEMMA SweepOneStep ==
  ASSUME HInv, HSweepOne
  PROVE  HInv'
<1>1. PICK s \in queue : SweepSpans({s})
  BY Zenon DEF HSweepOne
<1>2. /\ UNCHANGED <<lastSerial, held, intern, txn, inside, owner, sweeping>>
      /\ work' = work - 1
  BY Zenon DEF HSweepOne, SweepOne, roots
<1>3. {s} \in SUBSET queue
  BY Zenon
<1>4. Contents'
  BY Zenon, <1>1, <1>2, <1>3, SweepContents
<1>5. /\ QueuedSpansUntouched' /\ AllocationListsExact'
      /\ kind' \in [Spans -> {"free", "small", "large"}]
      /\ serial' \in [Slots -> Nat]
      /\ marked' \in SUBSET Slots
      /\ available' \in SUBSET Spans
      /\ queue' \in SUBSET Spans
      /\ refs' \in [Slots -> SUBSET Slots]
      /\ hash' \in [Slots -> Hashes \cup {None}]
  BY Zenon, <1>1, <1>2, <1>3, SweepLists
<1>6. work' = Cardinality(queue')
  <2>1. IsFiniteSet(queue) /\ work = Cardinality(queue)
    BY Zenon, HeapAssumption, FS_Subset DEF HInv, HTypeOK
  <2>2. queue' = queue \ {s}
    BY Zenon, <1>1 DEF SweepSpans
  <2> QED
    BY Zenon, <1>2, <2>1, <2>2, FS_RemoveElement
<1>7. HTypeOK'
  BY Zenon, <1>2, <1>5, <1>6 DEF HInv, HTypeOK
<1>8. Owners'
  BY Zenon, <1>2 DEF HInv, Owners
<1> QED
  BY Zenon, <1>4, <1>5, <1>7, <1>8 DEF HInv, Contents

\* An allocation that finds no room has only swept (pl_gc2_alloc).
LEMMA AllocNullStep ==
  ASSUME HInv, NEW t \in Threads, AllocNull(t)
  PROVE  HInv'
<1>1. PICK Q \in SUBSET queue : SweepSpans(Q)
  BY Zenon DEF AllocNull
<1>2. /\ UNCHANGED <<lastSerial, held, intern, txn, inside, owner, sweeping>>
      /\ work' = Cardinality(queue')
  BY Zenon DEF AllocNull, Alloc
<1>3. Contents'
  BY Zenon, <1>1, <1>2, SweepContents
<1>4. /\ QueuedSpansUntouched' /\ AllocationListsExact'
      /\ kind' \in [Spans -> {"free", "small", "large"}]
      /\ serial' \in [Slots -> Nat]
      /\ marked' \in SUBSET Slots
      /\ available' \in SUBSET Spans
      /\ queue' \in SUBSET Spans
      /\ refs' \in [Slots -> SUBSET Slots]
      /\ hash' \in [Slots -> Hashes \cup {None}]
  BY Zenon, <1>1, <1>2, SweepLists
<1>5. HTypeOK'
  BY Zenon, <1>2, <1>4 DEF HInv, HTypeOK
<1>6. Owners'
  BY Zenon, <1>2 DEF HInv, Owners
<1> QED
  BY Zenon, <1>3, <1>4, <1>5, <1>6 DEF HInv, Contents

-----------------------------------------------------------------------------
(***************************************************************************)
(* Allocation.                                                             *)
(***************************************************************************)

\* The new object is in a slot that no live object occupied, outside every span
\* that is still to be swept; the live objects stay as they are.
LEMMA AllocAddsOne ==
  ASSUME HInv, NEW t \in Threads, NEW k \in {"small", "large"},
         NEW Q \in SUBSET queue, NEW o \in Slots, NEW R, NEW h,
         AllocObject(t, k, Q, o, R, h)
  PROVE  /\ o \notin Live
         /\ SpanOf[o] \notin queue'
         /\ Live' = Live \cup {o}
         /\ \A p \in Live : /\ serial'[p] = serial[p]
                            /\ refs'[p] = refs[p]
                            /\ hash'[p] = hash[p]
         /\ serial'[o] = lastSerial + 1 /\ refs'[o] = R /\ hash'[o] = h
         /\ \A p \in Slots \ {o} : serial'[p] = serial[p] \/ serial'[p] = 0
<1>1. /\ serial \in [Slots -> Nat] /\ SpanOf \in [Slots -> Spans]
      /\ marked \subseteq Slots /\ lastSerial \in Nat
      /\ available \subseteq Spans
  BY Zenon, HeapAssumption DEF HInv, HTypeOK
<1>2. ASSUME NEW p \in Slots
      PROVE  /\ serial'[p] = IF p = o THEN lastSerial + 1
                             ELSE IF p \in Garbage(Q) THEN 0 ELSE serial[p]
             /\ refs'[p] = IF p = o THEN R
                           ELSE IF p \in Garbage(Q) THEN {} ELSE refs[p]
             /\ hash'[p] = IF p = o THEN h
                           ELSE IF p \in Garbage(Q) THEN None ELSE hash[p]
             /\ p \in Garbage(Q) <=>
                  SpanOf[p] \in Q /\ serial[p] > 0 /\ p \notin marked
             /\ p \in Live <=>
                  serial[p] > 0 /\ ~(SpanOf[p] \in queue /\ p \notin marked)
             /\ p \in Live' <=>
                  serial'[p] > 0 /\ ~(SpanOf[p] \in queue' /\ p \notin marked')
             /\ SpanOf[p] \in queue' <=> SpanOf[p] \in queue \ Q
             /\ p \in marked' <=> p \in marked /\ SpanOf[p] \notin Q /\ p # o
  BY Zenon, <1>1 DEF AllocObject, SerialWithout, RefsWithout, HashWithout, Garbage,
              MarkedWithout, Live, Doomed, Allocated
<1>3. o \in Garbage(Q) \/ serial[o] = 0
  BY <1>1 DEF AllocObject, Fits, Allocated
<1>4. o \notin Live
  BY <1>1, <1>2, <1>3
<1>5. SpanOf[o] \notin queue'
  <2>1. CASE SpanOf[o] \in AvailableWithout(Garbage(Q), Q)
    BY Zenon, <1>1, <1>2, <2>1
       DEF AvailableWithout, Refilled, HInv, QueuedSpansUntouched
  <2>2. CASE KindWithout(Garbage(Q), Q)[SpanOf[o]] = "free"
    BY Zenon, <1>1, <1>2, <2>2 DEF KindWithout, Emptied, HInv, QueuedSpansUntouched
  <2> QED
    BY Zenon, <2>1, <2>2 DEF AllocObject, Fits
<1>6. \A p \in Slots : p \in Live' <=> p \in Live \/ p = o
  BY <1>1, <1>2, <1>5
<1>7. Live \subseteq Slots /\ Live' \subseteq Slots
  BY Zenon DEF Live
<1>8. \A p \in Live : p \notin Garbage(Q) /\ p # o
  BY Zenon, <1>2, <1>4, <1>7
<1> QED
  BY Zenon, <1>2, <1>4, <1>5, <1>6, <1>7, <1>8

\* The allocation lists after an allocation (pl_gc2_alloc).
LEMMA AllocLists ==
  ASSUME HInv, NEW t \in Threads, NEW k \in {"small", "large"},
         NEW Q \in SUBSET queue, NEW o \in Slots, NEW R \in SUBSET Slots,
         NEW h \in Hashes \cup {None}, AllocObject(t, k, Q, o, R, h)
  PROVE  /\ AllocationListsExact'
         /\ \A s \in queue' : kind'[s] # "free" /\ s \notin available'
         /\ kind' \in [Spans -> {"free", "small", "large"}]
         /\ serial' \in [Slots -> Nat]
         /\ marked' \in SUBSET Slots
         /\ available' \in SUBSET Spans
         /\ queue' \in SUBSET Spans
         /\ refs' \in [Slots -> SUBSET Slots]
         /\ hash' \in [Slots -> Hashes \cup {None}]
<1> DEFINE dead == Garbage(Q)
           S == SpanOf[o]
<1>0. /\ serial \in [Slots -> Nat] /\ SpanOf \in [Slots -> Spans]
      /\ kind \in [Spans -> {"free", "small", "large"}]
      /\ available \in SUBSET Spans /\ queue \in SUBSET Spans
      /\ marked \in SUBSET Slots
      /\ refs \in [Slots -> SUBSET Slots]
      /\ hash \in [Slots -> Hashes \cup {None}]
      /\ Q \in SUBSET Spans /\ lastSerial \in Nat /\ S \in Spans
  BY Zenon, HeapAssumption DEF HInv, HTypeOK
<1>1. /\ serial' = [p \in Slots |-> IF p = o THEN lastSerial + 1
                                    ELSE IF p \in dead THEN 0 ELSE serial[p]]
      /\ kind' = [s \in Spans |-> IF s = S THEN k
                                  ELSE IF s \in Emptied(dead, Q) THEN "free"
                                  ELSE kind[s]]
      /\ available' = AvailableWith(dead, AvailableWithout(dead, Q), k, o)
      /\ queue' = queue \ Q
      /\ marked' \subseteq marked
      /\ refs' = [p \in Slots |-> IF p = o THEN R
                                  ELSE IF p \in dead THEN {} ELSE refs[p]]
      /\ hash' = [p \in Slots |-> IF p = o THEN h
                                  ELSE IF p \in dead THEN None ELSE hash[p]]
  BY Zenon, <1>0 DEF AllocObject, SerialWithout, KindWithout, RefsWithout,
              HashWithout, MarkedWithout
<1>2. \A p \in Slots : p \in dead => SpanOf[p] \in Q /\ serial[p] > 0
  BY Zenon DEF Garbage, Allocated
<1>3. /\ Emptied(dead, Q) \subseteq Q /\ Refilled(dead, Q) \subseteq Q
      /\ AvailableWithout(dead, Q) =
           (available \ Emptied(dead, Q)) \cup Refilled(dead, Q)
  BY Zenon DEF Emptied, Refilled, AvailableWithout
<1>4. /\ available' \subseteq AvailableWithout(dead, Q) \cup {S}
      /\ \A s \in Spans \ {S} : s \in available' <=> s \in AvailableWithout(dead, Q)
      /\ S \in available' <=>
           k = "small" /\ \E p \in SlotsOf(S) \ {o} : p \in dead \/ ~Allocated(p)
  BY Zenon, <1>1 DEF AvailableWith
<1>5. /\ kind' \in [Spans -> {"free", "small", "large"}]
      /\ serial' \in [Slots -> Nat]
      /\ marked' \in SUBSET Slots
      /\ available' \in SUBSET Spans
      /\ queue' \in SUBSET Spans
      /\ refs' \in [Slots -> SUBSET Slots]
      /\ hash' \in [Slots -> Hashes \cup {None}]
  <2>1. kind' \in [Spans -> {"free", "small", "large"}]
    BY Zenon, <1>0, <1>1
  <2>2. serial' \in [Slots -> Nat]
    BY <1>0, <1>1
  <2>3. /\ available' \in SUBSET Spans /\ queue' \in SUBSET Spans
        /\ marked' \in SUBSET Slots
    BY Zenon, <1>0, <1>1, <1>3, <1>4
  <2>4. refs' \in [Slots -> SUBSET Slots]
    BY Zenon, <1>0, <1>1
  <2>5. hash' \in [Slots -> Hashes \cup {None}]
    BY Zenon, <1>0, <1>1
  <2> QED
    BY Zenon, <2>1, <2>2, <2>3, <2>4, <2>5
<1>6. S \notin queue'
  BY AllocAddsOne
<1>7. \A s \in queue' : kind'[s] # "free" /\ s \notin available'
  BY Zenon, <1>0, <1>1, <1>3, <1>4, <1>6 DEF HInv, QueuedSpansUntouched
<1>8. AllocationListsExact'
  <2> SUFFICES ASSUME NEW s \in Spans \ queue'
               PROVE  /\ s \in available' <=>
                           kind'[s] = "small" /\ \E p \in SlotsOf(s) : serial'[p] = 0
                      /\ kind'[s] = "free" <=> \A p \in SlotsOf(s) : serial'[p] = 0
    BY <1>5 DEF AllocationListsExact, Allocated, SlotsOf
  <2>1. \A p \in SlotsOf(s) :
          /\ p \in Slots /\ SpanOf[p] = s
          /\ serial[p] \in Nat
          /\ serial'[p] = IF p = o THEN lastSerial + 1
                          ELSE IF p \in dead THEN 0 ELSE serial[p]
          /\ Allocated(p) <=> serial[p] # 0
    BY <1>0, <1>1 DEF SlotsOf, Allocated
  <2>2. CASE s = S
    <3>1. o \in SlotsOf(s) /\ serial'[o] # 0
      BY <1>0, <1>1, <2>2 DEF SlotsOf
    <3>2. (\E p \in SlotsOf(s) : serial'[p] = 0) <=>
            \E p \in SlotsOf(s) \ {o} : p \in dead \/ ~Allocated(p)
      BY Zenon, <1>0, <2>1, <3>1
    <3> QED
      BY Zenon, <1>0, <1>1, <1>4, <2>2, <3>1, <3>2
  <2>3. CASE s # S /\ s \in Q
    <3>0. \A p \in SlotsOf(s) : p # o
      BY Zenon, <2>1, <2>3
    <3>1. s \in Emptied(dead, Q) <=> \A p \in SlotsOf(s) : serial'[p] = 0
      BY Zenon, <2>1, <2>3, <3>0 DEF Emptied
    <3>2. s \in Refilled(dead, Q) <=>
            /\ s \notin Emptied(dead, Q) /\ kind[s] = "small"
            /\ \E p \in SlotsOf(s) : serial'[p] = 0
      BY Zenon, <2>1, <2>3, <3>0 DEF Refilled
    <3>3. kind[s] # "free" /\ s \notin available
      BY Zenon, <2>3 DEF HInv, QueuedSpansUntouched
    <3> QED
      BY Zenon, <1>1, <1>3, <1>4, <2>3, <3>1, <3>2, <3>3
  <2>4. CASE s # S /\ s \notin Q
    <3>1. s \notin queue /\ kind'[s] = kind[s] /\ (s \in available' <=> s \in available)
      BY Zenon, <1>1, <1>3, <1>4, <2>4
    <3>2. \A p \in SlotsOf(s) : serial'[p] = serial[p]
      BY Zenon, <1>2, <2>1, <2>4
    <3>3. /\ s \in available <=>
               kind[s] = "small" /\ \E p \in SlotsOf(s) : serial[p] = 0
          /\ kind[s] = "free" <=> \A p \in SlotsOf(s) : serial[p] = 0
      BY Zenon, <2>1, <3>1 DEF HInv, AllocationListsExact
    <3> QED
      BY Zenon, <3>1, <3>2, <3>3
  <2> QED
    BY Zenon, <2>2, <2>3, <2>4
<1> QED
  BY Zenon, <1>5, <1>7, <1>8

\* What every allocation preserves, whether or not it registers a PIN.
LEMMA AllocCommon ==
  ASSUME HInv, NEW t \in Threads, NEW k \in {"small", "large"},
         NEW Q \in SUBSET queue, NEW o \in Slots, NEW R \in SUBSET held[t],
         NEW h \in Hashes \cup {None}, AllocObject(t, k, Q, o, R, h)
  PROVE  /\ Serials'
         /\ \A u \in Threads : held'[u] \subseteq Live'
         /\ \A p \in Live' : refs'[p] \subseteq Live'
         /\ \A u \in Threads : \A p \in held[u] : serial'[p] = serial[p]
         /\ held' = [held EXCEPT ![t] = @ \cup {o}]
         /\ UNCHANGED <<inside, owner, sweeping>>
         /\ owner = t
<1>0. /\ serial \in [Slots -> Nat] /\ lastSerial \in Nat
      /\ held \in [Threads -> SUBSET Slots]
      /\ refs \in [Slots -> SUBSET Slots]
      /\ Live \subseteq Slots
  BY Zenon DEF HInv, HTypeOK, Live
<1>1. /\ held' = [held EXCEPT ![t] = @ \cup {o}]
      /\ UNCHANGED <<inside, owner, sweeping>>
      /\ owner = t
      /\ lastSerial' = lastSerial + 1
  BY Zenon DEF AllocObject, Alloc
<1>2. /\ o \notin Live
      /\ Live' = Live \cup {o}
      /\ \A p \in Live : serial'[p] = serial[p] /\ refs'[p] = refs[p]
      /\ serial'[o] = lastSerial + 1 /\ refs'[o] = R
      /\ \A p \in Slots \ {o} : serial'[p] = serial[p] \/ serial'[p] = 0
  <2>1. \A p \in Live : serial'[p] = serial[p] /\ refs'[p] = refs[p]
    BY Zenon, AllocAddsOne
  <2>2. /\ o \notin Live /\ Live' = Live \cup {o}
        /\ serial'[o] = lastSerial + 1 /\ refs'[o] = R
    BY AllocAddsOne
  <2>3. \A p \in Slots \ {o} : serial'[p] = serial[p] \/ serial'[p] = 0
    BY AllocAddsOne
  <2> QED
    BY Zenon, <2>1, <2>2, <2>3
<1>3. /\ \A u \in Threads : held[u] \subseteq Live
      /\ \A p \in Live : refs[p] \subseteq Live
  BY Zenon DEF HInv, NoDanglingReference
<1>4. \A u \in Threads : held'[u] \subseteq Live'
  <2>1. \A u \in Threads : held'[u] \subseteq held[u] \cup {o}
    BY Zenon, <1>0, <1>1
  <2> QED
    BY Zenon, <1>2, <1>3, <2>1
<1>5. \A p \in Live' : refs'[p] \subseteq Live'
  BY Zenon, <1>2, <1>3
<1>6. \A u \in Threads : \A p \in held[u] : serial'[p] = serial[p]
  BY Zenon, <1>2, <1>3
<1>7. Serials'
  <2>1. \A p \in Slots : serial'[p] <= lastSerial'
    <3> SUFFICES ASSUME NEW p \in Slots PROVE serial'[p] <= lastSerial'
      BY Zenon
    <3>1. serial[p] <= lastSerial /\ serial[p] \in Nat
      BY Zenon, <1>0 DEF HInv, Serials
    <3>2. serial'[p] \in {serial[p], 0, lastSerial + 1}
      BY Zenon, <1>2
    <3> QED
      BY <1>0, <1>1, <3>1, <3>2
  <2>2. ASSUME NEW p \in Live', NEW q \in refs'[p]
        PROVE  serial'[q] < serial'[p]
    <3>1. CASE p = o
      <4>1. q \in Live /\ serial'[q] = serial[q] /\ serial[q] <= lastSerial
            /\ serial[q] \in Nat
        BY Zenon, <1>0, <1>2, <1>3, <2>2, <3>1 DEF HInv, Serials
      <4> QED
        BY <1>0, <1>2, <3>1, <4>1
    <3>2. CASE p # o
      <4>1. p \in Live /\ q \in refs[p] /\ q \in Live
        BY Zenon, <1>2, <1>3, <2>2, <3>2
      <4> QED
        BY Zenon, <1>2, <4>1 DEF HInv, Serials
    <3> QED
      BY Zenon, <3>1, <3>2
  <2> QED
    BY Zenon, <2>1, <2>2 DEF Serials
<1> QED
  BY Zenon, <1>1, <1>4, <1>5, <1>6, <1>7

\* The typing of the state after an allocation.
LEMMA AllocTypes ==
  ASSUME HInv, NEW t \in Threads, NEW k \in {"small", "large"},
         NEW Q \in SUBSET queue, NEW o \in Slots, NEW R \in SUBSET held[t],
         NEW h \in Hashes \cup {None}, AllocObject(t, k, Q, o, R, h),
         intern' \in [Hashes -> Slots \cup {None}],
         txn' \in [Threads -> {None} \cup [mark : Nat, hash : Hashes]]
  PROVE  HTypeOK' /\ AllocationListsExact'
<1>0. held \in [Threads -> SUBSET Slots] /\ lastSerial \in Nat
  BY Zenon DEF HInv, HTypeOK
<1>1. R \in SUBSET Slots
  BY Zenon, <1>0
<1>2. /\ AllocationListsExact'
      /\ kind' \in [Spans -> {"free", "small", "large"}]
      /\ serial' \in [Slots -> Nat]
      /\ marked' \in SUBSET Slots
      /\ available' \in SUBSET Spans
      /\ queue' \in SUBSET Spans
      /\ refs' \in [Slots -> SUBSET Slots]
      /\ hash' \in [Slots -> Hashes \cup {None}]
  BY Zenon, <1>1, AllocLists
<1>3. /\ lastSerial' \in Nat
      /\ held' \in [Threads -> SUBSET Slots]
      /\ work' = Cardinality(queue')
      /\ UNCHANGED <<inside, owner, sweeping>>
  BY SMTT(30), <1>0 DEF AllocObject, Alloc
<1> QED
  BY Zenon, <1>2, <1>3 DEF HInv, HTypeOK

\* An allocation of anything but a canonical PIN, in a Load or outside
\* (pl_store_try_alloc).
LEMMA TryAllocStep ==
  ASSUME HInv, NEW t \in Threads, TryAlloc(t)
  PROVE  HInv'
<1>1. PICK k \in {"small", "large"}, Q \in SUBSET queue, o \in Slots,
           R \in SUBSET held[t] : AllocObject(t, k, Q, o, R, None)
  BY Zenon DEF TryAlloc, References
<1>2. UNCHANGED <<intern, txn>>
  BY Zenon DEF TryAlloc
<1>3. /\ Serials'
      /\ \A u \in Threads : held'[u] \subseteq Live'
      /\ \A p \in Live' : refs'[p] \subseteq Live'
      /\ \A u \in Threads : \A p \in held[u] : serial'[p] = serial[p]
      /\ held' = [held EXCEPT ![t] = @ \cup {o}]
      /\ UNCHANGED <<inside, owner, sweeping>>
      /\ owner = t
  BY Zenon, <1>1, AllocCommon
<1>4. /\ SpanOf[o] \notin queue'
      /\ Live' = Live \cup {o}
      /\ hash'[o] = None
  <2>1. SpanOf[o] \notin queue' /\ Live' = Live \cup {o}
    BY SMTT(30), <1>1, AllocAddsOne
  <2>2. hash'[o] = None
    BY Zenon, <1>1 DEF AllocObject, HashWithout
  <2> QED
    BY Zenon, <2>1, <2>2
<1>5. \A p \in Live : serial'[p] = serial[p] /\ hash'[p] = hash[p]
  BY Zenon, <1>1, AllocAddsOne
<1>6. \A p \in Slots \ {o} : serial'[p] = serial[p] \/ serial'[p] = 0
  BY <1>1, AllocAddsOne
<1>7. HTypeOK' /\ AllocationListsExact'
  <2>1. /\ intern' \in [Hashes -> Slots \cup {None}]
        /\ txn' \in [Threads -> {None} \cup [mark : Nat, hash : Hashes]]
    BY Zenon, <1>2 DEF HInv, HTypeOK
  <2> QED
    BY Zenon, <1>1, <2>1, AllocTypes
<1>8. \A s \in queue' : kind'[s] # "free" /\ s \notin available'
  <2>1. R \in SUBSET Slots
    BY Zenon DEF HInv, HTypeOK
  <2> QED
    BY Zenon, <1>1, <2>1, AllocLists
<1>9. queue' \subseteq queue /\ lastSerial' = lastSerial + 1 /\ lastSerial \in Nat
  BY Zenon, <1>1 DEF AllocObject, HInv, HTypeOK
<1>10. NoDanglingReference'
  <2>1. \A g \in Hashes : intern'[g] # None => intern'[g] \in Live'
    BY Zenon, <1>2, <1>4 DEF HInv, NoDanglingReference
  <2> QED
    BY Zenon, <1>3, <2>1 DEF NoDanglingReference
<1>11. OneRepresentative'
  <2> SUFFICES ASSUME NEW p \in Live', hash'[p] # None
               PROVE  intern[hash'[p]] = p
    BY Zenon, <1>2 DEF OneRepresentative
  <2>1. p \in Live /\ hash'[p] = hash[p]
    BY Zenon, <1>4, <1>5
  <2> QED
    BY Zenon, <2>1 DEF HInv, OneRepresentative
<1>12. \A u \in Threads : txn[u] # None => u = t
  BY Zenon, <1>3 DEF HInv, Owners
<1>13. Unpublished'
  <2> SUFFICES ASSUME txn[t] # None
               PROVE  /\ txn[t].mark <= lastSerial'
                      /\ \A u \in Threads \ {t} : \A p \in held'[u] :
                           serial'[p] <= txn[t].mark
                      /\ \A h \in Hashes : intern[h] # None =>
                           serial'[intern[h]] <= txn[t].mark
    BY Zenon, <1>2, <1>12 DEF Unpublished
  <2>1. /\ txn[t].mark <= lastSerial /\ txn[t].mark \in Nat
        /\ \A u \in Threads \ {t} : \A p \in held[u] : serial[p] <= txn[t].mark
        /\ \A h \in Hashes : intern[h] # None => serial[intern[h]] <= txn[t].mark
    BY Zenon DEF HInv, HTypeOK, Unpublished
  <2>2. \A u \in Threads \ {t} : held'[u] = held[u]
    BY Zenon, <1>3 DEF HInv, HTypeOK
  <2>3. \A h \in Hashes : intern[h] # None => intern[h] \in Live
    BY Zenon DEF HInv, NoDanglingReference
  <2>4. txn[t].mark <= lastSerial'
    BY SMTT(30), <1>9, <2>1
  <2> QED
    BY SMTT(30), <1>3, <1>5, <2>1, <2>2, <2>3, <2>4
<1>14. QueuedSpansUntouched'
  <2> SUFFICES ASSUME NEW p \in Slots, txn[t] # None, serial'[p] > txn[t].mark
               PROVE  SpanOf[p] \notin queue'
    BY Zenon, <1>2, <1>8, <1>12 DEF QueuedSpansUntouched
  <2>1. CASE p = o
    BY Zenon, <1>4, <2>1
  <2>2. CASE p # o
    <3>1. txn[t].mark \in Nat
      BY Zenon DEF HInv, HTypeOK
    <3>2. serial[p] > txn[t].mark
      BY SMTT(30), <1>6, <2>2, <3>1
    <3> QED
      BY Zenon, <1>9, <3>2 DEF HInv, QueuedSpansUntouched
  <2> QED
    BY Zenon, <2>1, <2>2
<1>15. Owners'
  BY Zenon, <1>2, <1>3 DEF HInv, Owners
<1> QED
  BY Zenon, <1>3, <1>7, <1>10, <1>11, <1>13, <1>14, <1>15 DEF HInv

\* The end of a Load: the PIN is registered under a hash that no live object
\* has (pl_store_try_mk_pin).
LEMMA LoadCommitStep ==
  ASSUME HInv, NEW t \in Threads, LoadCommit(t)
  PROVE  HInv'
<1> DEFINE h == txn[t].hash
<1>1. PICK Q \in SUBSET queue, o \in Slots, R \in SUBSET held[t] :
        /\ AllocObject(t, "small", Q, o, R, h)
        /\ intern' = [intern EXCEPT ![h] = o]
  BY Zenon DEF LoadCommit, References
<1>2. /\ txn' = [txn EXCEPT ![t] = None]
      /\ txn[t] # None /\ intern[h] = None
      /\ txn \in [Threads -> {None} \cup [mark : Nat, hash : Hashes]]
      /\ intern \in [Hashes -> Slots \cup {None}]
      /\ hash \in [Slots -> Hashes \cup {None}]
      /\ None \notin Hashes /\ None \notin Slots
      /\ Live \subseteq Slots
  BY Zenon, HeapAssumption DEF LoadCommit, HInv, HTypeOK, Live
<1>3. h \in Hashes
  BY Zenon, <1>2
<1>4. /\ Serials'
      /\ \A u \in Threads : held'[u] \subseteq Live'
      /\ \A p \in Live' : refs'[p] \subseteq Live'
      /\ UNCHANGED <<inside, owner, sweeping>>
      /\ owner = t
  BY Zenon, <1>1, <1>3, AllocCommon
<1>5. o \notin Live /\ Live' = Live \cup {o} /\ hash'[o] = h
  BY SMTT(30), <1>1, AllocAddsOne
<1>6. \A p \in Live : hash'[p] = hash[p]
  BY Zenon, <1>1, AllocAddsOne
<1>7. HTypeOK' /\ AllocationListsExact'
  <2>1. intern' \in [Hashes -> Slots \cup {None}]
    BY Zenon, <1>1, <1>2
  <2>2. txn' \in [Threads -> {None} \cup [mark : Nat, hash : Hashes]]
    BY Zenon, <1>2
  <2> QED
    BY Zenon, <1>1, <1>3, <2>1, <2>2, AllocTypes
<1>8. \A s \in queue' : kind'[s] # "free" /\ s \notin available'
  <2>1. R \in SUBSET Slots
    BY Zenon DEF HInv, HTypeOK
  <2> QED
    BY Zenon, <1>1, <1>3, <2>1, AllocLists
<1>9. \A g \in Hashes : intern'[g] = IF g = h THEN o ELSE intern[g]
  BY Zenon, <1>1, <1>2
<1>10. NoDanglingReference'
  BY Zenon, <1>4, <1>5, <1>9 DEF HInv, NoDanglingReference
<1>11. OneRepresentative'
  <2> SUFFICES ASSUME NEW p \in Live', hash'[p] # None
               PROVE  intern'[hash'[p]] = p
    BY Zenon DEF OneRepresentative
  <2>1. CASE p = o
    BY Zenon, <1>3, <1>5, <1>9, <2>1
  <2>2. CASE p # o
    <3>1. p \in Live /\ hash'[p] = hash[p] /\ hash[p] \in Hashes
      BY Zenon, <1>2, <1>5, <1>6, <2>2
    <3>2. intern[hash[p]] = p
      BY Zenon, <3>1 DEF HInv, OneRepresentative
    <3>3. hash[p] # h
      BY Zenon, <1>2, <3>1, <3>2
    <3> QED
      BY Zenon, <1>9, <3>1, <3>2, <3>3
  <2> QED
    BY Zenon, <2>1, <2>2
<1>12. \A u \in Threads : txn'[u] = None
  BY Zenon, <1>2, <1>4 DEF HInv, Owners
<1>13. Unpublished' /\ QueuedSpansUntouched'
  BY Zenon, <1>8, <1>12 DEF Unpublished, QueuedSpansUntouched
<1>14. Owners'
  BY Zenon, <1>4, <1>12 DEF HInv, Owners
<1> QED
  BY Zenon, <1>4, <1>7, <1>10, <1>11, <1>13, <1>14 DEF HInv

-----------------------------------------------------------------------------
(***************************************************************************)
(* Rollback.                                                               *)
(***************************************************************************)

\* What a failed Load leaves behind: everything younger than its checkpoint is
\* gone and nothing that is left refers to it (pl_gc2_rollback).
LEMMA LoadAbortStep ==
  ASSUME HInv, NEW t \in Threads, LoadAbort(t)
  PROVE  HInv'
<1> DEFINE m == txn[t].mark
           dead == {o \in Slots : serial[o] > m}
           touched == {SpanOf[o] : o \in dead}
<1>0. /\ serial \in [Slots -> Nat] /\ SpanOf \in [Slots -> Spans]
      /\ kind \in [Spans -> {"free", "small", "large"}]
      /\ available \in SUBSET Spans /\ queue \in SUBSET Spans
      /\ marked \in SUBSET Slots
      /\ refs \in [Slots -> SUBSET Slots]
      /\ hash \in [Slots -> Hashes \cup {None}]
      /\ held \in [Threads -> SUBSET Slots]
      /\ intern \in [Hashes -> Slots \cup {None}]
      /\ txn \in [Threads -> {None} \cup [mark : Nat, hash : Hashes]]
      /\ None \notin Slots /\ None \notin Hashes
      /\ Live \subseteq Slots /\ Live' \subseteq Slots
  BY Zenon, HeapAssumption DEF HInv, HTypeOK, Live
<1>1. /\ owner = t /\ txn[t] # None
      /\ serial' = [o \in Slots |-> IF o \in dead THEN 0 ELSE serial[o]]
      /\ kind' = [s \in Spans |->
                    IF s \in Emptied(dead, touched) THEN "free" ELSE kind[s]]
      /\ available' = (available \ Emptied(dead, touched))
                        \cup Refilled(dead, touched)
      /\ marked' = marked \ dead
      /\ refs' = [o \in Slots |-> IF o \in dead THEN {} ELSE refs[o]]
      /\ hash' = [o \in Slots |-> IF o \in dead THEN None ELSE hash[o]]
      /\ held' = [held EXCEPT ![t] = @ \ dead]
      /\ lastSerial' = m
      /\ txn' = [txn EXCEPT ![t] = None]
      /\ UNCHANGED <<inside, owner, sweeping, work, queue, intern>>
  BY Zenon DEF LoadAbort, SerialWithout, KindWithout, AvailableWithout, RefsWithout,
         HashWithout, gateVars
<1>2. m \in Nat
  BY Zenon, <1>0, <1>1
<1>3. \A s \in touched : s \in Spans /\ s \notin queue
  BY SMTT(30), <1>0, <1>1 DEF HInv, QueuedSpansUntouched
<1>4. Emptied(dead, touched) \subseteq touched /\ Refilled(dead, touched) \subseteq touched
  BY Zenon DEF Emptied, Refilled
<1>5. \A o \in Slots : o \in Live' <=> o \in Live /\ o \notin dead
  <2> SUFFICES ASSUME NEW o \in Slots
               PROVE  o \in Live' <=> o \in Live /\ o \notin dead
    BY Zenon
  <2>1. /\ o \in Live <=>
             serial[o] > 0 /\ ~(SpanOf[o] \in queue /\ o \notin marked)
        /\ o \in Live' <=>
             serial'[o] > 0 /\ ~(SpanOf[o] \in queue' /\ o \notin marked')
    BY Zenon DEF Live, Allocated, Doomed
  <2>2. /\ o \in dead => serial'[o] = 0
        /\ o \notin dead => serial'[o] = serial[o]
    BY Zenon, <1>1
  <2>3. queue' = queue /\ (o \in marked' <=> o \in marked /\ o \notin dead)
    BY Zenon, <1>1
  <2> QED
    BY SMTT(30), <2>1, <2>2, <2>3
<1>6. \A u \in Threads : held'[u] \subseteq held[u] /\ held'[u] \cap dead = {}
  <2>1. \A u \in Threads \ {t} : held[u] \cap dead = {}
    <3> SUFFICES ASSUME NEW u \in Threads \ {t}, NEW o \in held[u] PROVE o \notin dead
      BY Zenon
    <3>1. serial[o] <= m /\ serial[o] \in Nat
      BY Zenon, <1>0, <1>1 DEF HInv, Unpublished
    <3> QED
      BY <1>2, <3>1
  <2> QED
    BY Zenon, <1>0, <1>1, <2>1
<1>7. \A g \in Hashes : intern[g] # None => intern[g] \in Live /\ intern[g] \notin dead
  <2> SUFFICES ASSUME NEW g \in Hashes, intern[g] # None
               PROVE  intern[g] \in Live /\ intern[g] \notin dead
    BY Zenon
  <2>1. intern[g] \in Live /\ serial[intern[g]] <= m /\ serial[intern[g]] \in Nat
    BY Zenon, <1>0, <1>1 DEF HInv, NoDanglingReference, Unpublished
  <2> QED
    BY <1>2, <2>1
<1>8. \A o \in Live : o \notin dead => \A p \in refs[o] : p \in Live /\ p \notin dead
  <2> SUFFICES ASSUME NEW o \in Live, o \notin dead, NEW p \in refs[o]
               PROVE  p \in Live /\ p \notin dead
    BY Zenon
  <2>1. p \in Live /\ serial[p] < serial[o] /\ serial[p] \in Nat /\ serial[o] \in Nat
    BY Zenon, <1>0 DEF HInv, NoDanglingReference, Serials
  <2>2. serial[o] <= m
    BY <1>0, <1>2, <2>1
  <2> QED
    BY <1>2, <2>1, <2>2
<1>9. NoDanglingReference'
  <2>1. \A u \in Threads : held'[u] \subseteq Live'
    BY Zenon, <1>0, <1>5, <1>6 DEF HInv, NoDanglingReference
  <2>2. \A g \in Hashes : intern'[g] # None => intern'[g] \in Live'
    BY Zenon, <1>0, <1>1, <1>5, <1>7
  <2>3. \A o \in Live' : refs'[o] \subseteq Live'
    BY Zenon, <1>0, <1>1, <1>5, <1>8
  <2> QED
    BY Zenon, <2>1, <2>2, <2>3 DEF NoDanglingReference
<1>10. OneRepresentative'
  <2> SUFFICES ASSUME NEW o \in Live', hash'[o] # None
               PROVE  intern[hash'[o]] = o
    BY Zenon, <1>1 DEF OneRepresentative
  <2>1. o \in Live /\ hash'[o] = hash[o]
    BY Zenon, <1>0, <1>1, <1>5
  <2> QED
    BY Zenon, <2>1 DEF HInv, OneRepresentative
<1>11. Serials'
  <2>1. ASSUME NEW o \in Slots PROVE serial'[o] <= lastSerial'
    <3>1. lastSerial' = m /\ m \in Nat /\ serial[o] \in Nat
      BY Zenon, <1>0, <1>1, <1>2
    <3>2. CASE o \in dead
      <4>1. serial'[o] = 0
        BY Zenon, <1>1, <3>2
      <4> QED
        BY <3>1, <4>1
    <3>3. CASE o \notin dead
      <4>1. serial'[o] = serial[o] /\ ~(serial[o] > m)
        BY Zenon, <1>1, <3>3
      <4> QED
        BY <3>1, <4>1
    <3> QED
      BY Zenon, <3>2, <3>3
  <2>2. \A o \in Live' : /\ o \in Live /\ serial'[o] = serial[o] /\ refs'[o] = refs[o]
                         /\ o \notin dead
    BY Zenon, <1>0, <1>1, <1>5
  <2>3. \A o \in Live' : \A p \in refs'[o] : p \in Live' /\ p \in refs[o]
    BY Zenon, <1>0, <1>5, <1>8, <2>2
  <2>4. \A o \in Live' : \A p \in refs'[o] : serial'[p] < serial'[o]
    BY Zenon, <2>2, <2>3 DEF HInv, Serials
  <2> QED
    BY Zenon, <2>1, <2>4 DEF Serials
<1>12. \A u \in Threads : txn'[u] = None
  BY Zenon, <1>0, <1>1 DEF HInv, Owners
<1>13. Unpublished' /\ Owners'
  BY Zenon, <1>1, <1>12 DEF Unpublished, Owners, HInv
<1>14. QueuedSpansUntouched'
  <2>1. \A s \in queue : s \in Spans /\ s \notin touched
    BY Zenon, <1>0, <1>3
  <2>2. \A s \in queue' : kind'[s] # "free" /\ s \notin available'
    BY Zenon, <1>1, <1>4, <2>1 DEF HInv, QueuedSpansUntouched
  <2> QED
    BY Zenon, <1>12, <2>2 DEF QueuedSpansUntouched
<1>15. AllocationListsExact'
  <2> SUFFICES ASSUME NEW s \in Spans \ queue
               PROVE  /\ s \in available' <=>
                           kind'[s] = "small" /\ \E o \in SlotsOf(s) : ~Allocated(o)'
                      /\ kind'[s] = "free" <=> \A o \in SlotsOf(s) : ~Allocated(o)'
    BY Zenon, <1>1 DEF AllocationListsExact, SlotsOf
  <2>1. \A o \in SlotsOf(s) : /\ o \in Slots /\ SpanOf[o] = s
                              /\ Allocated(o)' <=> Allocated(o) /\ o \notin dead
                              /\ o \in dead => s \in touched
    BY SMTT(30), <1>0, <1>1 DEF SlotsOf, Allocated
  <2>2. /\ s \in available <=>
             kind[s] = "small" /\ \E o \in SlotsOf(s) : ~Allocated(o)
        /\ kind[s] = "free" <=> \A o \in SlotsOf(s) : ~Allocated(o)
    BY Zenon DEF HInv, AllocationListsExact
  <2>3. CASE s \in touched
    <3>1. PICK o \in SlotsOf(s) : o \in dead
      BY Zenon, <2>3 DEF SlotsOf
    <3>2. Allocated(o)
      BY SMTT(30), <1>0, <1>2, <3>1 DEF Allocated
    <3>3. kind[s] # "free"
      BY Zenon, <2>2, <3>1, <3>2
    <3>4. s \in Emptied(dead, touched) <=> \A p \in SlotsOf(s) : ~Allocated(p)'
      BY Zenon, <2>1, <2>3 DEF Emptied
    <3>5. s \in Refilled(dead, touched) <=>
            /\ s \notin Emptied(dead, touched) /\ kind[s] = "small"
            /\ \E p \in SlotsOf(s) : ~Allocated(p)'
      BY Zenon, <2>1, <2>3 DEF Refilled
    <3>6. s \in available => kind[s] = "small" /\ \E p \in SlotsOf(s) : ~Allocated(p)'
      BY Zenon, <2>1, <2>2
    <3> QED
      BY Zenon, <1>1, <3>1, <3>3, <3>4, <3>5, <3>6
  <2>4. CASE s \notin touched
    <3>1. /\ kind'[s] = kind[s] /\ (s \in available' <=> s \in available)
          /\ \A o \in SlotsOf(s) : Allocated(o)' <=> Allocated(o)
      BY Zenon, <1>1, <1>4, <2>1, <2>4
    <3> QED
      BY Zenon, <2>2, <3>1
  <2> QED
    BY Zenon, <2>3, <2>4
<1>16. HTypeOK'
  <2>1. kind' \in [Spans -> {"free", "small", "large"}]
    BY Zenon, <1>0, <1>1
  <2>2. serial' \in [Slots -> Nat] /\ lastSerial' \in Nat
    BY Zenon, <1>0, <1>1, <1>2
  <2>3. available' \in SUBSET Spans /\ marked' \in SUBSET Slots
    BY Zenon, <1>0, <1>1, <1>3, <1>4
  <2>4. refs' \in [Slots -> SUBSET Slots] /\ hash' \in [Slots -> Hashes \cup {None}]
    BY Zenon, <1>0, <1>1
  <2>5. held' \in [Threads -> SUBSET Slots]
    BY Zenon, <1>0, <1>1
  <2>6. txn' \in [Threads -> {None} \cup [mark : Nat, hash : Hashes]]
    BY Zenon, <1>0, <1>1
  <2> QED
    BY Zenon, <1>1, <2>1, <2>2, <2>3, <2>4, <2>5, <2>6 DEF HInv, HTypeOK
<1> QED
  BY Zenon, <1>9, <1>10, <1>11, <1>13, <1>14, <1>15, <1>16 DEF HInv

-----------------------------------------------------------------------------
(***************************************************************************)
(* The mark.                                                               *)
(***************************************************************************)

\* The trace stays among the objects that its roots and references lead to: it
\* contains the roots, is closed, and lies within every closed set (trace).
LEMMA ReachableClosed ==
  ASSUME HTypeOK, NEW R \in SUBSET Slots
  PROVE  /\ R \subseteq Reachable(R)
         /\ \A o \in Reachable(R) : refs[o] \subseteq Reachable(R)
         /\ \A S \in SUBSET Slots :
              R \subseteq S /\ (\A p \in S : refs[p] \subseteq S)
                => Reachable(R) \subseteq S
<1>1. R \subseteq Reachable(R)
  BY Zenon DEF Reachable
<1>2. ASSUME NEW o \in Reachable(R), NEW q \in refs[o]
      PROVE  q \in Reachable(R)
  <2>1. o \in Slots /\ q \in Slots
    BY Zenon, <1>2 DEF Reachable, HTypeOK
  <2>2. ASSUME NEW S \in SUBSET Slots, R \subseteq S,
               \A p \in S : refs[p] \subseteq S
        PROVE  q \in S
    BY Zenon, <1>2, <2>2 DEF Reachable
  <2> QED
    BY Zenon, <2>1, <2>2 DEF Reachable
<1>3. \A S \in SUBSET Slots :
        R \subseteq S /\ (\A p \in S : refs[p] \subseteq S)
          => Reachable(R) \subseteq S
  BY Zenon DEF Reachable
<1> QED
  BY Zenon, <1>1, <1>2, <1>3

\* A collection keeps exactly what the roots reach, and the weak table forgets
\* the rest (mark_world, pl_store_gc_weak).
LEMMA CollectStep ==
  ASSUME HInv, HCollect
  PROVE  HInv'
<1> DEFINE R == UNION {held[t] : t \in Threads}
<1>0. /\ serial \in [Slots -> Nat] /\ SpanOf \in [Slots -> Spans]
      /\ kind \in [Spans -> {"free", "small", "large"}]
      /\ refs \in [Slots -> SUBSET Slots]
      /\ hash \in [Slots -> Hashes \cup {None}]
      /\ held \in [Threads -> SUBSET Slots]
      /\ intern \in [Hashes -> Slots \cup {None}]
      /\ None \notin Slots /\ None \notin Hashes /\ None \notin Threads
      /\ Live \subseteq Slots /\ Live' \subseteq Slots
  BY Zenon, HeapAssumption DEF HInv, HTypeOK, Live
<1>1. /\ inside' = {} /\ owner' = None /\ inside = {} /\ owner = None
      /\ sweeping' = TRUE
      /\ marked' = Reachable(R)
      /\ intern' = [h \in Hashes |->
                      IF intern[h] \in marked' THEN intern[h] ELSE None]
      /\ available' = {}
      /\ queue' = {s \in Spans : kind[s] # "free"}
      /\ work' = Cardinality(queue')
      /\ UNCHANGED <<kind, serial, lastSerial, refs, hash, held, txn>>
  BY Zenon DEF HCollect, Collect
<1>2. \A t \in Threads : txn[t] = None
  BY Zenon, <1>0, <1>1 DEF HInv, Owners
<1>3. R \in SUBSET Slots
  BY <1>0
<1>4. /\ R \subseteq Reachable(R)
      /\ \A o \in Reachable(R) : refs[o] \subseteq Reachable(R)
      /\ Reachable(R) \subseteq Live
  <2>1. R \subseteq Live /\ \A p \in Live : refs[p] \subseteq Live
    BY Zenon DEF HInv, NoDanglingReference
  <2>2. HTypeOK
    BY Zenon DEF HInv
  <2> QED
    BY Zenon, <1>0, <1>3, <2>1, <2>2, ReachableClosed
<1>5. \A o \in Slots : Allocated(o) => SpanOf[o] \in queue'
  <2> SUFFICES ASSUME NEW o \in Slots, Allocated(o) PROVE kind[SpanOf[o]] # "free"
    BY Zenon, <1>0, <1>1
  <2>1. o \in SlotsOf(SpanOf[o]) /\ SpanOf[o] \in Spans
    BY Zenon, <1>0 DEF SlotsOf
  <2> QED
    BY Zenon, <2>1 DEF HInv, AllocationListsExact, QueuedSpansUntouched
<1>6. Live' = Reachable(R)
  <2>1. \A o \in Slots : o \in Live' <=> Allocated(o) /\ o \in marked'
    BY Zenon, <1>1, <1>5 DEF Live, Doomed, Allocated
  <2>2. \A o \in Live : Allocated(o)
    BY Zenon DEF Live
  <2> QED
    BY Zenon, <1>0, <1>1, <1>4, <2>1, <2>2
<1>7. NoDanglingReference'
  <2>1. \A t \in Threads : held'[t] \subseteq Live'
    BY Zenon, <1>1, <1>4, <1>6
  <2>2. \A h \in Hashes : intern'[h] # None => intern'[h] \in Live'
    BY Zenon, <1>1, <1>6
  <2>3. \A o \in Live' : refs'[o] \subseteq Live'
    BY Zenon, <1>1, <1>4, <1>6
  <2> QED
    BY Zenon, <2>1, <2>2, <2>3 DEF NoDanglingReference
<1>8. OneRepresentative'
  <2> SUFFICES ASSUME NEW o \in Live', hash[o] # None
               PROVE  intern'[hash[o]] = o
    BY Zenon, <1>1 DEF OneRepresentative
  <2>1. o \in Live /\ hash[o] \in Hashes /\ o \in marked'
    BY Zenon, <1>0, <1>1, <1>4, <1>6
  <2>2. intern[hash[o]] = o
    BY Zenon, <2>1 DEF HInv, OneRepresentative
  <2> QED
    BY Zenon, <1>1, <2>1, <2>2
<1>9. Serials'
  BY Zenon, <1>1, <1>4, <1>6 DEF HInv, Serials
<1>10. Unpublished' /\ Owners'
  BY Zenon, <1>1, <1>2 DEF Unpublished, Owners
<1>11. QueuedSpansUntouched'
  BY Zenon, <1>1, <1>2 DEF QueuedSpansUntouched
<1>12. AllocationListsExact'
  <2> SUFFICES ASSUME NEW s \in Spans \ queue'
               PROVE  kind[s] = "free" /\ \A o \in SlotsOf(s) : ~Allocated(o)
    BY Zenon, <1>1 DEF AllocationListsExact, SlotsOf, Allocated
  <2>1. kind[s] = "free"
    BY Zenon, <1>1
  <2>2. \A o \in SlotsOf(s) : o \in Slots /\ SpanOf[o] = s
    BY Zenon DEF SlotsOf
  <2> QED
    BY Zenon, <1>5, <2>1, <2>2
<1>13. HTypeOK'
  <2>1. intern' \in [Hashes -> Slots \cup {None}]
    BY Zenon, <1>0, <1>1
  <2>2. marked' \in SUBSET Slots /\ queue' \in SUBSET Spans
    BY Zenon, <1>0, <1>1, <1>4
  <2> QED
    BY Zenon, <1>1, <2>1, <2>2 DEF HInv, HTypeOK
<1> QED
  BY Zenon, <1>7, <1>8, <1>9, <1>10, <1>11, <1>12, <1>13 DEF HInv

-----------------------------------------------------------------------------
(***************************************************************************)
(* Roots, scopes and the mutex.                                            *)
(***************************************************************************)

\* Following, dropping and sending references keeps them live and keeps what a
\* Load has built to itself (pl_store_intern_get, er_deliver).
LEMMA RootSteps ==
  ASSUME HInv, NEW t \in Threads,
         \/ Deref(t) \/ Drop(t) \/ Send(t)
         \/ \E h \in Hashes : LoadHit(t, h)
  PROVE  HInv'
<1>0. /\ held \in [Threads -> SUBSET Slots]
      /\ serial \in [Slots -> Nat]
      /\ refs \in [Slots -> SUBSET Slots]
      /\ Live \subseteq Slots
      /\ \A u \in Threads : held[u] \subseteq Live
      /\ \A o \in Live : refs[o] \subseteq Live
      /\ \A h \in Hashes : intern[h] # None => intern[h] \in Live
  BY Zenon DEF HInv, HTypeOK, Live, NoDanglingReference
<1>1. /\ UNCHANGED <<gateVars, heap, intern, txn>>
      /\ txn[t] = None
  BY Zenon DEF Deref, Drop, Send, LoadHit, Evaluating
<1>2. PICK u \in Threads, o \in Live :
        /\ held' = [held EXCEPT ![u] = @ \cup {o}]
           \/ held' = [held EXCEPT ![u] = @ \ {o}]
        /\ \/ o \in held[t]
           \/ \E p \in held[t] : o \in refs[p]
           \/ owner = t
  <2>1. CASE Deref(t)
    BY Zenon, <1>0, <2>1 DEF Deref
  <2>2. CASE Drop(t) \/ Send(t)
    BY Zenon, <1>0, <2>2 DEF Drop, Send
  <2>3. ASSUME NEW h \in Hashes, LoadHit(t, h)
        PROVE  \E o \in Live : /\ held' = [held EXCEPT ![t] = @ \cup {o}]
                               /\ owner = t
    BY Zenon, <1>0, <2>3 DEF LoadHit
  <2> QED
    BY Zenon, <2>1, <2>2, <2>3
<1>3. /\ held' \in [Threads -> SUBSET Slots]
      /\ \A v \in Threads : held'[v] \subseteq held[v] \cup {o}
  BY Zenon, <1>0, <1>2
<1>4. Live' = Live
  BY Zenon, <1>1 DEF heap, Live, Allocated, Doomed
<1>5. HTypeOK'
  BY Zenon, <1>1, <1>3 DEF HInv, HTypeOK, gateVars, heap
<1>6. NoDanglingReference'
  <2>1. \A v \in Threads : held'[v] \subseteq Live
    BY Zenon, <1>0, <1>3
  <2> QED
    BY Zenon, <1>0, <1>1, <1>4, <2>1 DEF NoDanglingReference, heap
<1>7. OneRepresentative' /\ Serials'
  BY Zenon, <1>1, <1>4 DEF HInv, OneRepresentative, Serials, heap
<1>8. Unpublished'
  <2> SUFFICES ASSUME NEW v \in Threads, txn[v] # None
               PROVE  /\ txn[v].mark <= lastSerial
                      /\ \A w \in Threads \ {v} : \A p \in held'[w] :
                           serial[p] <= txn[v].mark
                      /\ \A h \in Hashes : intern[h] # None =>
                           serial[intern[h]] <= txn[v].mark
    BY Zenon, <1>1 DEF Unpublished, heap
  <2>1. /\ txn[v].mark <= lastSerial /\ txn[v].mark \in Nat
        /\ \A w \in Threads \ {v} : \A p \in held[w] : serial[p] <= txn[v].mark
        /\ \A h \in Hashes : intern[h] # None => serial[intern[h]] <= txn[v].mark
    BY Zenon DEF HInv, HTypeOK, Unpublished
  <2>2. v # t /\ owner # t
    BY Zenon, <1>1 DEF HInv, Owners
  <2>3. serial[o] <= txn[v].mark
    <3>1. CASE o \in held[t]
      BY Zenon, <2>1, <2>2, <3>1
    <3>2. CASE \E p \in held[t] : o \in refs[p]
      <4>1. PICK p \in held[t] : o \in refs[p]
        BY Zenon, <3>2
      <4>2. /\ serial[p] <= txn[v].mark /\ serial[o] < serial[p]
            /\ serial[p] \in Nat /\ serial[o] \in Nat
        BY Zenon, <1>0, <2>1, <2>2, <4>1 DEF HInv, Serials
      <4> QED
        BY <2>1, <4>2
    <3> QED
      BY Zenon, <1>2, <2>2, <3>1, <3>2
  <2> QED
    BY Zenon, <1>3, <2>1, <2>3
<1>9. Owners' /\ QueuedSpansUntouched' /\ AllocationListsExact'
  BY Zenon, <1>1 DEF HInv, Owners, QueuedSpansUntouched, AllocationListsExact,
              SlotsOf, Allocated, gateVars, heap
<1> QED
  BY Zenon, <1>5, <1>6, <1>7, <1>8, <1>9 DEF HInv

\* Scopes, the mutex, the checkpoint and the end of a sweep leave heap and
\* references alone (pl_store_mutator_enter, pl_store_lock, pl_gc2_checkpoint).
LEMMA QuietHeapSteps ==
  ASSUME HInv, UNCHANGED <<heap, held, intern, work>>,
         inside' \in SUBSET Threads, owner' \in Threads \cup {None},
         sweeping' \in BOOLEAN,
         txn' \in [Threads -> {None} \cup [mark : Nat, hash : Hashes]],
         owner' # None => owner' \in inside',
         \A t \in Threads : txn'[t] # None =>
           /\ owner' = t
           /\ txn'[t] = txn[t] \/ txn'[t].mark = lastSerial
  PROVE  HInv'
<1>0. /\ Live' = Live /\ Live \subseteq Slots
      /\ \A t \in Threads : held[t] \subseteq Slots
      /\ intern \in [Hashes -> Slots \cup {None}]
      /\ \A o \in Slots : serial[o] <= lastSerial /\ serial[o] \in Nat
      /\ lastSerial \in Nat
      /\ UNCHANGED <<serial, lastSerial, queue, kind, available>>
  BY Zenon DEF heap, Live, Allocated, Doomed, HInv, HTypeOK, Serials
<1>1. HTypeOK'
  BY Zenon DEF HInv, HTypeOK, heap
<1>2. /\ Owners' /\ NoDanglingReference' /\ OneRepresentative' /\ Serials'
      /\ AllocationListsExact'
  <2>1. Owners'
    BY Zenon, <1>0 DEF HInv, Owners, heap
  <2>2. NoDanglingReference'
    BY Zenon, <1>0 DEF HInv, NoDanglingReference, heap
  <2>3. OneRepresentative'
    BY Zenon, <1>0 DEF HInv, OneRepresentative, heap
  <2>4. Serials'
    BY Zenon, <1>0 DEF HInv, Serials, heap
  <2>5. AllocationListsExact'
    BY SMTT(30), <1>0 DEF HInv, AllocationListsExact, SlotsOf, Allocated, heap
  <2> QED
    BY Zenon, <2>1, <2>2, <2>3, <2>4, <2>5
<1>3. Unpublished' /\ QueuedSpansUntouched'
  <2>1. ASSUME NEW t \in Threads, txn'[t] # None
        PROVE  /\ txn'[t].mark <= lastSerial
               /\ \A u \in Threads \ {t} : \A o \in held[u] :
                    serial[o] <= txn'[t].mark
               /\ \A h \in Hashes : intern[h] # None =>
                    serial[intern[h]] <= txn'[t].mark
               /\ \A o \in Slots : serial[o] > txn'[t].mark => SpanOf[o] \notin queue
    <3>1. CASE txn'[t].mark = lastSerial
      BY <1>0, <3>1
    <3>2. CASE txn'[t] = txn[t]
      BY Zenon, <2>1, <3>2 DEF HInv, Unpublished, QueuedSpansUntouched
    <3> QED
      BY Zenon, <2>1, <3>1, <3>2
  <2>2. \A s \in queue : kind[s] # "free" /\ s \notin available
    BY Zenon DEF HInv, QueuedSpansUntouched
  <2> QED
    BY Zenon, <1>0, <2>1, <2>2 DEF Unpublished, QueuedSpansUntouched
<1> QED
  BY Zenon, <1>1, <1>2, <1>3 DEF HInv

-----------------------------------------------------------------------------
\* Every step preserves the invariant.
LEMMA NextHInv == HInv /\ [HNext]_hvars => HInv'
<1> SUFFICES ASSUME HInv, [HNext]_hvars PROVE HInv'
  BY Zenon
<1>0. /\ inside \in SUBSET Threads /\ owner \in Threads \cup {None}
      /\ sweeping \in BOOLEAN /\ lastSerial \in Nat
      /\ txn \in [Threads -> {None} \cup [mark : Nat, hash : Hashes]]
      /\ None \notin Threads
      /\ owner # None => owner \in inside
      /\ \A t \in Threads : txn[t] # None => owner = t
  BY Zenon, HeapAssumption DEF HInv, HTypeOK, Owners
<1>1. CASE UNCHANGED hvars
  BY Zenon, <1>0, <1>1, QuietHeapSteps DEF hvars, gateVars, roots
<1>2. ASSUME NEW t \in Threads, HEnter(t) \/ HLeave(t) PROVE HInv'
  <2>1. /\ UNCHANGED <<heap, held, intern, txn, work, owner, sweeping>>
        /\ inside' \in SUBSET Threads
        /\ owner # None => owner \in inside'
    BY Zenon, <1>0, <1>2 DEF HEnter, HLeave, Enter, Leave, roots
  <2> QED
    BY Zenon, <1>0, <2>1, QuietHeapSteps
<1>3. ASSUME NEW t \in Threads, HLock(t) \/ HUnlock(t) PROVE HInv'
  <2>1. /\ UNCHANGED <<heap, held, intern, txn, work, inside, sweeping>>
        /\ owner' \in Threads \cup {None}
        /\ owner' # None => owner' \in inside
        /\ \A u \in Threads : txn[u] = None
    BY Zenon, <1>0, <1>3 DEF HLock, HUnlock, Lock, Unlock, roots
  <2> QED
    BY Zenon, <1>0, <2>1, QuietHeapSteps
<1>4. ASSUME NEW t \in Threads, NEW h \in Hashes, LoadBegin(t, h) PROVE HInv'
  <2>1. /\ UNCHANGED <<heap, held, intern, work, inside, owner, sweeping>>
        /\ owner = t
        /\ txn' = [txn EXCEPT ![t] = [mark |-> lastSerial, hash |-> h]]
    BY Zenon, <1>4 DEF LoadBegin, gateVars
  <2>2. txn' \in [Threads -> {None} \cup [mark : Nat, hash : Hashes]]
    BY Zenon, <1>0, <2>1
  <2>3. \A u \in Threads : txn'[u] # None =>
          owner' = u /\ (txn'[u] = txn[u] \/ txn'[u].mark = lastSerial)
    BY Zenon, <1>0, <2>1
  <2> QED
    BY Zenon, <1>0, <2>1, <2>2, <2>3, QuietHeapSteps
<1>5. CASE HSweepEnd
  <2>1. /\ UNCHANGED <<heap, held, intern, txn, work, inside, owner>>
        /\ sweeping' \in BOOLEAN
    BY Zenon, <1>5 DEF HSweepEnd, SweepEnd, roots
  <2> QED
    BY Zenon, <1>0, <2>1, QuietHeapSteps
<1>6. CASE HCollect \/ HSweepOne
  BY Zenon, <1>6, CollectStep, SweepOneStep
<1>7. ASSUME NEW t \in Threads,
             \/ TryAlloc(t) \/ AllocNull(t) \/ LoadCommit(t) \/ LoadAbort(t)
             \/ Deref(t) \/ Drop(t) \/ Send(t)
             \/ \E h \in Hashes : LoadHit(t, h)
      PROVE  HInv'
  BY Zenon, <1>7, TryAllocStep, AllocNullStep, LoadCommitStep, LoadAbortStep, RootSteps
<1> QED
  BY Zenon, <1>1, <1>2, <1>3, <1>4, <1>5, <1>6, <1>7 DEF HNext

\* The inductive invariant of the shared heap.
THEOREM HeapInvariant == HSpec => []HInv
  BY InitHInv, NextHInv, PTL DEF HSpec

\* The heap's state always has its type, and the queue and its length agree.
THEOREM HeapTypeCorrect == HSpec => []HTypeOK
<1>1. HInv => HTypeOK
  BY Zenon DEF HInv
<1> QED
  BY <1>1, HeapInvariant, PTL

\* No thread, weak table entry or surviving object ever refers to a freed or
\* doomed slot: collection, assisted and background sweeping and the rollback
\* of a Load free garbage only, for any number of threads, spans and objects.
THEOREM HeapNoDangling == HSpec => []NoDanglingReference
<1>1. HInv => NoDanglingReference
  BY Zenon DEF HInv
<1> QED
  BY <1>1, HeapInvariant, PTL

\* A hash has at most one canonical PIN that is not garbage, the one the intern
\* table holds (pl_store_register_canonical, pl_store_gc_weak).
THEOREM HeapOneRepresentative == HSpec => []OneRepresentative
<1>1. HInv => OneRepresentative
  BY Zenon DEF HInv
<1> QED
  BY <1>1, HeapInvariant, PTL

\* No allocation goes into a span that is still to be swept, and no queued span
\* is freed by anything but its sweep (pl_gc2_alloc, pl_gc2_rollback).
THEOREM HeapQueuedSpans == HSpec => []QueuedSpansUntouched
<1>1. HInv => QueuedSpansUntouched
  BY Zenon DEF HInv
<1> QED
  BY <1>1, HeapInvariant, PTL

\* The allocation lists are exact: no full span is listed (the assertion in
\* pl_gc2_alloc) and no free slot of a swept small span is lost.
THEOREM HeapListsExact == HSpec => []AllocationListsExact
<1>1. HInv => AllocationListsExact
  BY Zenon DEF HInv
<1> QED
  BY <1>1, HeapInvariant, PTL

\* A behaviour of the heap is a behaviour of the gate that Gc2World implements.
THEOREM HeapObeysGate == HSpec => Spec
<1>1. HInit => Init
  BY Zenon DEF HInit
<1>2. [HNext]_hvars => [Next]_gateVars
  <2> SUFFICES ASSUME [HNext]_hvars PROVE Next \/ UNCHANGED gateVars
    BY Zenon
  <2>1. CASE UNCHANGED hvars
    BY Zenon, <2>1 DEF hvars
  <2>2. ASSUME NEW t \in Threads,
               HEnter(t) \/ HLeave(t) \/ HLock(t) \/ HUnlock(t)
        PROVE  Next
    BY Zenon, <2>2 DEF HEnter, HLeave, HLock, HUnlock, Next
  <2>3. ASSUME NEW t \in Threads, TryAlloc(t) \/ AllocNull(t) \/ LoadCommit(t)
        PROVE  Next
    <3>1. Alloc(t)
      BY Zenon, <2>3 DEF TryAlloc, AllocNull, LoadCommit, AllocObject
    <3> QED
      BY Zenon, <3>1 DEF Next
  <2>4. ASSUME NEW t \in Threads,
               \/ LoadAbort(t) \/ Deref(t) \/ Drop(t) \/ Send(t)
               \/ \E h \in Hashes : LoadHit(t, h) \/ LoadBegin(t, h)
        PROVE  UNCHANGED gateVars
    BY Zenon, <2>4 DEF LoadAbort, Deref, Drop, Send, LoadHit, LoadBegin
  <2>5. HCollect \/ HSweepOne \/ HSweepEnd => Next
    BY Zenon DEF HCollect, HSweepOne, HSweepEnd, Next
  <2> QED
    BY Zenon, <2>1, <2>2, <2>3, <2>4, <2>5 DEF HNext
<1> QED
  BY <1>1, <1>2, PTL DEF HSpec, Spec

=============================================================================
