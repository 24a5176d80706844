-------------------------- MODULE SiloStoreProofs --------------------------
(***************************************************************************)
(* Safety of the Silo store, for any set of processes, pins and cache      *)
(* keys, any sizes, any pack length and any write buffer.                  *)
(*                                                                         *)
(* The pack has three lengths: synced, what a power cut leaves; Base, what *)
(* every process outside the transaction relies on; and size, which the    *)
(* batch in the transaction is moving.  What is published lies below both  *)
(* synced and Base, what a process has staged lies below Base, and what    *)
(* the batch appends lies above Base.  A Save that aborts cuts the pack to *)
(* Base, a kill leaves a torn tail beyond size, a power cut forgets what   *)
(* is beyond synced and every process with it: no failure reaches what     *)
(* somebody still refers to.  Agree carries that argument from one pack to *)
(* the next; JobGood says how far the batch of the transaction has come.   *)
(***************************************************************************)
EXTENDS SiloStore, TLAPS

(* The packs c and d have the same first n units.                           *)
Agree(c, d, n) == \A i \in 1..n : d[i] = c[i]

(* The extent e holds the stream of h within the first n units of c.       *)
Fits(e, h, c, n) == e.off + e.len <= n /\ Holds(c, h, e)

(* silo_find has an extent for h, in the memory pr of a process or in d.    *)
Known(pr, d, h) == pr.staged[h] # None \/ d.objects[h] # None

(* What is published lies in the first n units of c, and is closed under   *)
(* the pins inside it.                                                     *)
DbGood(d, c, n) ==
    /\ \A h \in Objects : d.objects[h] # None =>
          Fits(d.objects[h], h, c, n) /\ \A s \in Sub[h] : d.objects[s] # None
    /\ d.root # None => d.objects[d.root] # None
    /\ \A k \in Keys : d.codecache[k] # None => d.objects[d.codecache[k]] # None

(* What a process has staged lies in the first n units of c; what it may   *)
(* refer to is staged or published.                                        *)
MemoryGood(pr, d, c, n) ==
    /\ \A h \in Objects : pr.staged[h] # None =>
          Fits(pr.staged[h], h, c, n) /\ \A s \in Sub[h] : Known(pr, d, s)
    /\ \A h \in pr.canon : Known(pr, d, h) /\ Sub[h] \subseteq pr.canon
    /\ \A k \in Keys : pr.kv[k] # None => Known(pr, d, pr.kv[k])

(* A pin that the job of pr has dealt with.                                *)
Handled(pr, d, h) == pr.job.batch.pending[h] # None \/ Known(pr, d, h)

(* A batch owns the pack from start on: up to flushed its image is in the  *)
(* pack c of n units, and its pending extents lie in the image.            *)
BatchGood(b, c, n) ==
    /\ b.start <= b.flushed /\ b.flushed <= b.end /\ n = b.flushed
    /\ \A i \in Offsets : b.start < i /\ i <= b.flushed => c[i] = b.image[i]
    /\ \A h \in Objects : b.pending[h] # None =>
          b.start <= b.pending[h].off /\ Fits(b.pending[h], h, b.image, b.end)
    /\ ~b.changed => b.pending = Empty
    /\ ~b.dirty => b.flushed = b.start

(* A job: its items are dealt with in dependency order, and before the     *)
(* transaction publishes, the pack is on the disk.                         *)
JobGood(pr, d, c, n, sy) ==
    LET j == pr.job
    IN  /\ BatchGood(j.batch, c, n)
        /\ j.todo \subseteq j.items
        /\ j.at # "put" => j.todo = {} /\ j.batch.flushed = j.batch.end
        /\ \A x \in j.items : Sub[x] \subseteq j.items \cup pr.canon
        /\ \A x \in j.items \ j.todo : Handled(pr, d, x)
        /\ \A x \in Objects : j.batch.pending[x] # None =>
              \A s \in Sub[x] : Handled(pr, d, s)
        /\ j.pin \in j.items \cup pr.canon
        /\ j.at \in {"sync", "publish"} => j.root
        /\ j.at = "sync" /\ (j.batch.dirty \/ pr.staged # Empty) => sy = n

(* The end of the pack as every process but the one in a transaction knows *)
(* it.                                                                     *)
Base == IF lock = None THEN size ELSE proc[lock].job.batch.start

LockOwner ==
    \A p \in Procs : (proc[p].job # Idle <=> lock = p)

SInv ==
    /\ TypeOK
    /\ LockOwner
    /\ DbGood(db, cell, synced) /\ DbGood(db, cell, Base)
    /\ \A p \in Procs : MemoryGood(proc[p], db, cell, Base)
    /\ lock # None => JobGood(proc[lock], db, cell, size, synced)
    /\ JournalTellsRoots

-----------------------------------------------------------------------------
(* Lemmas on the data.                                                      *)

(* An extent has a beginning and a length. *)
LEMMA ExtentType ==
  ASSUME NEW e \in Extents
  PROVE  /\ e.off \in Nat /\ e.len \in Nat /\ e.off + e.len \in Nat
         /\ 1 <= e.len
BY SiloAssumption DEF Extents

(* An extent keeps its stream in a pack that agrees where it lies. *)
LEMMA FitsStable ==
  ASSUME NEW e \in Extents, NEW h, NEW c, NEW d, NEW n \in Nat, NEW m \in Nat,
         n <= m, Agree(c, d, n), Fits(e, h, c, n)
  PROVE  Fits(e, h, d, m)
<1>1. /\ e.off \in Nat /\ e.len \in Nat /\ e.off + e.len <= n
      /\ \A i \in 1..e.len : c[e.off + i] = Unit(h, i)
  BY ExtentType DEF Fits, Holds
<1>2. e.off + e.len <= m
  BY <1>1
<1>3. ASSUME NEW i \in 1..e.len
      PROVE  d[e.off + i] = c[e.off + i]
  <2>1. e.off + i \in 1..n
    BY <1>1
  <2> QED
    BY Zenon, <2>1 DEF Agree
<1> QED
  BY Zenon, <1>1, <1>2, <1>3 DEF Fits, Holds

(* What is published stays good in such a pack. *)
LEMMA DbStable ==
  ASSUME NEW b \in Databases, NEW c, NEW d, NEW n \in Nat, NEW m \in Nat,
         n <= m, Agree(c, d, n), DbGood(b, c, n)
  PROVE  DbGood(b, d, m)
<1>1. b.objects \in Index
  BY Zenon DEF Databases
<1>2. \A h \in Objects : b.objects[h] # None => b.objects[h] \in Extents
  BY Zenon, <1>1 DEF Index
<1> QED
  BY Zenon, <1>2, FitsStable DEF DbGood

(* And so does what a process has staged, when more is published. *)
LEMMA MemoryStable ==
  ASSUME NEW pr \in Processes, NEW b, NEW b2, NEW c, NEW d, NEW n \in Nat, NEW m \in Nat,
         \A h \in Objects : b.objects[h] # None => b2.objects[h] # None,
         n <= m, Agree(c, d, n), MemoryGood(pr, b, c, n)
  PROVE  MemoryGood(pr, b2, d, m)
<1>1. pr.staged \in Index /\ pr.canon \subseteq Objects /\ pr.kv \in [Keys -> Objects \cup {None}]
  BY Zenon DEF Processes
<1>2. \A h \in Objects : pr.staged[h] # None => pr.staged[h] \in Extents
  BY Zenon, <1>1 DEF Index
<1>3. \A h \in Objects : Known(pr, b, h) => Known(pr, b2, h)
  BY Zenon DEF Known
<1>4. \A h \in Objects : Sub[h] \subseteq Objects
  BY Zenon, SiloAssumption
<1>5. \A k \in Keys : pr.kv[k] # None => pr.kv[k] \in Objects
  BY Zenon, <1>1
<1>6. ASSUME NEW h \in Objects, pr.staged[h] # None
      PROVE  Fits(pr.staged[h], h, d, m) /\ \A s \in Sub[h] : Known(pr, b2, s)
  BY Zenon, <1>2, <1>3, <1>4, <1>6, FitsStable DEF MemoryGood
<1> QED
  BY Zenon, <1>1, <1>3, <1>5, <1>6 DEF MemoryGood

(* It depends on no more than these fields. *)
LEMMA MemorySame ==
  ASSUME NEW pr, NEW pr2, NEW b, NEW c, NEW n, MemoryGood(pr, b, c, n),
         pr2.staged = pr.staged, pr2.kv = pr.kv, pr2.canon = pr.canon
  PROVE  MemoryGood(pr2, b, c, n)
BY Zenon DEF MemoryGood, Known

-----------------------------------------------------------------------------
(* Lemmas on the processes.                                                 *)

(* No job is the idle one. *)
LEMMA IdleIsNoJob == Idle \notin Jobs
  BY Zenon DEF Idle, Jobs

(* A process whose job changes keeps the rest. *)
LEMMA JobUpdate ==
  ASSUME TypeOK, NEW p \in Procs, NEW j \in Jobs \cup {Idle},
         proc' = [proc EXCEPT ![p] = [proc[p] EXCEPT !.job = j]]
  PROVE  /\ proc' \in [Procs -> Processes]
         /\ proc'[p] \in Processes /\ proc'[p].job = j
         /\ proc'[p].staged = proc[p].staged /\ proc'[p].kv = proc[p].kv
         /\ proc'[p].canon = proc[p].canon
         /\ \A q \in Procs \ {p} : proc'[q] = proc[q]
<1> DEFINE pr == [proc[p] EXCEPT !.job = j]
<1>1. proc \in [Procs -> Processes]
  BY Zenon DEF TypeOK
<1>2. /\ pr \in Processes /\ pr.job = j /\ pr.staged = proc[p].staged
      /\ pr.kv = proc[p].kv /\ pr.canon = proc[p].canon
  BY <1>1 DEF Processes
<1> HIDE DEF pr
<1>3. proc' = [proc EXCEPT ![p] = pr]
  BY Zenon DEF pr
<1> QED
  BY Zenon, <1>1, <1>2, <1>3

(* What TypeOK says of one process. *)
LEMMA ProcessType ==
  ASSUME TypeOK, NEW p \in Procs
  PROVE  /\ proc[p] \in Processes /\ proc[p].staged \in Index
         /\ proc[p].canon \subseteq Objects
         /\ proc[p].kv \in [Keys -> Objects \cup {None}]
         /\ proc[p].job # Idle => proc[p].job \in Jobs
         /\ proc[p].job.at \in {"put", "flush", "sync", "publish"} => proc[p].job \in Jobs
<1>1. proc[p] \in Processes
  BY Zenon DEF TypeOK
<1>2. proc[p].job \in Jobs \cup {Idle}
  BY Zenon, <1>1 DEF Processes
<1>3. Idle.at = "idle"
  BY DEF Idle
<1> QED
  BY Zenon, <1>1, <1>2, <1>3 DEF Processes

(* The parts of a job. *)
LEMMA JobType ==
  ASSUME NEW j \in Jobs
  PROVE  /\ j.at \in {"put", "flush", "sync", "publish"} /\ j.pin \in Objects
         /\ j.items \subseteq Objects /\ j.todo \subseteq Objects
         /\ j.root \in BOOLEAN /\ j.key \in Keys \cup {None}
         /\ j.batch \in Batches
         /\ j.batch.start \in 0..MaxPack /\ j.batch.flushed \in 0..MaxPack
         /\ j.batch.end \in 0..MaxPack /\ j.batch.pending \in Index
         /\ j.batch.start \in Nat /\ j.batch.flushed \in Nat /\ j.batch.end \in Nat
         /\ j.batch.changed \in BOOLEAN /\ j.batch.dirty \in BOOLEAN
         /\ j.batch.image \in [Offsets -> Units]
<1>1. j.batch \in Batches
  BY Zenon DEF Jobs
<1>2. /\ j.batch.start \in 0..MaxPack /\ j.batch.flushed \in 0..MaxPack
      /\ j.batch.end \in 0..MaxPack /\ j.batch.pending \in Index
      /\ j.batch.changed \in BOOLEAN /\ j.batch.dirty \in BOOLEAN
      /\ j.batch.image \in [Offsets -> Units]
  BY Zenon, <1>1 DEF Batches
<1>3. j.batch.start \in Nat /\ j.batch.flushed \in Nat /\ j.batch.end \in Nat
  BY <1>2, SiloAssumption
<1> QED
  BY Zenon, <1>1, <1>2, <1>3 DEF Jobs

-----------------------------------------------------------------------------
(* The invariant and the steps of one job.                                  *)

(* A pack that agrees with another agrees on less of it. *)
LEMMA AgreeLess ==
  ASSUME NEW c, NEW d, NEW n \in Nat, NEW m \in Nat, m <= n, Agree(c, d, n)
  PROVE  Agree(c, d, m)
<1>1. \A i \in 1..m : i \in 1..n
  OBVIOUS
<1> QED
  BY Zenon, <1>1 DEF Agree

(* Where the pack ends for the others. *)
LEMMA BaseFacts ==
  ASSUME SInv
  PROVE  /\ size \in Nat /\ synced \in Nat /\ synced <= size /\ size <= MaxPack
         /\ Base \in Nat /\ Base <= size /\ MaxPack \in Nat
         /\ lock = None => Base = size
         /\ lock # None => /\ lock \in Procs /\ proc[lock].job \in Jobs
                           /\ Base = proc[lock].job.batch.start
                           /\ size = proc[lock].job.batch.flushed
<1>1. /\ size \in Nat /\ synced \in Nat /\ synced <= size /\ size <= MaxPack
      /\ MaxPack \in Nat
  BY SiloAssumption DEF SInv, TypeOK
<1>2. CASE lock = None
  BY <1>1, <1>2 DEF Base
<1>3. CASE lock # None
  <2>1. lock \in Procs /\ JobGood(proc[lock], db, cell, size, synced)
    BY Zenon, <1>3 DEF SInv, TypeOK
  <2>2. proc[lock].job \in Jobs
    BY Zenon, <2>1, ProcessType DEF SInv, LockOwner
  <2>3. Base = proc[lock].job.batch.start
    BY Zenon, <1>3 DEF Base
  <2>4. /\ proc[lock].job.batch.start <= proc[lock].job.batch.flushed
        /\ size = proc[lock].job.batch.flushed
    BY Zenon, <2>1 DEF JobGood, BatchGood
  <2>5. proc[lock].job.batch.start \in Nat
    BY Zenon, <2>2, JobType
  <2> QED
    BY Zenon, <1>1, <1>3, <2>1, <2>2, <2>3, <2>4, <2>5
<1> QED
  BY Zenon, <1>2, <1>3

(* What the holder of the transaction has, and that it is the only one. *)
LEMMA HolderFacts ==
  ASSUME SInv, NEW p \in Procs, proc[p].job # Idle
  PROVE  /\ lock = p /\ lock # None /\ proc[p].job \in Jobs
         /\ Base = proc[p].job.batch.start /\ size = proc[p].job.batch.flushed
         /\ JobGood(proc[p], db, cell, size, synced)
         /\ \A q \in Procs \ {p} : proc[q].job = Idle
<1>1. lock = p /\ lock # None
  BY Zenon, SiloAssumption DEF SInv, LockOwner
<1> QED
  BY Zenon, <1>1, BaseFacts DEF SInv, LockOwner

(* A step of the job that holds the transaction writes beyond the pack. *)
LEMMA JobStep ==
  ASSUME SInv, NEW p \in Procs, proc[p].job # Idle, NEW j \in Jobs,
         proc' = [proc EXCEPT ![p] = [proc[p] EXCEPT !.job = j]],
         j.batch.start = proc[p].job.batch.start, db' = db, lock' = lock,
         cell' \in [Offsets -> Units], size' \in 0..MaxPack, synced' \in 0..size',
         synced <= synced', Agree(cell, cell', size),
         JobGood(proc'[p], db, cell', size', synced')
  PROVE  SInv'
<1>1. /\ lock = p /\ lock # None /\ Base = proc[p].job.batch.start
      /\ \A q \in Procs \ {p} : proc[q].job = Idle
  BY Zenon, HolderFacts
<1>2. /\ proc' \in [Procs -> Processes] /\ proc'[p].job = j /\ proc'[p] \in Processes
      /\ proc'[p].staged = proc[p].staged /\ proc'[p].kv = proc[p].kv
      /\ proc'[p].canon = proc[p].canon
      /\ \A q \in Procs \ {p} : proc'[q] = proc[q]
  BY Zenon, JobUpdate DEF SInv
<1>3. TypeOK'
  BY Zenon, <1>2 DEF SInv, TypeOK
<1>4. LockOwner'
  BY Zenon, <1>1, <1>2, IdleIsNoJob DEF LockOwner
<1>5. Base' = Base
  BY Zenon, <1>1, <1>2 DEF Base
<1>6. /\ size \in Nat /\ synced \in Nat /\ synced <= size /\ Base \in Nat /\ Base <= size
      /\ Base <= Base
  BY BaseFacts
<1>7. Agree(cell, cell', Base) /\ Agree(cell, cell', synced)
  BY Zenon, <1>6, AgreeLess
<1>8. synced' \in Nat
  BY <1>3, SiloAssumption DEF TypeOK
<1>9. db \in Databases /\ \A q \in Procs : proc[q] \in Processes
  BY Zenon DEF SInv, TypeOK
<1>10. DbGood(db, cell', synced') /\ DbGood(db, cell', Base)
  BY Zenon, <1>6, <1>7, <1>8, <1>9, DbStable DEF SInv
<1>11. ASSUME NEW q \in Procs
       PROVE  MemoryGood(proc'[q], db, cell', Base)
  <2>1. MemoryGood(proc[q], db, cell', Base)
    BY Zenon, <1>6, <1>7, <1>9, MemoryStable DEF SInv
  <2>2. /\ proc'[q].staged = proc[q].staged /\ proc'[q].kv = proc[q].kv
        /\ proc'[q].canon = proc[q].canon
    BY Zenon, <1>2
  <2> QED
    BY Zenon, <2>1, <2>2, MemorySame
<1>12. JournalTellsRoots'
  BY Zenon DEF SInv, JournalTellsRoots
<1> QED
  BY Zenon, <1>1, <1>3, <1>4, <1>5, <1>10, <1>11, <1>12 DEF SInv

-----------------------------------------------------------------------------
(* Lemmas on the batches.                                                   *)

(* batch_append: the fields of the batch. *)
LEMMA AppendedFields ==
  ASSUME NEW b \in Batches, NEW h \in Objects, b.end + Size[h] <= MaxPack
  PROVE  LET a == Appended(b, h)
         IN /\ a \in Batches /\ a.start = b.start /\ a.flushed = b.flushed
            /\ a.end = b.end + Size[h] /\ a.changed = TRUE /\ a.dirty = b.dirty
            /\ a.pending = [b.pending EXCEPT ![h] = [off |-> b.end, len |-> Size[h]]]
            /\ a.image = [i \in Offsets |-> IF b.end < i /\ i <= b.end + Size[h]
                                            THEN Unit(h, i - b.end) ELSE b.image[i]]
<1> DEFINE e == [off |-> b.end, len |-> Size[h]]
           pd == [b.pending EXCEPT ![h] = e]
           im == [i \in Offsets |-> IF b.end < i /\ i <= b.end + Size[h]
                                    THEN Unit(h, i - b.end) ELSE b.image[i]]
           en == b.end + Size[h]
<1>1. /\ b.end \in 0..MaxPack /\ b.pending \in Index /\ b.image \in [Offsets -> Units]
      /\ MaxPack \in Nat /\ Size[h] \in Nat \ {0}
  BY Zenon, SiloAssumption DEF Batches
<1>2. e \in Extents
  BY <1>1 DEF Extents
<1>3. pd \in Index
  BY Zenon, <1>1, <1>2 DEF Index
<1>4. en \in 0..MaxPack
  BY <1>1
<1>5. im \in [Offsets -> Units]
  <2>1. ASSUME NEW i \in Offsets
        PROVE  b.end < i => Unit(h, i - b.end) \in Units
    <3>1. b.end < i => i - b.end \in 0..MaxPack
      BY <1>1 DEF Offsets
    <3> QED
      BY <3>1 DEF Unit, Units
  <2> QED
    BY Zenon, <1>1, <2>1
<1>6. Appended(b, h) = [b EXCEPT !.end = en, !.changed = TRUE, !.pending = pd, !.image = im]
  BY Zenon DEF Appended
<1> HIDE DEF pd, im, en
<1> QED
  BY <1>3, <1>4, <1>5, <1>6 DEF Batches, pd, im, en

(* Appending keeps a batch good: the pack is not touched. *)
LEMMA AppendedGood ==
  ASSUME NEW b \in Batches, NEW h \in Objects, b.end + Size[h] <= MaxPack,
         NEW c, NEW n, BatchGood(b, c, n)
  PROVE  BatchGood(Appended(b, h), c, n)
<1> DEFINE a == Appended(b, h)
           e == [off |-> b.end, len |-> Size[h]]
<1>1. /\ a \in Batches /\ a.start = b.start /\ a.flushed = b.flushed
      /\ a.end = b.end + Size[h] /\ a.changed = TRUE /\ a.dirty = b.dirty
      /\ a.pending = [b.pending EXCEPT ![h] = e]
      /\ a.image = [i \in Offsets |-> IF b.end < i /\ i <= b.end + Size[h]
                                      THEN Unit(h, i - b.end) ELSE b.image[i]]
  BY Zenon, AppendedFields
<1> HIDE DEF a
<1>2. /\ b.end \in Nat /\ b.end <= MaxPack /\ b.pending \in Index /\ MaxPack \in Nat
      /\ b.start \in Nat /\ b.flushed \in Nat /\ Size[h] \in Nat /\ Size[h] # 0
  BY SiloAssumption DEF Batches
<1>3. b.start <= b.flushed /\ b.flushed <= b.end /\ n = b.flushed /\ b.start <= b.end
  BY <1>2 DEF BatchGood
<1>4. b.end <= a.end /\ a.end \in Nat /\ a.flushed <= a.end
  BY <1>1, <1>2, <1>3
<1>5. ASSUME NEW i \in Offsets, i <= b.end
      PROVE  a.image[i] = b.image[i]
  <2>1. ~(b.end < i)
    BY <1>2, <1>5 DEF Offsets
  <2> QED
    BY Zenon, <1>1, <2>1
<1>6. Agree(b.image, a.image, b.end)
  <2>1. \A i \in 1..b.end : i \in Offsets /\ i <= b.end
    BY <1>2 DEF Offsets
  <2> QED
    BY Zenon, <1>5, <2>1 DEF Agree
<1>7. ASSUME NEW i \in Offsets, b.start < i, i <= b.flushed
      PROVE  c[i] = a.image[i]
  <2>1. i <= b.end
    BY <1>2, <1>3, <1>7 DEF Offsets
  <2> QED
    BY Zenon, <1>5, <1>7, <2>1 DEF BatchGood
<1>8. b.start <= e.off /\ Fits(e, h, a.image, a.end)
  <2>1. ASSUME NEW i \in 1..Size[h]
        PROVE  a.image[b.end + i] = Unit(h, i)
    <3>1. /\ b.end + i \in Offsets /\ b.end < b.end + i /\ b.end + i <= b.end + Size[h]
          /\ (b.end + i) - b.end = i
      BY <1>2 DEF Offsets
    <3> QED
      BY Zenon, <1>1, <3>1
  <2> QED
    BY <1>1, <1>2, <1>3, <2>1 DEF Fits, Holds
<1>9. ASSUME NEW x \in Objects, x # h, b.pending[x] # None
      PROVE  b.start <= b.pending[x].off /\ Fits(b.pending[x], x, a.image, a.end)
  <2>1. b.pending[x] \in Extents
    BY Zenon, <1>2, <1>9 DEF Index
  <2> QED
    BY Zenon, <1>2, <1>4, <1>6, <1>9, <2>1, FitsStable DEF BatchGood
<1>10. ASSUME NEW x \in Objects, a.pending[x] # None
       PROVE  a.start <= a.pending[x].off /\ Fits(a.pending[x], x, a.image, a.end)
  <2>1. CASE x = h
    <3>1. a.pending[x] = e
      BY Zenon, <1>1, <1>2, <2>1 DEF Index
    <3> QED
      BY Zenon, <1>1, <1>8, <2>1, <3>1
  <2>2. CASE x # h
    <3>1. a.pending[x] = b.pending[x]
      BY Zenon, <1>1, <1>2, <2>2 DEF Index
    <3> QED
      BY Zenon, <1>1, <1>9, <1>10, <2>2, <3>1
  <2> QED
    BY Zenon, <2>1, <2>2
<1>11. BatchGood(a, c, n)
  BY Zenon, <1>1, <1>3, <1>4, <1>7, <1>10 DEF BatchGood
<1> QED
  BY Zenon, <1>11 DEF a

(* pack_write_at writes behind the end of the pack, and keeps a batch good. *)
LEMMA WrittenGood ==
  ASSUME TypeOK, NEW b \in Batches, BatchGood(b, cell, size),
         NEW n \in Nat, b.flushed + n <= b.end
  PROVE  /\ Flushed(b, n) \in Batches /\ Flushed(b, n).start = b.start
         /\ Flushed(b, n).pending = b.pending /\ Flushed(b, n).end = b.end
         /\ Flushed(b, n).flushed = b.flushed + n
         /\ Flushed(b, n).dirty = (b.dirty \/ n > 0)
         /\ Flushed(b, n).changed = b.changed
         /\ BatchGood(Flushed(b, n), Written(b, n), b.flushed + n)
         /\ Written(b, n) \in [Offsets -> Units] /\ Agree(cell, Written(b, n), size)
         /\ b.flushed + n = IF n = 0 THEN size ELSE b.flushed + n
         /\ b.flushed + n \in 0..MaxPack /\ size <= b.flushed + n
<1> DEFINE a == Flushed(b, n)
           w == Written(b, n)
<1>1. /\ b.end \in Nat /\ b.end <= MaxPack /\ b.start \in Nat /\ b.flushed \in Nat
      /\ MaxPack \in Nat /\ b.image \in [Offsets -> Units] /\ cell \in [Offsets -> Units]
      /\ b.dirty \in BOOLEAN
  BY SiloAssumption DEF Batches, TypeOK
<1>2. /\ b.start <= b.flushed /\ b.flushed <= b.end /\ size = b.flushed
      /\ ~b.dirty => b.flushed = b.start
  BY Zenon DEF BatchGood
<1>3. /\ b.flushed + n \in 0..MaxPack /\ b.start <= b.flushed + n
      /\ size <= b.flushed + n
      /\ n = 0 => b.flushed + n = b.flushed
      /\ ~(n > 0) => n = 0
  BY <1>1, <1>2
<1>4. /\ a \in Batches /\ a.start = b.start /\ a.flushed = b.flushed + n
      /\ a.end = b.end /\ a.changed = b.changed /\ a.dirty = (b.dirty \/ n > 0)
      /\ a.pending = b.pending /\ a.image = b.image
  BY <1>1, <1>3 DEF Flushed, Batches
<1>5. w \in [Offsets -> Units]
  BY Zenon, <1>1 DEF Written
<1>6. ASSUME NEW i \in Offsets, i <= b.flushed
      PROVE  w[i] = cell[i]
  <2>1. ~(b.flushed < i)
    BY <1>1, <1>6 DEF Offsets
  <2> QED
    BY Zenon, <2>1 DEF Written
<1>7. Agree(cell, w, size)
  <2>1. \A i \in 1..size : i \in Offsets /\ i <= b.flushed
    BY <1>1, <1>2 DEF Offsets
  <2> QED
    BY Zenon, <1>6, <2>1 DEF Agree
<1>8. ASSUME NEW i \in Offsets, b.start < i, i <= b.flushed + n
      PROVE  w[i] = b.image[i]
  <2>1. CASE i <= b.flushed
    BY Zenon, <1>6, <1>8, <2>1 DEF BatchGood
  <2>2. CASE ~(i <= b.flushed)
    <3>1. b.flushed < i
      BY <1>1, <2>2 DEF Offsets
    <3> QED
      BY Zenon, <1>8, <3>1 DEF Written
  <2> QED
    BY Zenon, <2>1, <2>2
<1> HIDE DEF a, w
<1>9. BatchGood(a, w, b.flushed + n)
  <2>1. ~a.dirty => a.flushed = a.start
    BY Zenon, <1>2, <1>3, <1>4
  <2> QED
    BY Zenon, <1>3, <1>4, <1>8, <2>1 DEF BatchGood
<1>10. b.flushed + n = IF n = 0 THEN size ELSE b.flushed + n
  BY <1>1, <1>2
<1> QED
  BY Zenon, <1>3, <1>4, <1>5, <1>7, <1>9, <1>10 DEF a, w

-----------------------------------------------------------------------------
(* The steps of a job.                                                      *)

(* A job that runs is not the idle one. *)
LEMMA Running ==
  ASSUME NEW p \in Procs, proc[p].job.at # "idle"
  PROVE  proc[p].job # Idle
BY DEF Idle

(* The item is in the store already. *)
LEMMA PutPresentStep ==
  ASSUME SInv, NEW p \in Procs, NEW h \in Objects, PutPresent(p, h)
  PROVE  SInv'
<1> DEFINE j == [proc[p].job EXCEPT !.todo = @ \ {h}]
<1>1. proc[p].job # Idle /\ proc[p].job.at = "put"
  BY Zenon, Running DEF PutPresent
<1>2. /\ proc[p].job \in Jobs /\ JobGood(proc[p], db, cell, size, synced)
      /\ size = proc[p].job.batch.flushed
  BY Zenon, <1>1, HolderFacts
<1>3. /\ j \in Jobs /\ j.batch = proc[p].job.batch /\ j.todo = proc[p].job.todo \ {h}
      /\ j.items = proc[p].job.items /\ j.pin = proc[p].job.pin
      /\ j.at = proc[p].job.at /\ j.root = proc[p].job.root
  BY <1>2 DEF Jobs
<1>4. proc' = [proc EXCEPT ![p] = [proc[p] EXCEPT !.job = j]]
  BY Zenon DEF PutPresent
<1> HIDE DEF j
<1>5. /\ proc'[p].job = j /\ proc'[p].staged = proc[p].staged
      /\ proc'[p].canon = proc[p].canon
  BY Zenon, <1>3, <1>4, JobUpdate DEF SInv
<1>6. Handled(proc[p], db, h)
  BY Zenon DEF PutPresent, Contains, Find, Handled, Known
<1>7. \A x : Handled(proc[p], db, x) => Handled(proc'[p], db, x)
  BY Zenon, <1>3, <1>5 DEF Handled, Known
<1>8. JobGood(proc'[p], db, cell, size, synced)
  BY Zenon, <1>1, <1>2, <1>3, <1>5, <1>6, <1>7 DEF JobGood
<1>9. /\ cell \in [Offsets -> Units] /\ size \in 0..MaxPack /\ synced \in 0..size
      /\ synced <= synced
  BY DEF SInv, TypeOK
<1>10. Agree(cell, cell, size)
  BY Zenon DEF Agree
<1>11. /\ cell' = cell /\ size' = size /\ synced' = synced /\ db' = db /\ lock' = lock
  BY Zenon DEF PutPresent
<1> QED
  BY Zenon, <1>1, <1>3, <1>4, <1>8, <1>9, <1>10, <1>11, JobStep

(* pack_sync: what is staged and what the batch wrote is on the disk. *)
LEMMA SyncStep ==
  ASSUME SInv, NEW p \in Procs, Sync(p)
  PROVE  SInv'
<1> DEFINE j == [proc[p].job EXCEPT !.at = "sync"]
<1>1. proc[p].job # Idle /\ proc[p].job.at = "flush" /\ proc[p].job.root
  BY Zenon, Running DEF Sync
<1>2. /\ proc[p].job \in Jobs /\ JobGood(proc[p], db, cell, size, synced)
      /\ size = proc[p].job.batch.flushed
  BY Zenon, <1>1, HolderFacts
<1>3. /\ j \in Jobs /\ j.batch = proc[p].job.batch /\ j.todo = proc[p].job.todo
      /\ j.items = proc[p].job.items /\ j.pin = proc[p].job.pin
      /\ j.at = "sync" /\ j.root = proc[p].job.root
  BY <1>2 DEF Jobs
<1>4. proc' = [proc EXCEPT ![p] = [proc[p] EXCEPT !.job = j]]
  BY Zenon DEF Sync
<1> HIDE DEF j
<1>5. /\ proc'[p].job = j /\ proc'[p].staged = proc[p].staged
      /\ proc'[p].canon = proc[p].canon
  BY Zenon, <1>3, <1>4, JobUpdate DEF SInv
<1>6. /\ cell' = cell /\ size' = size /\ db' = db /\ lock' = lock
      /\ synced' = IF proc[p].job.batch.dirty \/ proc[p].staged # Empty
                   THEN size ELSE synced
  BY Zenon DEF Sync
<1>7. \A x : Handled(proc[p], db, x) => Handled(proc'[p], db, x)
  BY Zenon, <1>3, <1>5 DEF Handled, Known
<1>8. JobGood(proc'[p], db, cell, size, synced')
  BY Zenon, <1>1, <1>2, <1>3, <1>5, <1>6, <1>7 DEF JobGood
<1>9. /\ cell \in [Offsets -> Units] /\ size \in 0..MaxPack /\ synced' \in 0..size
      /\ synced <= synced'
  BY <1>6, SiloAssumption DEF SInv, TypeOK
<1>10. Agree(cell, cell, size)
  BY Zenon DEF Agree
<1> QED
  BY Zenon, <1>1, <1>3, <1>4, <1>6, <1>8, <1>9, <1>10, JobStep

(* A full buffer leaves a part of the batch behind. *)
LEMMA OverflowBound ==
  ASSUME NEW b \in Batches, b.flushed <= b.end, NEW n \in 0..MaxPack, Overflow(b, n)
  PROVE  n \in Nat /\ b.flushed + n <= b.end
<1>1. b.flushed \in Nat /\ b.end \in Nat /\ MaxPack \in Nat /\ PackBuffer \in Nat
  BY SiloAssumption DEF Batches
<1> QED
  BY <1>1 DEF Overflow

(* batch_append, and the writes of the buffers it fills. *)
LEMMA PutStep ==
  ASSUME SInv, NEW p \in Procs, NEW h \in Objects, Put(p, h)
  PROVE  SInv'
<1> DEFINE b == proc[p].job.batch
           a == Appended(b, h)
<1>1. proc[p].job # Idle /\ proc[p].job.at = "put"
  BY Zenon, Running DEF Put
<1>2. /\ proc[p].job \in Jobs /\ JobGood(proc[p], db, cell, size, synced)
      /\ BatchGood(b, cell, size)
  BY Zenon, <1>1, HolderFacts DEF JobGood
<1>3. b \in Batches /\ b.end + Size[h] <= MaxPack /\ b.pending \in Index
  BY Zenon, <1>2, JobType DEF Put
<1>4. /\ a \in Batches /\ a.start = b.start
      /\ a.pending = [b.pending EXCEPT ![h] = [off |-> b.end, len |-> Size[h]]]
  BY Zenon, <1>3, AppendedFields
<1>5. BatchGood(a, cell, size)
  BY Zenon, <1>2, <1>3, AppendedGood
<1>6. PICK n \in 0..MaxPack :
        /\ Overflow(a, n) /\ cell' = Written(a, n)
        /\ size' = IF n = 0 THEN size ELSE a.flushed + n
        /\ proc' = [proc EXCEPT ![p] = [proc[p] EXCEPT !.job =
                      [proc[p].job EXCEPT !.todo = @ \ {h}, !.batch = Flushed(a, n)]]]
  BY Zenon DEF Put
<1> HIDE DEF a
<1>7. n \in Nat /\ a.flushed + n <= a.end
  BY Zenon, <1>4, <1>5, <1>6, OverflowBound DEF BatchGood
<1> DEFINE f == Flushed(a, n)
<1>8. /\ f \in Batches /\ f.start = b.start /\ f.pending = a.pending
      /\ BatchGood(f, cell', size') /\ cell' \in [Offsets -> Units]
      /\ Agree(cell, cell', size) /\ size' \in 0..MaxPack /\ size <= size'
  <2>1. size' = a.flushed + n
    BY Zenon, <1>4, <1>5, <1>6, <1>7, WrittenGood DEF SInv
  <2> QED
    BY Zenon, <1>4, <1>5, <1>6, <1>7, <2>1, WrittenGood DEF SInv
<1> HIDE DEF f
<1> DEFINE j == [proc[p].job EXCEPT !.todo = @ \ {h}, !.batch = f]
<1>9. /\ j \in Jobs /\ j.batch = f /\ j.todo = proc[p].job.todo \ {h}
      /\ j.items = proc[p].job.items /\ j.pin = proc[p].job.pin
      /\ j.at = proc[p].job.at /\ j.root = proc[p].job.root
  BY <1>2, <1>8 DEF Jobs
<1>10. proc' = [proc EXCEPT ![p] = [proc[p] EXCEPT !.job = j]]
  BY Zenon, <1>6 DEF f
<1> HIDE DEF j
<1>11. /\ proc'[p].job = j /\ proc'[p].staged = proc[p].staged
       /\ proc'[p].canon = proc[p].canon
  BY Zenon, <1>9, <1>10, JobUpdate DEF SInv
<1>12. /\ f.pending[h] # None
       /\ \A x \in Objects \ {h} : f.pending[x] = b.pending[x]
  <2>1. [off |-> b.end, len |-> Size[h]] # None
    <3>1. b.end \in Nat /\ Size[h] \in Nat
      BY Zenon, <1>2, JobType, SiloAssumption
    <3> QED
      BY <3>1, SiloAssumption
  <2> QED
    BY Zenon, <1>3, <1>4, <1>8, <2>1 DEF Index
<1>13. /\ Handled(proc'[p], db, h)
       /\ \A x \in Objects : Handled(proc[p], db, x) => Handled(proc'[p], db, x)
  BY Zenon, <1>9, <1>11, <1>12 DEF Handled, Known
<1>14. \A s \in Sub[h] : Handled(proc[p], db, s)
  <2>1. /\ h \in proc[p].job.items /\ Sub[h] \subseteq proc[p].job.items \cup proc[p].canon
        /\ \A x \in proc[p].job.items \ proc[p].job.todo : Handled(proc[p], db, x)
        /\ Sub[h] \cap proc[p].job.todo = {}
    BY Zenon, <1>2 DEF Put, Ready, JobGood
  <2>2. \A x \in proc[p].canon : Handled(proc[p], db, x)
    BY Zenon DEF SInv, MemoryGood, Handled
  <2> QED
    BY Zenon, <2>1, <2>2
<1>15. JobGood(proc'[p], db, cell', size', synced)
  <2>1. /\ BatchGood(j.batch, cell', size') /\ j.todo \subseteq j.items /\ j.at = "put"
        /\ \A x \in j.items : Sub[x] \subseteq j.items \cup proc'[p].canon
        /\ j.pin \in j.items \cup proc'[p].canon
    BY Zenon, <1>1, <1>2, <1>8, <1>9, <1>11 DEF JobGood
  <2>2. \A x \in j.items \ j.todo : Handled(proc'[p], db, x)
    BY Zenon, <1>2, <1>9, <1>13, JobType DEF JobGood
  <2>3. ASSUME NEW x \in Objects, j.batch.pending[x] # None, NEW s \in Sub[x]
        PROVE  Handled(proc'[p], db, s)
    <3>1. Handled(proc[p], db, s)
      BY Zenon, <1>2, <1>9, <1>12, <1>14, <2>3 DEF JobGood
    <3> QED
      BY Zenon, <1>13, <3>1, SiloAssumption
  <2> QED
    BY Zenon, <1>11, <2>1, <2>2, <2>3 DEF JobGood
<1>16. synced \in 0..size' /\ synced <= synced
  BY <1>8, SiloAssumption DEF SInv, TypeOK
<1>17. synced' = synced /\ db' = db /\ lock' = lock
  BY Zenon DEF Put
<1> QED
  BY Zenon, <1>1, <1>8, <1>9, <1>10, <1>15, <1>16, <1>17, JobStep

(* batch_flush writes the rest of the batch. *)
LEMMA FlushStep ==
  ASSUME SInv, NEW p \in Procs, Flush(p)
  PROVE  SInv'
<1> DEFINE b == proc[p].job.batch
           n == b.end - b.flushed
           f == Flushed(b, n)
           j == [proc[p].job EXCEPT !.batch = f, !.at = "flush"]
<1>1. proc[p].job # Idle /\ proc[p].job.at = "put" /\ proc[p].job.todo = {}
  BY Zenon, Running DEF Flush, Committing
<1>2. /\ proc[p].job \in Jobs /\ JobGood(proc[p], db, cell, size, synced)
      /\ BatchGood(b, cell, size) /\ b \in Batches
  BY Zenon, <1>1, HolderFacts, JobType DEF JobGood
<1>3. n \in Nat /\ b.flushed + n <= b.end /\ b.flushed + n = b.end
  <2>1. b.flushed \in Nat /\ b.end \in Nat /\ b.flushed <= b.end
    BY Zenon, <1>2, JobType DEF BatchGood
  <2> QED
    BY <2>1
<1>4. /\ cell' = Written(b, n) /\ size' = IF n = 0 THEN size ELSE b.end
      /\ proc' = [proc EXCEPT ![p] = [proc[p] EXCEPT !.job = j]]
      /\ synced' = synced /\ db' = db /\ lock' = lock
  BY Zenon DEF Flush
<1> HIDE DEF n, f
<1>7. /\ f \in Batches /\ f.start = b.start /\ f.pending = b.pending
      /\ f.flushed = b.end /\ f.end = b.end
      /\ BatchGood(f, cell', size') /\ cell' \in [Offsets -> Units]
      /\ Agree(cell, cell', size) /\ size' \in 0..MaxPack /\ size <= size'
  <2>1. size' = b.flushed + n
    BY Zenon, <1>2, <1>3, <1>4, WrittenGood DEF SInv, f
  <2> QED
    BY Zenon, <1>2, <1>3, <1>4, <2>1, WrittenGood DEF SInv, f
<1>8. /\ j \in Jobs /\ j.batch = f /\ j.todo = proc[p].job.todo
      /\ j.items = proc[p].job.items /\ j.pin = proc[p].job.pin
      /\ j.at = "flush" /\ j.root = proc[p].job.root
  BY <1>2, <1>7 DEF Jobs
<1> HIDE DEF j
<1>9. /\ proc'[p].job = j /\ proc'[p].staged = proc[p].staged
      /\ proc'[p].canon = proc[p].canon
  BY Zenon, <1>4, <1>8, JobUpdate DEF SInv
<1>10. \A x : Handled(proc[p], db, x) => Handled(proc'[p], db, x)
  BY Zenon, <1>7, <1>8, <1>9 DEF Handled, Known
<1>11. JobGood(proc'[p], db, cell', size', synced)
  BY Zenon, <1>1, <1>2, <1>7, <1>8, <1>9, <1>10 DEF JobGood
<1>12. synced \in 0..size' /\ synced <= synced
  BY <1>7, SiloAssumption DEF SInv, TypeOK
<1> QED
  BY Zenon, <1>1, <1>4, <1>7, <1>8, <1>11, <1>12, JobStep

(* batch_begin takes the transaction at the end of the pack. *)
LEMMA BeginStep ==
  ASSUME SInv, NEW p \in Procs, NEW h \in Objects, NEW items \in SUBSET Objects,
         NEW root \in BOOLEAN, NEW key \in Keys \cup {None}, Begin(p, h, items, root, key)
  PROVE  SInv'
<1> DEFINE j == [at |-> "put", pin |-> h, root |-> root, key |-> key,
                 items |-> items, todo |-> items, batch |-> NewBatch]
           im == [i \in Offsets |-> Junk]
<1>1. /\ lock = None /\ lock' = p /\ proc[p].job = Idle
      /\ proc' = [proc EXCEPT ![p] = [proc[p] EXCEPT !.job = j]]
      /\ cell' = cell /\ size' = size /\ synced' = synced /\ db' = db
  BY Zenon DEF Begin
<1>2. Empty \in Index /\ im \in [Offsets -> Units] /\ size \in 0..MaxPack
  <2>1. Junk \in Units
    BY SiloAssumption DEF Junk, Units
  <2> QED
    BY Zenon, <2>1 DEF Empty, Index, SInv, TypeOK
<1>3. NewBatch = [start |-> size, flushed |-> size, end |-> size, changed |-> FALSE,
                  dirty |-> FALSE, pending |-> Empty, image |-> im]
  BY Zenon DEF NewBatch
<1> HIDE DEF im
<1>4. /\ NewBatch \in Batches /\ NewBatch.start = size /\ NewBatch.flushed = size
      /\ NewBatch.end = size /\ NewBatch.pending = Empty
  BY <1>2, <1>3 DEF Batches
<1>5. j \in Jobs
  BY <1>4 DEF Jobs
<1>6. /\ j.at = "put" /\ j.pin = h /\ j.items = items /\ j.todo = items /\ j.batch = NewBatch
  OBVIOUS
<1> HIDE DEF j
<1>7. /\ proc' \in [Procs -> Processes] /\ proc'[p].job = j /\ proc'[p] \in Processes
      /\ proc'[p].staged = proc[p].staged /\ proc'[p].kv = proc[p].kv
      /\ proc'[p].canon = proc[p].canon
      /\ \A q \in Procs \ {p} : proc'[q] = proc[q]
  BY Zenon, <1>1, <1>5, JobUpdate DEF SInv
<1>8. p # None
  BY Zenon, SiloAssumption
<1>9. Base' = size /\ Base = size
  BY Zenon, <1>1, <1>4, <1>6, <1>7, <1>8 DEF Base
<1>10. TypeOK'
  BY Zenon, <1>1, <1>7 DEF SInv, TypeOK
<1>11. LockOwner'
  <2>1. j # Idle /\ \A q \in Procs : q # None /\ proc[q].job = Idle
    BY Zenon, <1>1, <1>5, IdleIsNoJob, SiloAssumption DEF SInv, LockOwner
  <2> QED
    BY Zenon, <1>1, <1>7, <2>1 DEF LockOwner
<1>12. \A q \in Procs : MemoryGood(proc'[q], db, cell, size)
  BY Zenon, <1>7, <1>9, MemorySame DEF SInv
<1>13. BatchGood(NewBatch, cell, size)
  <2>1. size <= size /\ \A i \in Offsets : ~(size < i /\ i <= size)
    BY <1>2, SiloAssumption DEF Offsets
  <2>2. \A x \in Objects : Empty[x] = None
    BY Zenon DEF Empty
  <2> QED
    BY Zenon, <1>4, <2>1, <2>2 DEF BatchGood
<1>14. JobGood(proc'[p], db, cell, size, synced)
  <2>1. \A x \in Objects : Empty[x] = None
    BY Zenon DEF Empty
  <2>2. /\ h \in items \cup proc[p].canon
        /\ \A x \in items : Sub[x] \subseteq items \cup proc[p].canon
    BY Zenon DEF Begin, Discovers
  <2> QED
    BY Zenon, <1>4, <1>6, <1>7, <1>13, <2>1, <2>2 DEF JobGood
<1>15. JournalTellsRoots'
  BY Zenon, <1>1 DEF SInv, JournalTellsRoots
<1> QED
  BY Zenon, <1>1, <1>9, <1>10, <1>11, <1>12, <1>14, <1>15 DEF SInv

-----------------------------------------------------------------------------
(* The ends of a job.                                                       *)

(* The process lets the transaction go, and the pack stays. *)
LEMMA DoneStep ==
  ASSUME SInv, NEW p \in Procs, proc[p].job # Idle, NEW pr \in Processes, pr.job = Idle,
         proc' = [proc EXCEPT ![p] = pr], lock' = None, cell' = cell, size' = size,
         synced' = synced, db' \in Databases,
         \A h \in Objects : db.objects[h] # None => db'.objects[h] # None,
         DbGood(db', cell, synced), MemoryGood(pr, db', cell, size), JournalTellsRoots'
  PROVE  SInv'
<1>1. /\ lock = p /\ \A q \in Procs \ {p} : proc[q].job = Idle
  BY Zenon, HolderFacts
<1>2. proc \in [Procs -> Processes]
  BY Zenon DEF SInv, TypeOK
<1>3. /\ proc' \in [Procs -> Processes] /\ proc'[p] = pr
      /\ \A q \in Procs \ {p} : proc'[q] = proc[q] /\ proc[q] \in Processes
  BY Zenon, <1>2
<1>4. TypeOK'
  BY Zenon, <1>3 DEF SInv, TypeOK
<1>5. LockOwner'
  BY Zenon, <1>1, <1>3, SiloAssumption DEF LockOwner
<1>6. Base' = size
  BY Zenon DEF Base
<1>7. /\ size \in Nat /\ synced \in Nat /\ synced <= size /\ Base \in Nat /\ Base <= size
  BY Zenon, BaseFacts
<1>8. Agree(cell, cell, synced) /\ Agree(cell, cell, Base)
  BY Zenon DEF Agree
<1>9. DbGood(db', cell, size)
  BY Zenon, <1>7, <1>8, DbStable
<1>10. ASSUME NEW q \in Procs
       PROVE  MemoryGood(proc'[q], db', cell, size)
  <2>1. CASE q = p
    BY Zenon, <1>3, <2>1
  <2>2. CASE q # p
    BY Zenon, <1>3, <1>7, <1>8, <2>2, MemoryStable DEF SInv
  <2> QED
    BY Zenon, <2>1, <2>2
<1> QED
  BY Zenon, <1>4, <1>5, <1>6, <1>9, <1>10 DEF SInv

(* What a job has dealt with, and what it makes canonical. *)
LEMMA JobCloses ==
  ASSUME SInv, NEW p \in Procs, proc[p].job # Idle, proc[p].job.todo = {}
  PROVE  /\ \A x \in proc[p].canon \cup proc[p].job.items :
               /\ Handled(proc[p], db, x)
               /\ Sub[x] \subseteq proc[p].canon \cup proc[p].job.items
         /\ Handled(proc[p], db, proc[p].job.pin)
         /\ \A k \in Keys : proc[p].kv[k] # None => Handled(proc[p], db, proc[p].kv[k])
         /\ \A x \in Objects : Handled(proc[p], db, x) =>
               \A s \in Sub[x] : Handled(proc[p], db, s)
<1>1. JobGood(proc[p], db, cell, size, synced) /\ MemoryGood(proc[p], db, cell, Base)
  BY Zenon, HolderFacts DEF SInv
<1>2. \A x : Known(proc[p], db, x) => Handled(proc[p], db, x)
  BY Zenon DEF Handled
<1>3. \A x \in proc[p].canon : Handled(proc[p], db, x) /\ Sub[x] \subseteq proc[p].canon
  BY Zenon, <1>1, <1>2 DEF MemoryGood
<1>4. \A x \in proc[p].job.items : /\ Handled(proc[p], db, x)
                                   /\ Sub[x] \subseteq proc[p].canon \cup proc[p].job.items
  BY Zenon, <1>1 DEF JobGood
<1>5. proc[p].job.pin \in proc[p].canon \cup proc[p].job.items
  BY Zenon, <1>1 DEF JobGood
<1>6. ASSUME NEW x \in Objects, Handled(proc[p], db, x), NEW s \in Sub[x]
      PROVE  Handled(proc[p], db, s)
  <2>1. CASE proc[p].job.batch.pending[x] # None
    BY Zenon, <1>1, <2>1 DEF JobGood
  <2>2. CASE proc[p].staged[x] # None
    BY Zenon, <1>1, <1>2, <2>2 DEF MemoryGood
  <2>3. CASE db.objects[x] # None
    BY Zenon, <1>2, <2>3 DEF SInv, DbGood, Known
  <2> QED
    BY Zenon, <1>6, <2>1, <2>2, <2>3 DEF Handled, Known
<1>7. \A k \in Keys : proc[p].kv[k] # None => Handled(proc[p], db, proc[p].kv[k])
  BY Zenon, <1>1, <1>2 DEF MemoryGood
<1> QED
  BY Zenon, <1>3, <1>4, <1>5, <1>6, <1>7

(* The extents of a batch that is written hold their streams. *)
LEMMA PendingFits ==
  ASSUME SInv, NEW p \in Procs, proc[p].job # Idle,
         proc[p].job.batch.flushed = proc[p].job.batch.end,
         NEW h \in Objects, proc[p].job.batch.pending[h] # None
  PROVE  /\ Fits(proc[p].job.batch.pending[h], h, cell, size)
         /\ proc[p].job.batch.dirty /\ proc[p].job.batch.pending[h] \in Extents
<1> DEFINE b == proc[p].job.batch
           e == b.pending[h]
<1>1. /\ proc[p].job \in Jobs /\ BatchGood(b, cell, size) /\ size = b.flushed
  BY Zenon, HolderFacts DEF JobGood
<1>2. /\ b.start \in Nat /\ b.end \in Nat /\ b.end <= MaxPack /\ MaxPack \in Nat
      /\ b.pending \in Index
  BY <1>1, JobType, SiloAssumption
<1>3. e \in Extents
  BY Zenon, <1>2 DEF Index
<1>4. /\ e.off \in Nat /\ e.len \in Nat /\ 1 <= e.len
  BY Zenon, <1>3, ExtentType
<1>5. /\ b.start <= e.off /\ e.off + e.len <= b.end /\ e.len = Size[h]
      /\ \A i \in 1..e.len : b.image[e.off + i] = Unit(h, i)
  BY Zenon, <1>1 DEF BatchGood, Fits, Holds
<1>8. /\ \A i \in Offsets : b.start < i /\ i <= b.flushed => cell[i] = b.image[i]
      /\ ~b.dirty => b.flushed = b.start
      /\ b.flushed = b.end
  BY <1>1 DEF BatchGood
<1> HIDE DEF b, e
<1>6. ASSUME NEW i \in 1..e.len
      PROVE  cell[e.off + i] = Unit(h, i)
  <2>1. e.off + i \in Offsets /\ b.start < e.off + i /\ e.off + i <= b.flushed
    BY <1>2, <1>4, <1>5, <1>8 DEF Offsets
  <2> QED
    BY Zenon, <1>5, <1>8, <2>1
<1>7. b.dirty
  <2>1. b.flushed # b.start
    BY <1>2, <1>4, <1>5, <1>8
  <2> QED
    BY Zenon, <1>8, <2>1
<1> QED
  BY Zenon, <1>1, <1>3, <1>5, <1>6, <1>7, <1>8 DEF Fits, Holds, b, e

(* The process once its job is done. *)
LEMMA FinishedFields ==
  ASSUME TypeOK, NEW p \in Procs, proc[p].job \in Jobs
  PROVE  LET fp == Finished(proc[p])
         IN /\ fp \in Processes /\ fp.job = Idle
            /\ fp.canon = proc[p].canon \cup proc[p].job.items
            /\ fp.staged = proc[p].staged /\ fp.kv = proc[p].kv
<1> DEFINE cs == proc[p].canon \cup proc[p].job.items
<1>1. proc[p] \in Processes /\ cs \in SUBSET Objects
  BY Zenon, ProcessType, JobType
<1>2. Finished(proc[p]) = [proc[p] EXCEPT !.job = Idle, !.canon = cs]
  BY Zenon DEF Finished
<1> HIDE DEF cs
<1> QED
  BY <1>1, <1>2 DEF Processes, cs

(* A Save that finds nothing new. *)
LEMMA CommitUnchangedStep ==
  ASSUME SInv, NEW p \in Procs, CommitUnchanged(p)
  PROVE  SInv'
<1> DEFINE pr == Finished(proc[p])
<1>1. /\ proc[p].job # Idle /\ proc[p].job.todo = {} /\ ~proc[p].job.batch.changed
  BY Zenon, Running DEF CommitUnchanged, Committing, Unchanged
<1>2. /\ proc[p].job \in Jobs /\ proc[p].staged \in Index
      /\ proc[p].kv \in [Keys -> Objects \cup {None}]
  BY Zenon, <1>1, ProcessType DEF SInv
<1>3. /\ pr \in Processes /\ pr.job = Idle /\ pr.canon = proc[p].canon \cup proc[p].job.items
      /\ pr.staged = proc[p].staged /\ pr.kv = proc[p].kv
  BY Zenon, <1>2, FinishedFields DEF SInv
<1>4. proc' = [proc EXCEPT ![p] = pr]
  BY Zenon DEF CommitUnchanged
<1> HIDE DEF pr
<1>5. proc[p].job.batch.pending = Empty
  BY Zenon, <1>1, HolderFacts DEF JobGood, BatchGood
<1>6. \A x \in Objects : Handled(proc[p], db, x) => Known(pr, db, x)
  BY Zenon, <1>3, <1>5 DEF Handled, Known, Empty
<1>7. MemoryGood(pr, db, cell, size)
  <2>1. MemoryGood(proc[p], db, cell, size)
    <3>1. Base \in Nat /\ size \in Nat /\ Base <= size
      BY Zenon, BaseFacts
    <3>2. Agree(cell, cell, Base)
      BY Zenon DEF Agree
    <3> QED
      BY Zenon, <3>1, <3>2, MemoryStable, ProcessType DEF SInv
  <2>2. \A x \in pr.canon : x \in Objects /\ Known(pr, db, x) /\ Sub[x] \subseteq pr.canon
    BY Zenon, <1>1, <1>2, <1>3, <1>6, JobCloses, ProcessType, JobType DEF SInv
  <2> QED
    BY Zenon, <1>3, <2>1, <2>2 DEF MemoryGood, Known
<1>8. /\ cell' = cell /\ size' = size /\ synced' = synced /\ db' = db /\ lock' = None
  BY Zenon DEF CommitUnchanged
<1>9. JournalTellsRoots'
  BY Zenon, <1>8 DEF SInv, JournalTellsRoots
<1>10. db \in Databases /\ DbGood(db, cell, synced)
  BY Zenon DEF SInv, TypeOK
<1> QED
  BY Zenon, <1>1, <1>3, <1>4, <1>7, <1>8, <1>9, <1>10, DoneStep

(* Ice keeps the extents, and the compiler its cache entry. *)
LEMMA StageStep ==
  ASSUME SInv, NEW p \in Procs, Stage(p)
  PROVE  SInv'
<1> DEFINE st == Staged(proc[p])
           kv == Cached(proc[p])
           pr == [Finished(proc[p]) EXCEPT !.staged = st, !.kv = kv]
           b == proc[p].job.batch
<1>1. proc[p].job # Idle /\ proc[p].job.at = "flush"
  BY Zenon, Running DEF Stage
<1>2. /\ proc[p].job \in Jobs /\ proc[p].staged \in Index
      /\ proc[p].kv \in [Keys -> Objects \cup {None}]
      /\ proc[p].job.pin \in Objects /\ b.pending \in Index
      /\ proc[p].canon \subseteq Objects /\ proc[p].job.items \subseteq Objects
  BY Zenon, <1>1, ProcessType, JobType DEF SInv
<1>3. proc[p].job.todo = {} /\ b.flushed = b.end
  BY Zenon, <1>1, HolderFacts DEF JobGood
<1>4. st \in Index /\ kv \in [Keys -> Objects \cup {None}]
  BY Zenon, <1>2 DEF Staged, Cached, Index
<1> HIDE DEF st, kv
<1>5. /\ pr \in Processes /\ pr.job = Idle /\ pr.staged = st /\ pr.kv = kv
      /\ pr.canon = proc[p].canon \cup proc[p].job.items
  <2>1. TypeOK
    BY Zenon DEF SInv
  <2> DEFINE fp == Finished(proc[p])
  <2>2. /\ fp \in Processes /\ fp.job = Idle
        /\ fp.canon = proc[p].canon \cup proc[p].job.items
    BY Zenon, <1>2, <2>1, FinishedFields
  <2>3. pr = [fp EXCEPT !.staged = st, !.kv = kv]
    BY Zenon
  <2> HIDE DEF fp, pr
  <2>4. /\ pr \in Processes /\ pr.job = fp.job /\ pr.canon = fp.canon
        /\ pr.staged = st /\ pr.kv = kv
    BY <1>4, <2>2, <2>3 DEF Processes
  <2> QED
    BY Zenon, <2>2, <2>4
<1> USE DEF st, kv
<1>6. proc' = [proc EXCEPT ![p] = pr]
  BY Zenon DEF Stage
<1> HIDE DEF pr
<1>7. \A x \in Objects : Handled(proc[p], db, x) => Known(pr, db, x)
  BY Zenon, <1>5 DEF Handled, Known, Staged
<1>8. ASSUME NEW h \in Objects, st[h] # None
      PROVE  Fits(st[h], h, cell, size) /\ \A s \in Sub[h] : Known(pr, db, s)
  <2>1. Handled(proc[p], db, h)
    BY Zenon, <1>8 DEF Handled, Known, Staged
  <2>2. \A s \in Sub[h] : Known(pr, db, s)
    BY Zenon, <1>1, <1>3, <1>7, <2>1, JobCloses, SiloAssumption
  <2>3. CASE b.pending[h] # None
    BY Zenon, <1>1, <1>3, <2>2, <2>3, PendingFits DEF Staged
  <2>4. CASE b.pending[h] = None
    <3>1. st[h] = proc[p].staged[h] /\ Fits(st[h], h, cell, Base) /\ st[h] \in Extents
      BY Zenon, <1>2, <1>8, <2>4 DEF Staged, SInv, MemoryGood, Index
    <3>2. Base \in Nat /\ size \in Nat /\ Base <= size /\ Agree(cell, cell, Base)
      BY Zenon, BaseFacts DEF Agree
    <3> QED
      BY Zenon, <2>2, <3>1, <3>2, FitsStable
  <2> QED
    BY Zenon, <2>3, <2>4
<1>9. MemoryGood(pr, db, cell, size)
  <2>1. \A x \in pr.canon : x \in Objects /\ Known(pr, db, x) /\ Sub[x] \subseteq pr.canon
    BY Zenon, <1>1, <1>2, <1>3, <1>5, <1>7, JobCloses
  <2>2. \A k \in Keys : pr.kv[k] # None => Known(pr, db, pr.kv[k])
    BY Zenon, <1>1, <1>2, <1>3, <1>5, <1>7, JobCloses DEF Cached
  <2> QED
    BY Zenon, <1>5, <1>8, <2>1, <2>2 DEF MemoryGood
<1>10. /\ cell' = cell /\ size' = size /\ synced' = synced /\ db' = db /\ lock' = None
  BY Zenon DEF Stage
<1>11. JournalTellsRoots'
  BY Zenon, <1>10 DEF SInv, JournalTellsRoots
<1>12. db \in Databases /\ DbGood(db, cell, synced)
  BY Zenon DEF SInv, TypeOK
<1> QED
  BY Zenon, <1>1, <1>5, <1>6, <1>9, <1>10, <1>11, <1>12, DoneStep

(* What one transaction publishes is on the disk and closed. *)
LEMMA PublishedGood ==
  ASSUME SInv, NEW p \in Procs, Publish(p)
  PROVE  /\ Indexed(p) \in Index
         /\ \A h \in Objects : db.objects[h] # None => Indexed(p)[h] = db.objects[h]
         /\ \A h \in Objects : Handled(proc[p], db, h) <=> Indexed(p)[h] # None
         /\ \A h \in Objects : Indexed(p)[h] # None =>
               /\ Fits(Indexed(p)[h], h, cell, synced)
               /\ \A s \in Sub[h] : Indexed(p)[s] # None
<1> DEFINE b == proc[p].job.batch
           ix == Indexed(p)
<1>1. proc[p].job # Idle /\ proc[p].job.at = "sync"
  BY Zenon, Running DEF Publish
<1>2. /\ proc[p].staged \in Index /\ b.pending \in Index /\ db.objects \in Index
      /\ db \in Databases
  BY Zenon, <1>1, ProcessType, JobType DEF SInv, TypeOK, Databases
<1>3. /\ b.flushed = b.end /\ proc[p].job.todo = {}
      /\ b.dirty \/ proc[p].staged # Empty => synced = size
  BY Zenon, <1>1, HolderFacts DEF JobGood
<1>4. /\ ix \in Index
      /\ \A h \in Objects : db.objects[h] # None => ix[h] = db.objects[h]
      /\ \A h \in Objects : db.objects[h] = None /\ proc[p].staged[h] # None =>
                               ix[h] = proc[p].staged[h]
      /\ \A h \in Objects : db.objects[h] = None /\ proc[p].staged[h] = None =>
                               ix[h] = b.pending[h]
  BY Zenon, <1>2 DEF Indexed, Index
<1> HIDE DEF ix
<1>5. \A h \in Objects : Handled(proc[p], db, h) <=> ix[h] # None
  BY Zenon, <1>4 DEF Handled, Known
<1>6. ASSUME NEW h \in Objects, ix[h] # None
      PROVE  Fits(ix[h], h, cell, synced)
  <2>1. CASE db.objects[h] # None
    BY Zenon, <1>4, <2>1 DEF SInv, DbGood
  <2>2. CASE db.objects[h] = None /\ proc[p].staged[h] # None
    <3>1. synced = size
      BY Zenon, <1>3, <2>2 DEF Empty
    <3>2. Fits(ix[h], h, cell, Base) /\ ix[h] \in Extents
      BY Zenon, <1>2, <1>4, <2>2 DEF SInv, MemoryGood, Index
    <3>3. Base \in Nat /\ size \in Nat /\ Base <= size /\ Agree(cell, cell, Base)
      BY Zenon, BaseFacts DEF Agree
    <3> QED
      BY Zenon, <3>1, <3>2, <3>3, FitsStable
  <2>3. CASE db.objects[h] = None /\ proc[p].staged[h] = None
    BY Zenon, <1>1, <1>3, <1>4, <1>6, <2>3, PendingFits
  <2> QED
    BY Zenon, <2>1, <2>2, <2>3
<1>7. ASSUME NEW h \in Objects, ix[h] # None, NEW s \in Sub[h]
      PROVE  ix[s] # None
  <2>1. s \in Objects
    BY Zenon, SiloAssumption
  <2> QED
    BY Zenon, <1>1, <1>3, <1>5, <1>7, <2>1, JobCloses
<1> QED
  BY Zenon, <1>4, <1>5, <1>6, <1>7 DEF ix

(* The fields of the database afterwards. *)
LEMMA PublishedFields ==
  ASSUME SInv, NEW p \in Procs, Publish(p)
  PROVE  /\ db' \in Databases /\ db'.objects = Indexed(p) /\ db'.root = proc[p].job.pin
         /\ db'.roots = IF db.root # proc[p].job.pin THEN Journaled(p) ELSE db.roots
         /\ db'.codecache = [k \in Keys |-> IF proc[p].kv[k] # None
                                            THEN proc[p].kv[k] ELSE db.codecache[k]]
<1> DEFINE cc == [k \in Keys |-> IF proc[p].kv[k] # None
                                 THEN proc[p].kv[k] ELSE db.codecache[k]]
           rr == IF db.root # proc[p].job.pin THEN Journaled(p) ELSE db.roots
           ix == Indexed(p)
           pin == proc[p].job.pin
<1>1. proc[p].job # Idle
  BY Zenon, Running DEF Publish
<1>2. /\ proc[p].job \in Jobs /\ pin \in Objects /\ proc[p].job.batch.end \in 0..MaxPack
      /\ proc[p].kv \in [Keys -> Objects \cup {None}]
  BY Zenon, <1>1, HolderFacts, JobType, ProcessType DEF SInv
<1>3. /\ db \in Databases /\ db.codecache \in [Keys -> Objects \cup {None}]
      /\ db.roots \in Seq([hash : Objects, pack : 0..MaxPack])
  BY Zenon DEF SInv, TypeOK, Databases
<1>4. ix \in Index
  BY Zenon, PublishedGood
<1>5. cc \in [Keys -> Objects \cup {None}]
  BY Zenon, <1>2, <1>3
<1>6. rr \in Seq([hash : Objects, pack : 0..MaxPack])
  <2> DEFINE S == [hash : Objects, pack : 0..MaxPack]
             e == [hash |-> pin, pack |-> proc[p].job.batch.end]
  <2>1. e \in S
    BY <1>2
  <2>2. Journaled(p) = Append(db.roots, e)
    BY Zenon DEF Journaled
  <2> HIDE DEF S, e
  <2>3. db.roots \in Seq(S)
    BY Zenon, <1>3 DEF S
  <2>4. Append(db.roots, e) \in Seq(S)
    BY <2>1, <2>3
  <2> QED
    BY Zenon, <2>2, <2>3, <2>4 DEF S
<1>7. db' = [db EXCEPT !.objects = ix, !.codecache = cc, !.root = pin, !.roots = rr]
  BY Zenon DEF Publish, Published
<1> HIDE DEF cc, rr, ix, pin
<1>8. /\ db' \in Databases /\ db'.objects = ix /\ db'.root = pin
      /\ db'.roots = rr /\ db'.codecache = cc
  BY <1>2, <1>3, <1>4, <1>5, <1>6, <1>7 DEF Databases
<1> QED
  BY Zenon, <1>8 DEF cc, rr, ix, pin

(* The journal goes on with the root. *)
LEMMA JournalContinues ==
  ASSUME SInv, NEW p \in Procs, Publish(p)
  PROVE  JournalTellsRoots'
<1> DEFINE pin == proc[p].job.pin
           end == proc[p].job.batch.end
           S == [hash : Objects, pack : 0..MaxPack]
           e == [hash |-> pin, pack |-> end]
           Below(o, h, n) == o[h] # None /\ o[h].off + o[h].len <= n
           Closure(o, r) == \E C \in SUBSET Objects :
                               /\ r.hash \in C
                               /\ \A h \in C : Below(o, h, r.pack) /\ Sub[h] \subseteq C
<1>1. proc[p].job # Idle /\ proc[p].job.at = "sync"
  BY Zenon, Running DEF Publish
<1>2. /\ proc[p].job \in Jobs /\ pin \in Objects /\ end \in 0..MaxPack /\ end \in Nat
      /\ size = proc[p].job.batch.flushed /\ proc[p].job.batch.flushed = end
      /\ proc[p].job.todo = {}
  BY Zenon, <1>1, HolderFacts, JobType DEF JobGood
<1>3. /\ db'.objects = Indexed(p) /\ db'.root = pin
      /\ db'.roots = IF db.root # pin THEN Append(db.roots, e) ELSE db.roots
  BY Zenon, PublishedFields DEF Journaled
<1>4. db.roots \in Seq(S) /\ Len(db.roots) \in Nat /\ db.root \in Objects \cup {None}
  <2>1. db.roots \in Seq(S) /\ db.root \in Objects \cup {None}
    BY Zenon DEF SInv, TypeOK, Databases
  <2> HIDE DEF S
  <2> QED
    BY <2>1
<1>5. /\ IF db.roots = <<>> THEN db.root = None
                            ELSE db.roots[Len(db.roots)].hash = db.root
      /\ \A i \in 1..(Len(db.roots) - 1) : db.roots[i].hash # db.roots[i + 1].hash
      /\ \A i \in 1..Len(db.roots) : Closure(db.objects, db.roots[i])
  BY Zenon DEF SInv, JournalTellsRoots
<1>6. \A r : Closure(db.objects, r) => Closure(db'.objects, r)
  <2>1. \A n : \A h \in Objects : Below(db.objects, h, n) => Below(db'.objects, h, n)
    BY Zenon, <1>3, PublishedGood
  <2> HIDE DEF Below
  <2> QED
    BY Zenon, <2>1
<1>7. Closure(db'.objects, e)
  <2> DEFINE C == {h \in Objects : Indexed(p)[h] # None}
  <2>1. pin \in C
    BY Zenon, <1>1, <1>2, JobCloses, PublishedGood
  <2>2. ASSUME NEW h \in C
        PROVE  Below(Indexed(p), h, end) /\ Sub[h] \subseteq C
    <3>1. Fits(Indexed(p)[h], h, cell, synced) /\ Indexed(p)[h] \in Extents
      BY Zenon, PublishedGood DEF Index
    <3>2. Indexed(p)[h].off + Indexed(p)[h].len <= end
      <4>1. synced \in Nat /\ synced <= end
        BY Zenon, <1>2, BaseFacts
      <4>2. Indexed(p)[h].off + Indexed(p)[h].len \in Nat
        BY Zenon, <3>1, ExtentType
      <4> QED
        BY <1>2, <3>1, <4>1, <4>2 DEF Fits
    <3> QED
      BY Zenon, <3>2, PublishedGood, SiloAssumption
  <2>3. e.hash = pin /\ e.pack = end
    OBVIOUS
  <2> HIDE DEF C, e
  <2>4. C \in SUBSET Objects
    BY Zenon DEF C
  <2> QED
    BY Zenon, <1>3, <2>1, <2>2, <2>3, <2>4
<1> HIDE DEF Closure, Below
<1>8. /\ IF db'.roots = <<>> THEN db'.root = None
                             ELSE db'.roots[Len(db'.roots)].hash = db'.root
      /\ \A i \in 1..(Len(db'.roots) - 1) : db'.roots[i].hash # db'.roots[i + 1].hash
      /\ \A i \in 1..Len(db'.roots) : Closure(db'.objects, db'.roots[i])
  <2>1. CASE db.root = pin
    <3>1. db'.roots = db.roots /\ db.roots # <<>>
      BY Zenon, <1>2, <1>3, <1>5, <2>1, SiloAssumption
    <3> QED
      BY Zenon, <1>3, <1>5, <1>6, <2>1, <3>1
  <2>2. CASE db.root # pin
    <3> DEFINE q == db.roots
               r == Append(db.roots, e)
    <3>1. e.hash = pin /\ e \in S
      BY <1>2
    <3> HIDE DEF S, e
    <3>2. /\ Len(r) = Len(q) + 1 /\ r[Len(q) + 1] = e /\ r # <<>>
          /\ \A i \in 1..Len(q) : r[i] = q[i]
      BY <1>4, <3>1
    <3>3. db'.roots = r
      BY Zenon, <1>3, <2>2 DEF e
    <3> HIDE DEF r
    <3>4. r[Len(r)].hash = pin
      BY Zenon, <3>1, <3>2
    <3>5. ASSUME NEW i \in 1..(Len(r) - 1)
          PROVE  r[i].hash # r[i + 1].hash
      <4>1. CASE i = Len(q)
        <5>1. q # <<>> /\ i \in 1..Len(q)
          BY <1>4, <3>2, <3>5, <4>1
        <5> QED
          BY Zenon, <1>5, <2>2, <3>1, <3>2, <4>1, <5>1
      <4>2. CASE i # Len(q)
        <5>1. i \in 1..(Len(q) - 1) /\ i \in 1..Len(q) /\ i + 1 \in 1..Len(q)
          BY <1>4, <3>2, <3>5, <4>2
        <5> QED
          BY Zenon, <1>5, <3>2, <5>1
      <4> QED
        BY Zenon, <4>1, <4>2
    <3>6. ASSUME NEW i \in 1..Len(r)
          PROVE  Closure(db'.objects, r[i])
      <4>1. i \in 1..Len(q) \/ i = Len(q) + 1
        BY <1>4, <3>2
      <4> QED
        BY Zenon, <1>5, <1>6, <1>7, <3>2, <4>1
    <3> QED
      BY Zenon, <1>3, <3>2, <3>3, <3>4, <3>5, <3>6
  <2> QED
    BY Zenon, <2>1, <2>2
<1> QED
  BY Zenon, <1>8 DEF JournalTellsRoots, Closure, Below

(* batch_commit publishes and lets the transaction go. *)
LEMMA PublishStep ==
  ASSUME SInv, NEW p \in Procs, Publish(p)
  PROVE  SInv'
<1> DEFINE no == [k \in Keys |-> None]
           pr == [Finished(proc[p]) EXCEPT !.staged = Empty, !.kv = no]
           ix == Indexed(p)
<1>1. proc[p].job # Idle /\ proc[p].job.at = "sync"
  BY Zenon, Running DEF Publish
<1>2. /\ proc[p].job \in Jobs /\ proc[p].job.pin \in Objects
      /\ proc[p].canon \subseteq Objects /\ proc[p].job.items \subseteq Objects
      /\ proc[p].kv \in [Keys -> Objects \cup {None}] /\ proc[p].job.todo = {}
  BY Zenon, <1>1, HolderFacts, ProcessType, JobType DEF SInv, JobGood
<1>3. Empty \in Index /\ no \in [Keys -> Objects \cup {None}]
  BY Zenon DEF Empty, Index
<1>4. proc' = [proc EXCEPT ![p] = pr]
  BY Zenon DEF Publish
<1>5. /\ pr \in Processes /\ pr.job = Idle /\ pr.staged = Empty /\ pr.kv = no
      /\ pr.canon = proc[p].canon \cup proc[p].job.items
  <2> DEFINE fp == Finished(proc[p])
  <2>1. TypeOK
    BY Zenon DEF SInv
  <2>2. /\ fp \in Processes /\ fp.job = Idle
        /\ fp.canon = proc[p].canon \cup proc[p].job.items
    BY Zenon, <1>2, <2>1, FinishedFields
  <2> HIDE DEF fp, no
  <2>3. pr = [fp EXCEPT !.staged = Empty, !.kv = no]
    BY Zenon DEF fp
  <2> HIDE DEF pr
  <2>4. /\ pr \in Processes /\ pr.job = fp.job /\ pr.canon = fp.canon
        /\ pr.staged = Empty /\ pr.kv = no
    BY <1>3, <2>2, <2>3 DEF Processes
  <2> QED
    BY Zenon, <2>2, <2>4
<1> HIDE DEF pr
<1>6. /\ db' \in Databases /\ db'.objects = ix /\ db'.root = proc[p].job.pin
      /\ db'.codecache = [k \in Keys |-> IF proc[p].kv[k] # None
                                         THEN proc[p].kv[k] ELSE db.codecache[k]]
  BY Zenon, PublishedFields
<1>7. /\ \A h \in Objects : db.objects[h] # None => ix[h] # None
      /\ \A h \in Objects : Handled(proc[p], db, h) => ix[h] # None
      /\ \A h \in Objects : ix[h] # None => /\ Fits(ix[h], h, cell, synced)
                                            /\ \A s \in Sub[h] : ix[s] # None
  BY Zenon, PublishedGood
<1> HIDE DEF ix
<1>8. DbGood(db', cell, synced)
  <2>1. ix[proc[p].job.pin] # None
    BY Zenon, <1>1, <1>2, <1>7, JobCloses
  <2>2. ASSUME NEW k \in Keys, db'.codecache[k] # None
        PROVE  ix[db'.codecache[k]] # None
    <3>1. CASE proc[p].kv[k] # None
      BY Zenon, <1>1, <1>2, <1>6, <1>7, <3>1, JobCloses
    <3>2. CASE proc[p].kv[k] = None
      <4>1. db'.codecache[k] = db.codecache[k] /\ db.codecache[k] \in Objects \cup {None}
        BY Zenon, <1>6, <3>2 DEF SInv, TypeOK, Databases
      <4> QED
        BY Zenon, <1>7, <2>2, <4>1 DEF SInv, DbGood
    <3> QED
      BY Zenon, <3>1, <3>2
  <2> QED
    BY Zenon, <1>6, <1>7, <2>1, <2>2 DEF DbGood
<1>9. MemoryGood(pr, db', cell, size)
  <2>1. \A x \in pr.canon : /\ x \in Objects /\ Known(pr, db', x)
                            /\ Sub[x] \subseteq pr.canon
    BY Zenon, <1>1, <1>2, <1>5, <1>6, <1>7, JobCloses DEF Known
  <2>2. /\ \A h \in Objects : pr.staged[h] = None
        /\ \A k \in Keys : pr.kv[k] = None
    BY Zenon, <1>5 DEF Empty
  <2> QED
    BY Zenon, <2>1, <2>2 DEF MemoryGood
<1>10. /\ cell' = cell /\ size' = size /\ synced' = synced /\ lock' = None
  BY Zenon DEF Publish
<1> QED
  BY Zenon, <1>1, <1>4, <1>5, <1>6, <1>7, <1>8, <1>9, <1>10, JournalContinues, DoneStep

-----------------------------------------------------------------------------
(* The steps outside a transaction.                                         *)

(* A process without a job is replaced, and nothing else changes. *)
LEMMA QuietStep ==
  ASSUME SInv, NEW p \in Procs, NEW pr \in Processes, proc' = [proc EXCEPT ![p] = pr],
         pr.job = proc[p].job, MemoryGood(pr, db, cell, Base),
         proc[p].job # Idle => pr.staged = proc[p].staged /\ pr.canon = proc[p].canon,
         cell' = cell, size' = size, synced' = synced, lock' = lock, db' \in Databases,
         db'.objects = db.objects, db'.root = db.root, db'.roots = db.roots,
         db'.codecache = db.codecache
  PROVE  SInv'
<1>1. /\ proc' \in [Procs -> Processes] /\ proc'[p] = pr
      /\ \A q \in Procs \ {p} : proc'[q] = proc[q]
  BY Zenon DEF SInv, TypeOK
<1>2. TypeOK' /\ LockOwner'
  BY Zenon, <1>1 DEF SInv, TypeOK, LockOwner
<1>3. \A q \in Procs : proc'[q].job = proc[q].job
  BY Zenon, <1>1
<1>4. Base' = Base
  BY Zenon, <1>3 DEF Base, SInv, TypeOK
<1>5. \A x : \A n : DbGood(db, x, n) => DbGood(db', x, n)
  BY Zenon DEF DbGood
<1>6. ASSUME NEW q \in Procs
      PROVE  MemoryGood(proc'[q], db', cell, Base)
  <2>1. MemoryGood(proc'[q], db, cell, Base)
    BY Zenon, <1>1 DEF SInv
  <2> QED
    BY Zenon, <2>1 DEF MemoryGood, Known
<1>7. ASSUME lock # None
      PROVE  JobGood(proc'[lock], db', cell, size, synced)
  <2>1. lock \in Procs /\ JobGood(proc[lock], db, cell, size, synced) /\ proc[lock].job # Idle
    BY Zenon, <1>7 DEF SInv, TypeOK, LockOwner
  <2>2. /\ proc'[lock].job = proc[lock].job /\ proc'[lock].staged = proc[lock].staged
        /\ proc'[lock].canon = proc[lock].canon
    BY Zenon, <1>1, <2>1
  <2>3. \A x : Handled(proc[lock], db, x) => Handled(proc'[lock], db', x)
    BY Zenon, <2>2 DEF Handled, Known
  <2> QED
    BY Zenon, <2>1, <2>2, <2>3 DEF JobGood
<1>8. JournalTellsRoots'
  BY Zenon DEF SInv, JournalTellsRoots
<1> QED
  BY Zenon, <1>2, <1>4, <1>5, <1>6, <1>7, <1>8 DEF SInv

(* A closed process has nothing in memory. *)
LEMMA ClosedGood ==
  ASSUME NEW d, NEW c, NEW n
  PROVE  Closed \in Processes /\ Closed.job = Idle /\ MemoryGood(Closed, d, c, n)
<1> DEFINE no == [k \in Keys |-> None]
<1>1. Empty \in Index /\ no \in [Keys -> Objects \cup {None}]
  BY Zenon DEF Empty, Index
<1>2. Closed = [mode |-> "closed", staged |-> Empty, kv |-> no, canon |-> {}, job |-> Idle]
  BY Zenon DEF Closed
<1>3. (\A h \in Objects : Empty[h] = None) /\ \A k \in Keys : no[k] = None
  BY Zenon DEF Empty
<1> HIDE DEF no
<1>4. /\ Closed \in Processes /\ Closed.job = Idle /\ Closed.staged = Empty
      /\ Closed.kv = no /\ Closed.canon = {}
  BY <1>1, <1>2 DEF Processes
<1> QED
  BY Zenon, <1>3, <1>4 DEF MemoryGood

(* Opening, closing and loading. *)
LEMMA OpenSteps ==
  ASSUME SInv, NEW p \in Procs, Open(p) \/ OpenReadOnly(p)
  PROVE  SInv'
<1>0. proc[p] \in Processes /\ db \in Databases
  BY Zenon DEF SInv, TypeOK
<1>1. ASSUME NEW m \in {"rw", "ro"}, proc' = [proc EXCEPT ![p].mode = m],
             db' \in Databases, db'.objects = db.objects, db'.root = db.root,
             db'.roots = db.roots, db'.codecache = db.codecache
      PROVE  SInv'
  <2> DEFINE pr == [proc[p] EXCEPT !.mode = m]
  <2>1. /\ pr \in Processes /\ pr.job = proc[p].job /\ pr.staged = proc[p].staged
        /\ pr.kv = proc[p].kv /\ pr.canon = proc[p].canon
    BY <1>0 DEF Processes
  <2>2. proc' = [proc EXCEPT ![p] = pr]
    BY Zenon, <1>1
  <2> HIDE DEF pr
  <2>3. MemoryGood(pr, db, cell, Base)
    BY Zenon, <2>1, MemorySame DEF SInv
  <2>4. cell' = cell /\ size' = size /\ synced' = synced /\ lock' = lock
    BY Zenon DEF Open, OpenReadOnly
  <2> QED
    BY Zenon, <1>1, <2>1, <2>2, <2>3, <2>4, QuietStep
<1>2. CASE Open(p)
  <2>1. db' = [db EXCEPT !.format = TRUE] /\ proc' = [proc EXCEPT ![p].mode = "rw"]
    BY Zenon, <1>2 DEF Open
  <2>2. /\ db' \in Databases /\ db'.objects = db.objects /\ db'.root = db.root
        /\ db'.roots = db.roots /\ db'.codecache = db.codecache
    BY <1>0, <2>1 DEF Databases
  <2> QED
    BY Zenon, <1>1, <2>1, <2>2
<1>3. CASE OpenReadOnly(p)
  BY Zenon, <1>0, <1>1, <1>3 DEF OpenReadOnly
<1> QED
  BY Zenon, <1>2, <1>3

(* A process without a job goes. *)
LEMMA CloseStep ==
  ASSUME SInv, NEW p \in Procs, proc[p].job = Idle, proc' = [proc EXCEPT ![p] = Closed],
         cell' = cell, size' = size, synced' = synced, db' = db, lock' = lock
  PROVE  SInv'
<1>1. db \in Databases
  BY Zenon DEF SInv, TypeOK
<1>2. Closed \in Processes /\ Closed.job = Idle /\ MemoryGood(Closed, db, cell, Base)
  BY Zenon, ClosedGood
<1> QED
  BY Zenon, <1>1, <1>2, QuietStep

(* Loading makes pins canonical that the store has. *)
LEMMA LoadStep ==
  ASSUME SInv, NEW p \in Procs, NEW C \in SUBSET Objects, Load(p, C)
  PROVE  SInv'
<1> DEFINE cs == proc[p].canon \cup C
           pr == [proc[p] EXCEPT !.canon = cs]
<1>0. proc[p] \in Processes /\ cs \in SUBSET Objects /\ db \in Databases
  BY Zenon, ProcessType DEF SInv, TypeOK
<1>1. proc' = [proc EXCEPT ![p] = pr]
  BY Zenon DEF Load
<1> HIDE DEF cs
<1>2. /\ pr \in Processes /\ pr.job = proc[p].job /\ pr.staged = proc[p].staged
      /\ pr.kv = proc[p].kv /\ pr.canon = cs
  BY <1>0 DEF Processes
<1> HIDE DEF pr
<1>3. \A h \in C : Known(proc[p], db, h) /\ Sub[h] \subseteq cs
  BY Zenon DEF Load, Loadable, Opened, Find, Known, cs
<1>4. \A h \in proc[p].canon : Known(proc[p], db, h) /\ Sub[h] \subseteq cs
  BY Zenon DEF SInv, MemoryGood, cs
<1>5. MemoryGood(pr, db, cell, Base)
  <2>1. \A x : Known(proc[p], db, x) => Known(pr, db, x)
    BY Zenon, <1>2 DEF Known
  <2>2. \A h \in cs : Known(pr, db, h) /\ Sub[h] \subseteq cs
    BY Zenon, <1>3, <1>4, <2>1 DEF cs
  <2>3. MemoryGood(proc[p], db, cell, Base)
    BY Zenon DEF SInv
  <2> QED
    BY Zenon, <1>2, <2>1, <2>2, <2>3 DEF MemoryGood
<1>6. /\ cell' = cell /\ size' = size /\ synced' = synced /\ db' = db /\ lock' = lock
      /\ proc[p].job = Idle
  BY Zenon DEF Load
<1> QED
  BY Zenon, <1>0, <1>1, <1>2, <1>5, <1>6, QuietStep

-----------------------------------------------------------------------------
(* Failures.                                                                *)

(* A write that stops early has touched nothing below the batch. *)
LEMMA TornFacts ==
  ASSUME SInv, NEW p \in Procs, proc[p].job # Idle, NEW t \in Torn(p)
  PROVE  /\ t.cell \in [Offsets -> Units] /\ t.size \in 0..MaxPack /\ size <= t.size
         /\ Agree(cell, t.cell, size)
<1> DEFINE b == proc[p].job.batch
           R(a, n) == [cell |-> Written(a, n), size |-> IF n = 0 THEN size ELSE a.flushed + n]
<1>1. /\ proc[p].job \in Jobs /\ b \in Batches /\ BatchGood(b, cell, size) /\ TypeOK
      /\ b.flushed \in Nat /\ b.end \in Nat
  BY Zenon, HolderFacts, JobType DEF JobGood, SInv
<1>2. PICK w \in InFlight(p) : \E n \in 0..w[2] : t = R(w[1], n)
  BY Zenon DEF Torn
<1> PICK n \in 0..w[2] : t = R(w[1], n)
  BY Zenon, <1>2
<1>3. ASSUME NEW a \in Batches, NEW m \in Nat, BatchGood(a, cell, size), a.flushed + m <= a.end,
             w = <<a, m>>
      PROVE  /\ t.cell \in [Offsets -> Units] /\ t.size \in 0..MaxPack /\ size <= t.size
             /\ Agree(cell, t.cell, size)
  <2>1. w[1] = a /\ w[2] = m
    BY <1>3
  <2>2. n \in Nat /\ a.flushed + n <= a.end
    <3>1. a.flushed \in Nat /\ a.end \in Nat
      BY SiloAssumption DEF Batches
    <3> QED
      BY <1>2, <1>3, <2>1, <3>1
  <2>3. /\ Written(a, n) \in [Offsets -> Units] /\ Agree(cell, Written(a, n), size)
        /\ a.flushed + n = IF n = 0 THEN size ELSE a.flushed + n
        /\ a.flushed + n \in 0..MaxPack /\ size <= a.flushed + n
    BY Zenon, <1>1, <1>3, <2>2, WrittenGood
  <2>4. t.cell = Written(a, n) /\ t.size = IF n = 0 THEN size ELSE a.flushed + n
    BY <1>2, <2>1
  <2> QED
    BY Zenon, <2>3, <2>4
<1>4. /\ 0 \in Nat /\ b.flushed + 0 <= b.end /\ b.end - b.flushed \in Nat
      /\ b.flushed + (b.end - b.flushed) <= b.end
  <2>1. b.flushed <= b.end
    BY Zenon, <1>1 DEF BatchGood
  <2> QED
    BY <1>1, <2>1
<1>5. ASSUME NEW h \in Objects, b.end + Size[h] <= MaxPack, NEW m \in 0..MaxPack,
             Overflow(Appended(b, h), m)
      PROVE  /\ Appended(b, h) \in Batches /\ BatchGood(Appended(b, h), cell, size)
             /\ m \in Nat /\ Appended(b, h).flushed + m <= Appended(b, h).end
  <2> DEFINE a == Appended(b, h)
  <2>1. a \in Batches
    BY Zenon, <1>1, <1>5, AppendedFields
  <2>2. BatchGood(a, cell, size)
    BY Zenon, <1>1, <1>5, AppendedGood
  <2>3. a.flushed <= a.end
    BY Zenon, <2>2 DEF BatchGood
  <2> QED
    BY Zenon, <1>5, <2>1, <2>2, <2>3, OverflowBound
<1>6. \/ w = <<b, 0>> \/ w = <<b, b.end - b.flushed>>
      \/ \E h \in Objects, m \in 0..MaxPack :
            /\ b.end + Size[h] <= MaxPack /\ w = <<Appended(b, h), m>>
            /\ Overflow(Appended(b, h), m)
  <2> DEFINE enc == {h \in proc[p].job.todo :
                        Ready(p, h) /\ ~Contains(p, h) /\ b.end + Size[h] <= MaxPack}
             App == {Appended(b, h) : h \in enc}
  <2>1. \/ w = <<b, 0>> \/ w = <<b, b.end - b.flushed>>
        \/ w \in App \X (0..MaxPack) /\ Overflow(w[1], w[2])
    BY Zenon DEF InFlight
  <2>2. proc[p].job.todo \subseteq Objects
    BY Zenon, <1>1, JobType
  <2>3. ASSUME w \in App \X (0..MaxPack), Overflow(w[1], w[2])
        PROVE  \E h \in Objects, m \in 0..MaxPack :
                  /\ b.end + Size[h] <= MaxPack /\ w = <<Appended(b, h), m>>
                  /\ Overflow(Appended(b, h), m)
    <3> HIDE DEF App
    <3>1. w = <<w[1], w[2]>> /\ w[1] \in App /\ w[2] \in 0..MaxPack
      BY <2>3
    <3>2. PICK h \in Objects : b.end + Size[h] <= MaxPack /\ w[1] = Appended(b, h)
      BY Zenon, <2>2, <3>1 DEF App
    <3> QED
      BY Zenon, <2>3, <3>1, <3>2
  <2> QED
    BY Zenon, <2>1, <2>3
<1> HIDE DEF b, R
<1> QED
  BY Zenon, <1>1, <1>3, <1>4, <1>5, <1>6

(* The holder of the transaction gives up; the pack keeps its first m       *)
(* units.                                                                   *)
LEMMA GoneStep ==
  ASSUME SInv, NEW p \in Procs, proc[p].job # Idle, NEW pr \in Processes, pr.job = Idle,
         proc' = [proc EXCEPT ![p] = pr], lock' = None, db' = db,
         cell' \in [Offsets -> Units], size' \in 0..MaxPack,
         NEW m \in Nat, m = size \/ m = size', m <= size', Base <= m, Agree(cell, cell', m),
         synced' = IF synced <= size' THEN synced ELSE size',
         MemoryGood(pr, db, cell, Base)
  PROVE  SInv'
<1>1. /\ lock = p /\ \A q \in Procs \ {p} : proc[q].job = Idle
  BY Zenon, HolderFacts
<1>2. /\ proc' \in [Procs -> Processes] /\ proc'[p] = pr
      /\ \A q \in Procs \ {p} : proc'[q] = proc[q] /\ proc[q] \in Processes
  BY Zenon DEF SInv, TypeOK
<1>3. /\ size \in Nat /\ synced \in Nat /\ synced <= size /\ Base \in Nat
      /\ size' \in Nat /\ synced' \in Nat /\ synced' \in 0..size' /\ Base <= size'
  BY BaseFacts, SiloAssumption
<1>4. TypeOK'
  BY Zenon, <1>2, <1>3 DEF SInv, TypeOK
<1>5. LockOwner'
  BY Zenon, <1>1, <1>2, SiloAssumption DEF LockOwner
<1>6. Base' = size'
  BY Zenon DEF Base
<1>7. db \in Databases /\ DbGood(db, cell, synced) /\ DbGood(db, cell, Base)
  BY Zenon DEF SInv, TypeOK
<1>8. Agree(cell, cell', Base)
  BY Zenon, <1>3, AgreeLess
<1>9. DbGood(db, cell', size')
  BY Zenon, <1>3, <1>7, <1>8, DbStable
<1>10. DbGood(db, cell', synced')
  <2>1. CASE synced <= size'
    <3>1. synced' = synced /\ synced <= m /\ synced <= synced
      BY <1>3, <2>1
    <3>2. Agree(cell, cell', synced)
      BY Zenon, <1>3, <3>1, AgreeLess
    <3> QED
      BY Zenon, <1>3, <1>7, <3>1, <3>2, DbStable
  <2>2. CASE ~(synced <= size')
    BY Zenon, <1>9, <2>2
  <2> QED
    BY Zenon, <2>1, <2>2
<1>11. ASSUME NEW q \in Procs
       PROVE  MemoryGood(proc'[q], db, cell', size')
  <2>1. proc'[q] \in Processes /\ MemoryGood(proc'[q], db, cell, Base)
    BY Zenon, <1>2 DEF SInv
  <2> QED
    BY Zenon, <1>3, <1>8, <2>1, MemoryStable
<1>12. JournalTellsRoots'
  BY Zenon DEF SInv, JournalTellsRoots
<1> QED
  BY Zenon, <1>4, <1>5, <1>6, <1>9, <1>10, <1>11, <1>12 DEF SInv

(* A pack that is cut keeps what lies before the cut. *)
LEMMA CutFacts ==
  ASSUME NEW c \in [Offsets -> Units], NEW n \in 0..MaxPack, NEW m \in Nat, m <= n
  PROVE  Cut(c, n) \in [Offsets -> Units] /\ Agree(c, Cut(c, n), m)
<1>1. Junk \in Units
  BY SiloAssumption DEF Junk, Units
<1>2. \A i \in 1..m : i \in Offsets /\ i <= n
  BY SiloAssumption DEF Offsets
<1> QED
  BY Zenon, <1>1, <1>2 DEF Cut, Agree

(* pl_store_silo_batch_abort cuts at most what the batch wrote. *)
LEMMA FailStep ==
  ASSUME SInv, NEW p \in Procs, Fail(p)
  PROVE  SInv'
<1> DEFINE pr == [proc[p] EXCEPT !.job = Idle]
           start == proc[p].job.batch.start
<1>1. proc[p].job # Idle /\ proc' = [proc EXCEPT ![p] = pr] /\ lock' = None /\ db' = db
  BY Zenon DEF Fail
<1>2. PICK t \in Torn(p), n \in 0..MaxPack :
         /\ n \in {t.size, start} /\ cell' = Cut(t.cell, n) /\ size' = n
         /\ synced' = IF synced <= n THEN synced ELSE n
  BY Zenon DEF Fail
<1>3. /\ pr \in Processes /\ pr.job = Idle /\ pr.staged = proc[p].staged
      /\ pr.kv = proc[p].kv /\ pr.canon = proc[p].canon
  <2>1. proc[p] \in Processes
    BY Zenon DEF SInv, TypeOK
  <2> QED
    BY <2>1 DEF Processes
<1> HIDE DEF pr
<1>4. MemoryGood(pr, db, cell, Base)
  BY Zenon, <1>3, MemorySame DEF SInv
<1>5. /\ t.cell \in [Offsets -> Units] /\ t.size \in 0..MaxPack /\ size <= t.size
      /\ Agree(cell, t.cell, size)
  BY Zenon, <1>1, TornFacts
<1>6. /\ size \in Nat /\ Base \in Nat /\ Base <= size /\ Base = start
  BY Zenon, <1>1, BaseFacts, HolderFacts
<1> DEFINE m == IF n = start THEN start ELSE size
<1>7. m \in Nat /\ m <= n /\ Base <= m /\ m <= size /\ (m = size \/ m = n)
  BY <1>2, <1>5, <1>6
<1> HIDE DEF m
<1>8. cell' \in [Offsets -> Units] /\ Agree(t.cell, cell', m)
  BY Zenon, <1>2, <1>5, <1>7, CutFacts
<1>9. Agree(cell, t.cell, m)
  BY Zenon, <1>5, <1>6, <1>7, AgreeLess
<1>10. Agree(cell, cell', m)
  BY Zenon, <1>8, <1>9 DEF Agree
<1> QED
  BY Zenon, <1>1, <1>2, <1>3, <1>4, <1>7, <1>8, <1>10, GoneStep

(* A process is killed. *)
LEMMA KillStep ==
  ASSUME SInv, NEW p \in Procs, Kill(p)
  PROVE  SInv'
<1>1. proc' = [proc EXCEPT ![p] = Closed] /\ synced' = synced /\ db' = db
  BY Zenon DEF Kill
<1>2. CASE proc[p].job = Idle
  <2>1. lock # p
    BY Zenon, <1>2 DEF SInv, LockOwner
  <2>2. cell' = cell /\ size' = size /\ lock' = lock
    BY Zenon, <1>2, <2>1 DEF Kill
  <2> QED
    BY Zenon, <1>1, <1>2, <2>2, CloseStep
<1>3. CASE proc[p].job # Idle
  <2>1. PICK t \in Torn(p) : cell' = t.cell /\ size' = t.size
    BY Zenon, <1>3 DEF Kill
  <2>2. /\ t.cell \in [Offsets -> Units] /\ t.size \in 0..MaxPack /\ size <= t.size
        /\ Agree(cell, t.cell, size)
    BY Zenon, <1>3, TornFacts
  <2>3. /\ size \in Nat /\ Base <= size /\ synced \in Nat /\ synced <= size
    BY Zenon, BaseFacts
  <2>4. synced' = IF synced <= size' THEN synced ELSE size'
    BY <1>1, <2>1, <2>2, <2>3, SiloAssumption
  <2>5. lock' = None
    BY Zenon, <1>3, HolderFacts DEF Kill
  <2>6. Closed \in Processes /\ Closed.job = Idle /\ MemoryGood(Closed, db, cell, Base)
    BY Zenon, ClosedGood
  <2> QED
    BY Zenon, <1>1, <1>3, <2>1, <2>2, <2>3, <2>4, <2>5, <2>6, GoneStep
<1> QED
  BY Zenon, <1>2, <1>3

(* The power is cut: nothing below the synced prefix is lost. *)
LEMMA PowerCutStep ==
  ASSUME SInv, PowerCut
  PROVE  SInv'
<1>1. proc' = [p \in Procs |-> Closed] /\ lock' = None /\ db' = db
  BY Zenon DEF PowerCut
<1>2. PICK n \in synced..size : \E lost \in SUBSET ((synced + 1)..n) :
         /\ size' = n /\ synced' = n
         /\ cell' = [i \in Offsets |-> IF i > n \/ i \in lost THEN Junk ELSE cell[i]]
  BY Zenon DEF PowerCut
<1> PICK lost \in SUBSET ((synced + 1)..n) :
         /\ size' = n /\ synced' = n
         /\ cell' = [i \in Offsets |-> IF i > n \/ i \in lost THEN Junk ELSE cell[i]]
  BY Zenon, <1>2
<1>3. size \in Nat /\ synced \in Nat /\ synced <= size /\ size <= MaxPack /\ MaxPack \in Nat
  BY Zenon, BaseFacts
<1>4. n \in Nat /\ synced <= n /\ n \in 0..MaxPack /\ n \in 0..n
  BY <1>3
<1>5. /\ cell \in [Offsets -> Units] /\ db \in Databases /\ DbGood(db, cell, synced)
      /\ JournalTellsRoots
  BY Zenon DEF SInv, TypeOK
<1>6. cell' \in [Offsets -> Units]
  <2>1. Junk \in Units
    BY SiloAssumption DEF Junk, Units
  <2> QED
    BY Zenon, <1>5, <2>1
<1>7. Agree(cell, cell', synced)
  <2>1. \A i \in 1..synced : i \in Offsets /\ ~(i > n) /\ i \notin lost
    BY <1>3, <1>4 DEF Offsets
  <2> QED
    BY Zenon, <2>1 DEF Agree
<1>8. DbGood(db, cell', n)
  BY Zenon, <1>3, <1>4, <1>5, <1>7, DbStable
<1>9. \A p \in Procs : /\ proc'[p] = Closed /\ Closed \in Processes /\ Closed.job = Idle
                       /\ MemoryGood(Closed, db, cell', n)
  BY Zenon, <1>1, ClosedGood
<1>10. TypeOK'
  BY Zenon, <1>1, <1>4, <1>5, <1>6, <1>9 DEF TypeOK
<1>11. LockOwner'
  BY Zenon, <1>1, <1>9, SiloAssumption DEF LockOwner
<1>12. Base' = n
  BY Zenon, <1>1 DEF Base
<1>13. JournalTellsRoots'
  BY Zenon, <1>1, <1>5 DEF JournalTellsRoots
<1> QED
  BY Zenon, <1>1, <1>8, <1>9, <1>10, <1>11, <1>12, <1>13 DEF SInv

-----------------------------------------------------------------------------
(* The invariant and what follows from it.                                  *)

(* An empty store satisfies the invariant. *)
LEMMA InitSInv ==
  ASSUME Init
  PROVE  SInv
<1>1. \A h \in Objects : Empty[h] = None
  BY Zenon DEF Empty
<1>2. Empty \in Index
  BY Zenon DEF Empty, Index
<1>3. /\ db \in Databases /\ db.objects = Empty /\ db.root = None /\ db.roots = <<>>
      /\ db.codecache = [k \in Keys |-> None]
  <2>1. [k \in Keys |-> None] \in [Keys -> Objects \cup {None}]
    BY Zenon
  <2> QED
    BY <1>2, <2>1 DEF Init, Databases
<1>4. \A p \in Procs : /\ proc[p] = Closed /\ Closed \in Processes /\ Closed.job = Idle
                       /\ MemoryGood(Closed, db, cell, 0)
  BY Zenon, ClosedGood DEF Init
<1>5. TypeOK
  <2>1. Junk \in Units /\ 0 \in 0..MaxPack /\ 0 \in 0..0
    BY SiloAssumption DEF Junk, Units
  <2> QED
    BY Zenon, <1>3, <1>4, <2>1 DEF Init, TypeOK
<1>6. LockOwner
  BY Zenon, <1>4, SiloAssumption DEF Init, LockOwner
<1>7. Base = 0 /\ synced = 0 /\ lock = None
  BY Zenon DEF Init, Base
<1>8. DbGood(db, cell, 0)
  BY Zenon, <1>1, <1>3 DEF DbGood
<1>9. JournalTellsRoots
  BY <1>3 DEF JournalTellsRoots
<1> QED
  BY Zenon, <1>4, <1>5, <1>6, <1>7, <1>8, <1>9 DEF SInv

(* Every step keeps the invariant: one case per action. *)
LEMMA NextSInv ==
  ASSUME SInv, [Next]_vars
  PROVE  SInv'
<1>1. CASE UNCHANGED vars
  BY Zenon, <1>1 DEF vars, SInv, TypeOK, LockOwner, Base, JournalTellsRoots
<1>2. CASE PowerCut
  BY Zenon, <1>2, PowerCutStep
<1>3. ASSUME NEW p \in Procs,
             \/ Open(p) \/ OpenReadOnly(p) \/ Close(p)
             \/ \E C \in SUBSET Objects : Load(p, C)
             \/ \E h \in Objects, items \in SUBSET Objects, root \in BOOLEAN,
                   key \in Keys \cup {None} : Begin(p, h, items, root, key)
             \/ \E h \in Objects : PutPresent(p, h) \/ Put(p, h)
             \/ CommitUnchanged(p) \/ Flush(p) \/ Stage(p) \/ Sync(p) \/ Publish(p)
             \/ Fail(p) \/ Kill(p)
      PROVE  SInv'
  <2>1. CASE Open(p) \/ OpenReadOnly(p)
    BY Zenon, <2>1, OpenSteps
  <2>2. CASE Close(p)
    BY Zenon, <2>2, CloseStep DEF Close
  <2>3. CASE \E C \in SUBSET Objects : Load(p, C)
    BY Zenon, <2>3, LoadStep
  <2>4. CASE \E h \in Objects, items \in SUBSET Objects, root \in BOOLEAN,
                key \in Keys \cup {None} : Begin(p, h, items, root, key)
    BY Zenon, <2>4, BeginStep
  <2>5. CASE \E h \in Objects : PutPresent(p, h) \/ Put(p, h)
    BY Zenon, <2>5, PutPresentStep, PutStep
  <2>6. CASE CommitUnchanged(p) \/ Flush(p)
    BY Zenon, <2>6, CommitUnchangedStep, FlushStep
  <2>7. CASE Stage(p) \/ Sync(p) \/ Publish(p)
    BY Zenon, <2>7, StageStep, SyncStep, PublishStep
  <2>8. CASE Fail(p) \/ Kill(p)
    BY Zenon, <2>8, FailStep, KillStep
  <2> QED
    BY Zenon, <1>3, <2>1, <2>2, <2>3, <2>4, <2>5, <2>6, <2>7, <2>8
<1> QED
  BY Zenon, <1>1, <1>2, <1>3 DEF Next

(* The inductive invariant holds in every state of the store, whatever the *)
(* number of processes, the objects and their sizes, the length of the pack *)
(* and of its write buffer.                                                 *)
THEOREM StoreInvariant == Spec => []SInv
<1>1. Init => SInv
  BY Zenon, InitSInv
<1>2. SInv /\ [Next]_vars => SInv'
  BY Zenon, NextSInv
<1> QED
  BY <1>1, <1>2, PTL DEF Spec

(* Every published object can be loaded from the part of pins.pack that a   *)
(* power cut leaves, with all the pins inside it; the root and the rows of  *)
(* the compile cache are published (batch_commit, pack_sync).               *)
THEOREM PublishedAlwaysLoadable == Spec => []PublishedIsLoadable
<1>1. SInv => PublishedIsLoadable
  BY Zenon DEF SInv, DbGood, Fits, PublishedIsLoadable
<1> QED
  BY <1>1, StoreInvariant, PTL

(* A pin that a process treats as canonical can be loaded by it, whatever   *)
(* the other processes abort, cut back or publish, so that Save may stop    *)
(* its discovery there (pl_pin_save, silo_find).                            *)
THEOREM CanonicalAlwaysAvailable == Spec => []CanonicalIsAvailable
<1>1. SInv => CanonicalIsAvailable
  <2> SUFFICES ASSUME SInv, NEW p \in Procs, NEW h \in proc[p].canon
               PROVE  Loadable(p, h) /\ Sub[h] \subseteq proc[p].canon
    BY Zenon DEF CanonicalIsAvailable
  <2> DEFINE e == Find(p, h)
  <2>1. proc[p] \in Processes /\ db \in Databases
    BY Zenon DEF SInv, TypeOK
  <2>2. h \in Objects
    BY <2>1 DEF Processes
  <2>3. Known(proc[p], db, h) /\ Sub[h] \subseteq proc[p].canon
    BY Zenon DEF SInv, MemoryGood
  <2>4. e # None /\ Fits(e, h, cell, Base)
    BY Zenon, <2>2, <2>3 DEF SInv, MemoryGood, DbGood, Known, Find
  <2>5. e.off \in Nat /\ e.len \in Nat
    <3>1. proc[p].staged \in Index /\ db.objects \in Index
      BY <2>1 DEF Processes, Databases
    <3>2. e = proc[p].staged[h] \/ e = db.objects[h]
      BY Zenon DEF Find
    <3>3. e \in Extents
      <4>1. proc[p].staged[h] \in Extents \cup {None} /\ db.objects[h] \in Extents \cup {None}
        BY Zenon, <2>2, <3>1 DEF Index
      <4> HIDE DEF e
      <4> QED
        BY <2>4, <3>2, <4>1
    <3> QED
      BY Zenon, <3>3, ExtentType
  <2>6. size \in Nat /\ Base \in Nat /\ Base <= size
    BY Zenon, BaseFacts
  <2> HIDE DEF e
  <2>7. e.off + e.len <= size
    <3>1. e.off + e.len <= Base
      BY Zenon, <2>4 DEF Fits
    <3> QED
      BY <2>5, <2>6, <3>1
  <2>8. Holds(cell, h, e)
    BY Zenon, <2>4 DEF Fits
  <2> QED
    BY Zenon, <2>3, <2>4, <2>7, <2>8 DEF Loadable, Opened, e
<1> QED
  BY <1>1, StoreInvariant, PTL

(* The journal of roots ends with the root, repeats none, and records with  *)
(* each one a length of the pack that holds its whole closure               *)
(* (batch_commit's insert into roots).                                      *)
THEOREM JournalAlwaysTellsRoots == Spec => []JournalTellsRoots
<1>1. SInv => JournalTellsRoots
  BY Zenon DEF SInv
<1> QED
  BY <1>1, StoreInvariant, PTL
=============================================================================
