------------------------------ MODULE SiloStore ------------------------------
(***************************************************************************)
(* The Silo store (store_silo.c) under Ice and Save (pin.c): several        *)
(* processes append canonical pin streams to one file, pins.pack, and       *)
(* publish where they lie in one LMDB environment.                          *)
(*                                                                         *)
(* Ice appends and keeps the extents in its process ("staged"); Save also   *)
(* makes the pack durable and then publishes, in one LMDB transaction, all  *)
(* that is staged, the compile-cache entries, the root and a journal entry. *)
(* The LMDB write transaction is the lock on the end of the pack.           *)
(*                                                                         *)
(* Faults: any write, sync, index or commit may fail, a process may be      *)
(* killed at any point (also in the middle of a write), and the power may   *)
(* be cut: then every process is gone and what the pack held beyond its     *)
(* last sync is lost, in part or whole.                                     *)
(*                                                                         *)
(* An object is a pin, identified with its hash; its canonical stream is    *)
(* Size units, SiloCodec is about its bytes.  LMDB is external: a           *)
(* transaction is atomic, and durable when it has committed.                *)
(***************************************************************************)
EXTENDS Integers, Sequences, FiniteSets

CONSTANTS Procs,        \* processes that use the store
          Objects,      \* pins
          Sub,          \* Sub[h]: the pins directly inside pin h
          Size,         \* Size[h]: the length of its canonical stream
          Keys,         \* keys of the compile cache
          Rows,         \* the pins that are rows of the compile cache
          MaxPack,      \* the largest pack offset (INT64_MAX in the code)
          PackBuffer,   \* PACK_BUFFER_BYTES
          MaxJournal,   \* bound on the number of journal entries
          None          \* no object, no extent, no process

ASSUME SiloAssumption ==
    /\ None \notin Objects /\ None \notin Procs /\ None \notin [off : Nat, len : Nat]
    /\ Sub \in [Objects -> SUBSET Objects]
    /\ Size \in [Objects -> Nat \ {0}]
    /\ Rows \subseteq Objects /\ None \notin Keys
    /\ MaxPack \in Nat /\ PackBuffer \in Nat \ {0} /\ MaxJournal \in Nat

VARIABLES cell,     \* contents of pins.pack, as every process reads it
          size,     \* its length
          synced,   \* the length of the prefix known to be on the disk
          db,       \* LMDB: format, objects, root, roots (journal), codecache
          lock,     \* the process inside an LMDB write transaction
          proc      \* what each process keeps in memory

vars == <<cell, size, synced, db, lock, proc>>

-----------------------------------------------------------------------------
Offsets == 1..MaxPack
Extents == [off : 0..MaxPack, len : 1..MaxPack]
Index == [Objects -> Extents \cup {None}]
Empty == [h \in Objects |-> None]

(* Unit i of the stream of h; whatever else may lie in the pack is Junk.   *)
Unit(h, i) == <<h, i>>
Junk == <<None, 0>>
Units == (Objects \cup {None}) \X (0..MaxPack)

(* Cells off+1 .. off+len of c are the stream of h.                        *)
Holds(c, h, e) ==
    /\ e.len = Size[h]
    /\ \A i \in 1..e.len : c[e.off + i] = Unit(h, i)

(* pl_silo_batch.  image is what the batch has appended, whether it is     *)
(* still in its buffer (beyond flushed) or in the pack.                    *)
Batches ==
    [start : 0..MaxPack, flushed : 0..MaxPack, end : 0..MaxPack,
     changed : BOOLEAN, dirty : BOOLEAN, pending : Index,
     image : [Offsets -> Units]]

(* A Save or Ice on its way: the pin, whether the root is published (Save), *)
(* the compile-cache key the caller stores afterwards, the pins that        *)
(* discovery found without a canonical form, and those not yet encoded.     *)
Jobs ==
    [at : {"put", "flush", "sync", "publish"}, pin : Objects, root : BOOLEAN,
     key : Keys \cup {None}, items : SUBSET Objects, todo : SUBSET Objects,
     batch : Batches]

Idle == [at |-> "idle"]

(* mode: closed, open, or open read-only.  canon: the pins with a canonical *)
(* representative in the process, which later pins may refer to.            *)
Processes ==
    [mode : {"closed", "rw", "ro"}, staged : Index,
     kv : [Keys -> Objects \cup {None}], canon : SUBSET Objects,
     job : Jobs \cup {Idle}]

Closed ==
    [mode |-> "closed", staged |-> Empty, kv |-> [k \in Keys |-> None],
     canon |-> {}, job |-> Idle]

Databases ==
    [format : BOOLEAN, objects : Index, root : Objects \cup {None},
     roots : Seq([hash : Objects, pack : 0..MaxPack]),
     codecache : [Keys -> Objects \cup {None}]]

TypeOK ==
    /\ cell \in [Offsets -> Units]
    /\ size \in 0..MaxPack /\ synced \in 0..size
    /\ db \in Databases
    /\ lock \in Procs \cup {None}
    /\ proc \in [Procs -> Processes]

Init ==
    /\ cell = [i \in Offsets |-> Junk]
    /\ size = 0 /\ synced = 0
    /\ db = [format |-> FALSE, objects |-> Empty, root |-> None, roots |-> <<>>,
             codecache |-> [k \in Keys |-> None]]
    /\ lock = None
    /\ proc = [p \in Procs |-> Closed]

-----------------------------------------------------------------------------
(* silo_find: the extent of h, staged in this process or published.        *)
Find(p, h) ==
    IF proc[p].staged[h] # None THEN proc[p].staged[h] ELSE db.objects[h]

(* pl_store_silo_open: h has an extent, and it lies inside the pack.       *)
Opened(p, h) ==
    LET e == Find(p, h) IN e # None /\ e.off + e.len <= size

(* load_silo_pin: the stream there decodes to the pin whose hash is h.     *)
Loadable(p, h) == Opened(p, h) /\ Holds(cell, h, Find(p, h))

(* pl_store_silo_batch_contains.                                           *)
Contains(p, h) ==
    LET b == proc[p].job.batch
        e == IF b.pending[h] # None THEN b.pending[h] ELSE Find(p, h)
        extent == IF b.pending[h] # None THEN b.end ELSE b.start
    IN  e # None /\ e.off + e.len <= extent

(* pl_store_new_silo: one write transaction creates the tables and checks  *)
(* the format; pl_store_new_silo_ro only looks.                            *)
Open(p) ==
    /\ proc[p].mode = "closed" /\ lock = None
    /\ db' = [db EXCEPT !.format = TRUE]
    /\ proc' = [proc EXCEPT ![p].mode = "rw"]
    /\ UNCHANGED <<cell, size, synced, lock>>

OpenReadOnly(p) ==
    /\ proc[p].mode = "closed" /\ db.format
    /\ proc' = [proc EXCEPT ![p].mode = "ro"]
    /\ UNCHANGED <<cell, size, synced, db, lock>>

(* Mutant of Close: the extents staged last are cut off the pack.          *)
CloseTruncates(p) ==
    /\ proc[p].mode # "closed" /\ proc[p].job = Idle
    /\ LET tails == {proc[p].staged[h].off : h \in {x \in Objects : proc[p].staged[x] # None}}
           n == IF tails = {} THEN size ELSE CHOOSE o \in tails : \A q \in tails : o <= q
       IN  /\ size' = n
           /\ synced' = IF synced <= n THEN synced ELSE n
           /\ cell' = [i \in Offsets |-> IF i <= n THEN cell[i] ELSE Junk]
    /\ proc' = [proc EXCEPT ![p] = Closed]
    /\ UNCHANGED <<db, lock>>

(* silo_close frees what is staged and never truncates the pack.           *)
Close(p) ==
    /\ proc[p].mode # "closed" /\ proc[p].job = Idle
    /\ proc' = [proc EXCEPT ![p] = Closed]
    /\ UNCHANGED <<cell, size, synced, db, lock>>

(* pl_store_load of a pin reads the set C of the pins inside it that have  *)
(* no canonical form yet, dependencies first.                              *)
Load(p, C) ==
    /\ proc[p].mode # "closed" /\ proc[p].job = Idle
    /\ C # {} /\ C \cap proc[p].canon = {}
    /\ \A h \in C : Loadable(p, h) /\ Sub[h] \subseteq C \cup proc[p].canon
    /\ proc' = [proc EXCEPT ![p].canon = @ \cup C]
    /\ UNCHANGED <<cell, size, synced, db, lock>>

-----------------------------------------------------------------------------
(* save_discover_pin from the pin h finds the pins without a canonical     *)
(* form, and stops at the others; there may be none left to find.          *)
Discovers(p, h, items) ==
    IF items = {} THEN h \in proc[p].canon
    ELSE /\ h \in items
         /\ \A x \in items : Sub[x] \subseteq items \cup proc[p].canon
         /\ \A x \in items \ {h} : \E y \in items : x \in Sub[y]

(* pl_store_silo_batch_begin: the batch starts at the end of the pack,     *)
(* under the write transaction.                                            *)
NewBatch ==
    [start |-> size, flushed |-> size, end |-> size, changed |-> FALSE,
     dirty |-> FALSE, pending |-> Empty, image |-> [i \in Offsets |-> Junk]]

(* pl_store_save_pin_or_root, up to its first item.  Ice of a canonical    *)
(* pin has nothing to do.                                                  *)
Begin(p, h, items, root, key) ==
    /\ proc[p].mode = "rw" /\ proc[p].job = Idle /\ lock = None
    /\ root => Len(db.roots) < MaxJournal
    /\ IF h \in Rows
       THEN ~root /\ key \in Keys /\ proc[p].kv[key] = None /\ db.codecache[key] = None
       ELSE key = None
    /\ Discovers(p, h, items)
    /\ items = {} => root
    /\ lock' = p
    /\ proc' = [proc EXCEPT ![p].job =
          [at |-> "put", pin |-> h, root |-> root, key |-> key,
           items |-> items, todo |-> items,
           batch |-> NewBatch]]
    /\ UNCHANGED <<cell, size, synced, db>>

(* The pack after the batch b has written n more of its units.             *)
Written(b, n) ==
    [i \in Offsets |-> IF b.flushed < i /\ i <= b.flushed + n
                       THEN b.image[i] ELSE cell[i]]

(* The batch then; it is dirty when anything was written.                  *)
Flushed(b, n) == [b EXCEPT !.flushed = b.flushed + n, !.dirty = b.dirty \/ n > 0]

(* batch_append of the stream of h to batch b.                             *)
Appended(b, h) ==
    [b EXCEPT !.end = b.end + Size[h],
              !.changed = TRUE,
              !.pending = [b.pending EXCEPT ![h] = [off |-> b.end, len |-> Size[h]]],
              !.image = [i \in Offsets |-> IF b.end < i /\ i <= b.end + Size[h]
                                           THEN Unit(h, i - b.end) ELSE b.image[i]]]

(* How many units of a batch a full buffer has forced out: whole buffers,  *)
(* and never the last one.                                                 *)
Overflow(b, n) ==
    /\ \E k \in 0..MaxPack : n = k * PackBuffer
    /\ IF b.end = b.flushed THEN n = 0
                            ELSE (b.end - b.flushed) - n \in 1..PackBuffer

(* save_prepare_silo, one item whose direct pins are all prepared: encode  *)
(* it and pl_store_silo_batch_put.                                         *)
Ready(p, h) == h \in proc[p].job.todo /\ Sub[h] \cap proc[p].job.todo = {}

PutPresent(p, h) ==
    /\ proc[p].job.at = "put"
    /\ Ready(p, h)
    /\ Contains(p, h)
    /\ proc' = [proc EXCEPT ![p].job.todo = @ \ {h}]
    /\ UNCHANGED <<cell, size, synced, db, lock>>

Put(p, h) ==
    /\ proc[p].job.at = "put"
    /\ Ready(p, h)
    /\ ~Contains(p, h)
    /\ proc[p].job.batch.end + Size[h] <= MaxPack
    /\ LET b == Appended(proc[p].job.batch, h)
       IN  \E n \in 0..MaxPack :
              /\ Overflow(b, n)
              /\ cell' = Written(b, n)
              /\ size' = IF n = 0 THEN size ELSE b.flushed + n
              /\ proc' = [proc EXCEPT ![p].job =
                             [proc[p].job EXCEPT !.todo = @ \ {h}, !.batch = Flushed(b, n)]]
    /\ UNCHANGED <<synced, db, lock>>

-----------------------------------------------------------------------------
(* Commit.  A job that has put all its items leaves "put" here.            *)
Committing(p) == proc[p].job.at = "put" /\ proc[p].job.todo = {}

(* Save: nothing is new, the root included, so nothing is written.         *)
Unchanged(p) ==
    /\ ~proc[p].job.batch.changed
    /\ proc[p].staged = Empty
    /\ \A k \in Keys : proc[p].kv[k] = None
    /\ db.root = proc[p].job.pin

(* save_build_canonical and save_publish_targets: the items are canonical  *)
(* from now on.                                                            *)
Finished(pr) == [pr EXCEPT !.job = Idle, !.canon = @ \cup pr.job.items]

CommitUnchanged(p) ==
    /\ Committing(p) /\ proc[p].job.root
    /\ Contains(p, proc[p].job.pin) /\ Unchanged(p)
    /\ proc' = [proc EXCEPT ![p] = Finished(@)]
    /\ lock' = None
    /\ UNCHANGED <<cell, size, synced, db>>

(* batch_flush, for Ice and for a Save that has something to publish.      *)
Flush(p) ==
    /\ Committing(p)
    /\ proc[p].job.root => Contains(p, proc[p].job.pin) /\ ~Unchanged(p)
    /\ LET b == proc[p].job.batch
           n == b.end - b.flushed
       IN  /\ cell' = Written(b, n)
           /\ size' = IF n = 0 THEN size ELSE b.end
           /\ proc' = [proc EXCEPT ![p].job =
                          [proc[p].job EXCEPT !.batch = Flushed(b, n), !.at = "flush"]]
    /\ UNCHANGED <<synced, db, lock>>

(* Ice keeps the extents in the process and lets the transaction go.  The  *)
(* compiler (pl_store_put_code) then stages its cache entry.               *)
Staged(pr) ==
    [h \in Objects |-> IF pr.job.batch.pending[h] # None
                       THEN pr.job.batch.pending[h] ELSE pr.staged[h]]

Cached(pr) == [k \in Keys |-> IF k = pr.job.key THEN pr.job.pin ELSE pr.kv[k]]

Stage(p) ==
    /\ proc[p].job.at = "flush" /\ ~proc[p].job.root
    /\ proc' = [proc EXCEPT ![p] =
          [Finished(@) EXCEPT !.staged = Staged(proc[p]), !.kv = Cached(proc[p])]]
    /\ lock' = None
    /\ UNCHANGED <<cell, size, synced, db>>

(* Mutant of Sync: only what this batch wrote asks for the sync.           *)
SyncOwnBatch(p) ==
    /\ proc[p].job.at = "flush" /\ proc[p].job.root
    /\ synced' = IF proc[p].job.batch.dirty THEN size ELSE synced
    /\ proc' = [proc EXCEPT ![p].job.at = "sync"]
    /\ UNCHANGED <<cell, size, db, lock>>

(* pack_sync, when this batch or an earlier Ice has written to the pack.   *)
Sync(p) ==
    /\ proc[p].job.at = "flush" /\ proc[p].job.root
    /\ synced' = IF proc[p].job.batch.dirty \/ proc[p].staged # Empty
                 THEN size ELSE synced
    /\ proc' = [proc EXCEPT ![p].job.at = "sync"]
    /\ UNCHANGED <<cell, size, db, lock>>

(* batch_index: an entry another process has published stays.              *)
Indexable(p, entries) ==
    LET b == proc[p].job.batch
    IN  \A h \in Objects : entries[h] # None =>
            /\ entries[h].off + entries[h].len <= b.end
            /\ db.objects[h] # None =>
                  db.objects[h].off + db.objects[h].len <= b.start

Indexed(p) ==
    [h \in Objects |->
        IF db.objects[h] # None THEN db.objects[h]
        ELSE IF proc[p].staged[h] # None THEN proc[p].staged[h]
        ELSE proc[p].job.batch.pending[h]]

(* Mutant of Journaled: the size recorded is that before the batch.        *)
JournaledStart(p) ==
    Append(db.roots, [hash |-> proc[p].job.pin, pack |-> proc[p].job.batch.start])

(* silo_journal_append.                                                    *)
Journaled(p) ==
    Append(db.roots, [hash |-> proc[p].job.pin, pack |-> proc[p].job.batch.end])

(* What the transaction holds when it commits.                             *)
Published(p) ==
    [db EXCEPT
       !.objects = Indexed(p),
       !.codecache = [k \in Keys |-> IF proc[p].kv[k] # None
                                     THEN proc[p].kv[k] ELSE db.codecache[k]],
       !.root = proc[p].job.pin,
       !.roots = IF db.root # proc[p].job.pin THEN Journaled(p) ELSE db.roots]

Publish(p) ==
    /\ proc[p].job.at = "sync"
    /\ Indexable(p, proc[p].staged)
    /\ Indexable(p, proc[p].job.batch.pending)
    /\ db' = Published(p)
    /\ proc' = [proc EXCEPT ![p] =
          [Finished(@) EXCEPT !.staged = Empty, !.kv = [k \in Keys |-> None]]]
    /\ lock' = None
    /\ UNCHANGED <<cell, size, synced>>

-----------------------------------------------------------------------------
(* Failures.  The writes that may be under way in p, each as a batch and   *)
(* the number of its units that would reach the pack.                      *)
InFlight(p) ==
    LET b == proc[p].job.batch
        encoding == {h \in proc[p].job.todo :
                        Ready(p, h) /\ ~Contains(p, h) /\ b.end + Size[h] <= MaxPack}
    IN  {<<b, 0>>}
        \cup (IF Committing(p) THEN {<<b, b.end - b.flushed>>} ELSE {})
        \cup (IF proc[p].job.at = "put"
              THEN {w \in {Appended(b, h) : h \in encoding} \X (0..MaxPack) :
                       Overflow(w[1], w[2])}
              ELSE {})

(* The contents and the length of the pack when such a write stops early.  *)
Torn(p) ==
    UNION {{[cell |-> Written(w[1], n),
             size |-> IF n = 0 THEN size ELSE w[1].flushed + n] : n \in 0..w[2]}
             : w \in InFlight(p)}

Cut(c, n) == [i \in Offsets |-> IF i <= n THEN c[i] ELSE Junk]

(* pl_store_silo_batch_abort after any failure, or a commit that fails: the *)
(* pack is cut back to where the batch started, or keeps an orphan tail;    *)
(* what is staged stays for the next Save.                                  *)
Fail(p) ==
    /\ proc[p].job # Idle
    /\ \E t \in Torn(p), n \in 0..MaxPack :
          /\ n \in {t.size, proc[p].job.batch.start}
          /\ cell' = Cut(t.cell, n)
          /\ size' = n
          /\ synced' = IF synced <= n THEN synced ELSE n
    /\ proc' = [proc EXCEPT ![p].job = Idle]
    /\ lock' = None
    /\ UNCHANGED db

(* A process is killed; the kernel keeps what it has written.              *)
Kill(p) ==
    /\ proc[p].mode # "closed"
    /\ IF proc[p].job = Idle
       THEN UNCHANGED <<cell, size>>
       ELSE \E t \in Torn(p) : cell' = t.cell /\ size' = t.size
    /\ proc' = [proc EXCEPT ![p] = Closed]
    /\ lock' = IF lock = p THEN None ELSE lock
    /\ UNCHANGED <<synced, db>>

(* The power is cut: of the part of the pack that was not synced, any      *)
(* length may be left, and any of its units may not have reached the disk. *)
PowerCut ==
    /\ \E n \in synced..size : \E lost \in SUBSET ((synced + 1)..n) :
          /\ size' = n
          /\ cell' = [i \in Offsets |-> IF i > n \/ i \in lost THEN Junk ELSE cell[i]]
          /\ synced' = n
    /\ proc' = [p \in Procs |-> Closed]
    /\ lock' = None
    /\ UNCHANGED db

Next ==
    \/ \E p \in Procs :
          \/ Open(p) \/ OpenReadOnly(p) \/ Close(p)
          \/ \E C \in SUBSET Objects : Load(p, C)
          \/ \E h \in Objects, items \in SUBSET Objects, root \in BOOLEAN,
                key \in Keys \cup {None} : Begin(p, h, items, root, key)
          \/ \E h \in Objects : PutPresent(p, h) \/ Put(p, h)
          \/ CommitUnchanged(p) \/ Flush(p) \/ Stage(p) \/ Sync(p) \/ Publish(p)
          \/ Fail(p) \/ Kill(p)
    \/ PowerCut

Spec == Init /\ [][Next]_vars

-----------------------------------------------------------------------------
(* Every published object can be loaded, whatever fails next: its extent   *)
(* lies in the part of pins.pack that a power cut leaves, it holds the     *)
(* stream of that object, and the pins inside it are published too; the    *)
(* root is published, and so is every row the compile cache names.  It is  *)
(* what batch_commit orders its writes for (pack_sync before the index).   *)
PublishedIsLoadable ==
    /\ \A h \in Objects : db.objects[h] # None =>
          /\ db.objects[h].off + db.objects[h].len <= synced
          /\ Holds(cell, h, db.objects[h])
          /\ \A s \in Sub[h] : db.objects[s] # None
    /\ db.root # None => db.objects[db.root] # None
    /\ \A k \in Keys : db.codecache[k] # None => db.objects[db.codecache[k]] # None

(* Save may stop discovery at a canonical pin ("either persisted or staged *)
(* in this store", pin.c): each one is staged or published, at an extent   *)
(* that still holds its stream, with its own pins canonical as well.  A    *)
(* batch that another process cuts back, or a Save that failed, takes      *)
(* nothing away.                                                           *)
CanonicalIsAvailable ==
    \A p \in Procs : \A h \in proc[p].canon :
        Loadable(p, h) /\ Sub[h] \subseteq proc[p].canon

(* The journal is the history of the root: it ends with the root, it never *)
(* repeats one, and the whole closure of an entry's root lies below the    *)
(* pack size the entry records.                                            *)
JournalTellsRoots ==
    /\ IF db.roots = <<>> THEN db.root = None
                          ELSE db.roots[Len(db.roots)].hash = db.root
    /\ \A i \in 1..(Len(db.roots) - 1) : db.roots[i].hash # db.roots[i + 1].hash
    /\ \A i \in 1..Len(db.roots) :
          LET Below(h) == /\ db.objects[h] # None
                          /\ db.objects[h].off + db.objects[h].len <= db.roots[i].pack
          IN  \E C \in SUBSET Objects :
                 /\ db.roots[i].hash \in C
                 /\ \A h \in C : Below(h) /\ Sub[h] \subseteq C
=============================================================================
