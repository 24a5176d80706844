------------------------------ MODULE NativeStore ------------------------------
(***************************************************************************)
(* The native snapshot arena of pkg/plan/src/store_native.c: an append-    *)
(* only file of records in front of which two superblocks are the only     *)
(* thing ever overwritten.  One writer process stages objects and cache    *)
(* rows, and a Save publishes a checkpoint: serialise the index, append a  *)
(* journal record, synchronise the data, write the inactive superblock,    *)
(* synchronise again.  Read-only inspectors in other processes adopt       *)
(* checkpoints while the writer works.  A process may stop at any step,    *)
(* any system call may fail, and the machine may lose power.               *)
(*                                                                         *)
(* The arena is a sequence of records and an offset is a position in it;   *)
(* granules, padding, alignment and page protection are left out.  The     *)
(* Patricia tree that maps a hash to an offset is a function here: its     *)
(* serialised form is one record.                                          *)
(***************************************************************************)
EXTENDS Integers, Sequences, FiniteSets

CONSTANTS
  Hashes,     \* content hashes of the objects that may be saved
  Deps,       \* Deps[h]: the hashes of the PINs an object refers to
  Keys,       \* keys of the compiler cache
  Readers,    \* inspector processes
  Capacity,   \* records that fit into the address window
  None        \* no value

ASSUME StoreAssumption ==
  /\ Deps \in [Hashes -> SUBSET Hashes]
  /\ Capacity \in Nat
  /\ None \notin Hashes

VARIABLES
  exists,     \* arena.dat is in its directory
  linked,     \* ... and the directory entry is on disk
  super,      \* the two superblocks, as any process reads them
  disk,       \* the superblocks known to be on disk
  arena,      \* the records, as any process reads them
  safe,       \* how many leading records are known to be on disk
  lock,       \* the writer holds arena.commit.lock exclusively
  pc,         \* what the writer process is doing
  slot,       \* its active superblock
  committed,  \* its last checkpoint
  nextId,     \* work.next_id
  objects,    \* working object index: its contents and serialised form
  cache,      \* working cache index, likewise
  candidate,  \* the checkpoint being built
  poisoned,   \* publication failed half way; no writes until reopen
  reader,     \* the inspectors
  saved       \* the history at the last Save that published a checkpoint

fileVars == <<exists, linked, super, disk, arena, safe>>
workVars == <<slot, committed, nextId, objects, cache, candidate, poisoned>>
vars == <<fileVars, lock, pc, workVars, reader, saved>>

Slots == {0, 1}
Refs == 0..Capacity

--------------------------------------------------------------------------------
(* Records and superblocks.  A journal record links to the one before; its  *)
(* entries are the roots along that chain, oldest first, so its own hash is *)
(* the last of them and its sequence number their count.                    *)

Object(h, id, subs) == [type |-> "object", hash |-> h, id |-> id, subs |-> subs]
Index(m) == [type |-> "index", map |-> m]
Journal(prev, entries, root, end) ==
  [type |-> "journal", previous |-> prev, entries |-> entries, root |-> root,
   end |-> end]
CacheRow(h) == [type |-> "cache", hash |-> h]

(* What a lost page reads as, and a superblock no checksum accepts. *)
Junk == [type |-> "junk"]
Bad == [type |-> "bad"]

Empty == [x \in {} |-> 0]

(* native_super.  The fields fixed by the build are left out. *)
Superblock(g, end, objs, cch, jrnl, seq, ids, root, h) ==
  [type |-> "super", generation |-> g, end |-> end, objects |-> objs,
   cache |-> cch, journal |-> jrnl, sequence |-> seq, next_id |-> ids,
   root |-> root, root_hash |-> h]

FirstSuper == Superblock(1, 0, 0, 0, 0, 0, 1, 0, None)

(* The checks and readings below are of a sequence a of records. *)

IsRecord(a, off, end, type) ==
  off \in 1..end /\ off <= Len(a) /\ a[off].type = type

(* nlookup: the offset a serialised index gives a key, 0 when it has none. *)
Lookup(a, off, key) ==
  IF off # 0 /\ key \in DOMAIN a[off].map THEN a[off].map[key] ELSE 0

(* npin: the object record at off has a usable header. *)
IsPin(a, off, end, ids) ==
  IsRecord(a, off, end, "object") /\ a[off].id \in 1..ids - 1

(* nsb_valid: the checks made when a superblock is read.  They look at the  *)
(* head of each structure only.                                             *)
Valid(a, sb) ==
  /\ sb # Bad
  /\ sb.end <= Len(a)
  /\ sb.objects # 0 => IsRecord(a, sb.objects, sb.end, "index")
  /\ sb.cache # 0 => IsRecord(a, sb.cache, sb.end, "index")
  /\ sb.root # 0 =>
       /\ IsPin(a, sb.root, sb.end, sb.next_id)
       /\ a[sb.root].hash = sb.root_hash
       /\ Lookup(a, sb.objects, sb.root_hash) = sb.root
  /\ sb.journal # 0 =>
       /\ IsRecord(a, sb.journal, sb.end, "journal")
       /\ Len(a[sb.journal].entries) = sb.sequence
       /\ a[sb.journal].root = sb.root
       /\ a[sb.journal].entries[sb.sequence] = sb.root_hash
       /\ a[sb.journal].end \in sb.journal..sb.end
  /\ sb.journal = 0 => sb.sequence = 0 /\ sb.root = 0

(* Of two superblocks read, the one to use: the newer valid one, and the    *)
(* first of equals.  Bad when neither is valid, which is an error.          *)
Chosen(a, x, y) ==
  LET first == Valid(a, x)
      second == Valid(a, y)
  IN IF second /\ (first => y.generation > x.generation) THEN y
     ELSE IF first THEN x ELSE Bad

--------------------------------------------------------------------------------
(* The history a checkpoint records. *)
EntriesAt(a, off) == IF off = 0 THEN <<>> ELSE a[off].entries
History(a, sb) == IF sb = Bad THEN <<>> ELSE EntriesAt(a, sb.journal)

(* What a process that opened the file now would find. *)
Found == IF exists THEN Chosen(arena, super[0], super[1]) ELSE Bad
Visible == History(arena, Found)

--------------------------------------------------------------------------------
(* The writer's private state: an index is its contents and the offset of   *)
(* the record that serialises them, 0 when there is none yet.               *)

NoIndex == [map |-> Empty, ref |-> 0]
IndexAt(a, off) == IF off = 0 THEN NoIndex ELSE [map |-> a[off].map, ref |-> off]
Insert(index, key, off) ==
  [map |-> [k \in DOMAIN index.map \cup {key} |->
              IF k = key THEN off ELSE index.map[k]],
   ref |-> 0]
Unserialised(index) == index.map # Empty /\ index.ref = 0
Same(index, off) == index.ref = off /\ ~Unserialised(index)

Down ==
  /\ slot' = 0 /\ committed' = Bad /\ nextId' = 1 /\ objects' = NoIndex
  /\ cache' = NoIndex /\ candidate' = Bad /\ poisoned' = FALSE

(* Bug: the capacity of the window is not checked. *)
AllocateUnchecked(record) == arena' = Append(arena, record)

(* nalloc: the next record goes at the end of the arena, if it fits. *)
Room == Len(arena) < Capacity
Allocate(record) == Room /\ arena' = Append(arena, record)
Here == Len(arena) + 1

--------------------------------------------------------------------------------
(* Opening for writing.  The commit lock is held from first to last, and    *)
(* failure anywhere is Stop.                                                *)

Locked == \E r \in Readers : reader[r].held

OpenLock ==
  /\ pc = "down" /\ ~Locked
  /\ pc' = "opening" /\ lock' = TRUE
  /\ UNCHANGED <<fileVars, workVars, reader, saved>>

OpenCreate ==
  /\ pc = "opening" /\ ~exists
  /\ exists' = TRUE /\ linked' = FALSE
  /\ pc' = "created"
  /\ UNCHANGED <<super, disk, arena, safe, lock, workVars, reader, saved>>

InitSuper ==
  /\ pc = "created"
  /\ \/ super' = [super EXCEPT ![0] = FirstSuper] /\ pc' = "written"
     \/ super' = [super EXCEPT ![0] = Bad] /\ pc' = "failed"   \* short write
  /\ UNCHANGED <<exists, linked, disk, arena, safe, lock, workVars, reader, saved>>

InitSync ==
  /\ pc = "written"
  /\ disk' = super
  /\ committed' = FirstSuper /\ slot' = 0
  /\ pc' = "settle"
  /\ UNCHANGED <<exists, linked, super, arena, safe, lock, nextId, objects, cache,
                 candidate, poisoned, reader, saved>>

(* Bug: the writer takes the first superblock whenever it is valid. *)
OpenFirst ==
  /\ pc = "opening" /\ Found # Bad
  /\ slot' = IF Valid(arena, super[0]) THEN 0 ELSE 1
  /\ committed' = super[slot']
  /\ pc' = "settle"
  /\ UNCHANGED <<fileVars, lock, nextId, objects, cache, candidate, poisoned, reader,
                 saved>>

(* An existing file: the newest valid checkpoint is the one to continue. *)
OpenExisting ==
  /\ pc = "opening" /\ Found # Bad
  /\ committed' = Found
  /\ slot' = IF Found = super[1] THEN 1 ELSE 0
  /\ pc' = "settle"
  /\ UNCHANGED <<fileVars, lock, nextId, objects, cache, candidate, poisoned, reader,
                 saved>>

(* work = committed; abandoned staging is cut off. *)
Settle ==
  /\ pc = "settle"
  /\ arena' = SubSeq(arena, 1, committed.end)
  /\ safe' = IF safe < committed.end THEN safe ELSE committed.end
  /\ nextId' = committed.next_id
  /\ objects' = IndexAt(arena, committed.objects)
  /\ cache' = IndexAt(arena, committed.cache)
  /\ pc' = "dirsync"
  /\ UNCHANGED <<exists, linked, super, disk, lock, slot, committed, candidate,
                 poisoned, reader, saved>>

OpenReady ==
  /\ pc = "dirsync"
  /\ linked' = TRUE
  /\ pc' = "idle" /\ lock' = FALSE
  /\ UNCHANGED <<exists, super, disk, arena, safe, workVars, reader, saved>>

(* The writer closes the store, gives up opening it, or is killed.  What it *)
(* wrote stays in the page cache; the kernel drops its locks.               *)
Stop ==
  /\ pc # "down"
  /\ pc' = "down" /\ lock' = FALSE
  /\ Down
  /\ UNCHANGED <<fileVars, reader, saved>>

--------------------------------------------------------------------------------
(* Staging.  All of it is under save_mu, so one operation at a time. *)

Writable == pc = "idle" /\ ~poisoned

(* Bug: the identifier is taken only when the object is inserted. *)
StageReusingId(h) ==
  /\ Writable
  /\ h \notin DOMAIN objects.map /\ Deps[h] \subseteq DOMAIN objects.map
  /\ Allocate(Object(h, nextId, {objects.map[d] : d \in Deps[h]}))
  /\ \/ objects' = Insert(objects, h, Here) /\ nextId' = nextId + 1
     \/ UNCHANGED <<objects, nextId>>
  /\ UNCHANGED <<exists, linked, super, disk, safe, lock, pc, slot, committed, cache,
                 candidate, poisoned, reader, saved>>

(* pl_native_stage.  The PINs it refers to are native already; an object    *)
(* whose record is complete but whose insertion is prevented keeps its      *)
(* identifier.                                                              *)
Stage(h) ==
  /\ Writable
  /\ h \notin DOMAIN objects.map /\ Deps[h] \subseteq DOMAIN objects.map
  /\ Allocate(Object(h, nextId, {objects.map[d] : d \in Deps[h]}))
  /\ nextId' = nextId + 1
  /\ \/ objects' = Insert(objects, h, Here)
     \/ UNCHANGED objects                               \* fault at "object"
  /\ UNCHANGED <<exists, linked, super, disk, safe, lock, pc, slot, committed, cache,
                 candidate, poisoned, reader, saved>>

(* nput: a compiler-cache row for an object the working index has. *)
PutCache(k, h) ==
  /\ Writable
  /\ h \in DOMAIN objects.map
  /\ Allocate(CacheRow(h))
  /\ cache' = Insert(cache, k, Here)
  /\ UNCHANGED <<exists, linked, super, disk, safe, lock, pc, slot, committed, nextId,
                 objects, candidate, poisoned, reader, saved>>

--------------------------------------------------------------------------------
(* pl_native_checkpoint, from load to the two synchronisations. *)

RootChanged(h) == committed.root = 0 \/ committed.root_hash # h

NothingNew(h) ==
  /\ ~RootChanged(h)
  /\ Len(arena) = committed.end
  /\ Same(objects, committed.objects) /\ Same(cache, committed.cache)

(* The early return: the root is the committed one and nothing was staged, *)
(* so Save answers true and changes nothing.                               *)
ReturnsAtOnce(h) == Writable /\ h \in DOMAIN objects.map /\ NothingNew(h)

(* nemit: serialise an index unless an earlier attempt has done so. *)
Emit(index) ==
  IF Unserialised(index) THEN Allocate(Index(index.map)) ELSE UNCHANGED arena
Emitted(index) ==
  IF Unserialised(index) THEN [index EXCEPT !.ref = Here] ELSE index

BeginSave(h) ==
  /\ Writable /\ h \in DOMAIN objects.map
  /\ ~NothingNew(h)
  /\ Emit(objects) /\ objects' = Emitted(objects)
  /\ candidate' = [committed EXCEPT !.generation = @ + 1, !.next_id = nextId,
                                    !.objects = Emitted(objects).ref,
                                    !.root = objects.map[h], !.root_hash = h]
  /\ pc' = "cache"
  /\ UNCHANGED <<exists, linked, super, disk, safe, lock, slot, committed, nextId,
                 cache, poisoned, reader, saved>>

EmitCache ==
  /\ pc = "cache"
  /\ Emit(cache) /\ cache' = Emitted(cache)
  /\ candidate' = [candidate EXCEPT !.cache = Emitted(cache).ref]
  /\ pc' = "journal"
  /\ UNCHANGED <<exists, linked, super, disk, safe, lock, slot, committed, nextId,
                 objects, poisoned, reader, saved>>

(* The journal record of a changed root, then the end of the checkpoint. *)
AppendJournal ==
  /\ pc = "journal"
  /\ IF RootChanged(candidate.root_hash)
     THEN /\ Allocate(Journal(committed.journal,
                              Append(History(arena, committed), candidate.root_hash),
                              candidate.root, Here))
          /\ candidate' = [candidate EXCEPT !.journal = Here, !.sequence = @ + 1,
                                            !.end = Here]
     ELSE /\ UNCHANGED arena
          /\ candidate' = [candidate EXCEPT !.end = Len(arena)]
  /\ pc' = "sync"
  /\ UNCHANGED <<exists, linked, super, disk, safe, lock, slot, committed, nextId,
                 objects, cache, poisoned, reader, saved>>

(* Bug: only the appended range is flushed, not the file. *)
DataSyncRange ==
  /\ pc = "sync"
  /\ safe' = Len(arena)
  /\ pc' = "lock"
  /\ UNCHANGED <<exists, linked, super, disk, arena, lock, workVars, reader, saved>>

(* The whole file is synchronised, superblocks included. *)
DataSync ==
  /\ pc = "sync"
  /\ safe' = Len(arena) /\ disk' = super
  /\ pc' = "lock"
  /\ UNCHANGED <<exists, linked, super, arena, lock, workVars, reader, saved>>

LockCommit ==
  /\ pc = "lock" /\ ~Locked
  /\ lock' = TRUE /\ pc' = "publish"
  /\ UNCHANGED <<fileVars, workVars, reader, saved>>

(* Bug: the superblock in use is overwritten. *)
WriteActive ==
  /\ pc = "publish"
  /\ poisoned' = TRUE
  /\ \/ super' = [super EXCEPT ![slot] = candidate] /\ pc' = "wrote"
     \/ super' = [super EXCEPT ![slot] = Bad] /\ pc' = "torn"
  /\ UNCHANGED <<exists, linked, disk, arena, safe, lock, slot, committed, nextId,
                 objects, cache, candidate, reader, saved>>

(* Bug: a failure after the write does not stop further Saves. *)
WriteUnpoisoned ==
  /\ pc = "publish"
  /\ \/ super' = [super EXCEPT ![1 - slot] = candidate] /\ pc' = "wrote"
     \/ super' = [super EXCEPT ![1 - slot] = Bad] /\ pc' = "torn"
  /\ UNCHANGED <<exists, linked, disk, arena, safe, lock, workVars, reader, saved>>

(* The inactive superblock is overwritten; a short write leaves it bad.     *)
(* From here a failure leaves the store poisoned.                           *)
WriteSuper ==
  /\ pc = "publish"
  /\ poisoned' = TRUE
  /\ \/ super' = [super EXCEPT ![1 - slot] = candidate] /\ pc' = "wrote"
     \/ super' = [super EXCEPT ![1 - slot] = Bad] /\ pc' = "torn"
     \/ super' = super /\ pc' = "torn"                   \* nothing written
  /\ UNCHANGED <<exists, linked, disk, arena, safe, lock, slot, committed, nextId,
                 objects, cache, candidate, reader, saved>>

SuperSync ==
  /\ pc = "wrote"
  /\ disk' = super /\ pc' = "synced"
  /\ UNCHANGED <<exists, linked, super, arena, safe, lock, workVars, reader, saved>>

Finish ==
  /\ pc = "synced"
  /\ slot' = 1 - slot /\ committed' = candidate
  /\ poisoned' = FALSE /\ candidate' = Bad
  /\ pc' = "idle" /\ lock' = FALSE
  /\ saved' = History(arena, candidate)
  /\ UNCHANGED <<fileVars, nextId, objects, cache, reader>>

(* Any step of a Save may fail: Save returns false, unlocked. *)
SaveFails ==
  /\ pc \in {"cache", "journal", "sync", "lock", "publish", "torn", "wrote", "synced"}
  /\ pc' = "idle" /\ lock' = FALSE /\ candidate' = Bad
  /\ UNCHANGED <<fileVars, slot, committed, nextId, objects, cache, poisoned, reader,
                 saved>>

--------------------------------------------------------------------------------
(* An inspector opens the store, or refreshes before a query: both read the *)
(* two superblocks under the shared commit lock and take the newer.         *)

Closed == [held |-> FALSE, first |-> Bad, committed |-> Bad]

ReadFirst(r) ==
  /\ exists /\ ~lock /\ ~reader[r].held
  /\ reader' = [reader EXCEPT ![r].held = TRUE, ![r].first = super[0]]
  /\ UNCHANGED <<fileVars, lock, pc, workVars, saved>>

(* A checkpoint that is unreadable or older is not adopted. *)
Adopt(old, new) ==
  IF new = Bad \/ (old # Bad /\ new.generation < old.generation) THEN old ELSE new

ReadSecond(r) ==
  /\ reader[r].held
  /\ LET old == reader[r].committed
         new == Chosen(arena, reader[r].first, super[1])
     IN reader' = [reader EXCEPT ![r] = [Closed EXCEPT !.committed = Adopt(old, new)]]
  /\ UNCHANGED <<fileVars, lock, pc, workVars, saved>>

ReaderStops(r) ==
  /\ reader[r] # Closed
  /\ reader' = [reader EXCEPT ![r] = Closed]
  /\ UNCHANGED <<fileVars, lock, pc, workVars, saved>>

--------------------------------------------------------------------------------
(* Power fails.  Of what was not synchronised each record is on disk or     *)
(* not, each superblock is the old one, the new one or neither, and a       *)
(* directory entry may be missing.  Records beyond the end of both          *)
(* superblocks are abandoned staging that no opener reads, and are dropped. *)

Survivors(s) ==
  {super[s], disk[s]} \cup (IF super[s] = disk[s] THEN {} ELSE {Bad})

End(sb) == IF sb = Bad THEN 0 ELSE sb.end
LastRead(a, b) == IF End(a) <= End(b) THEN End(b) ELSE End(a)

PowerLoss ==
  /\ pc' = "down" /\ lock' = FALSE /\ Down
  /\ reader' = [r \in Readers |-> Closed]
  /\ \/ \E a \in Survivors(0), b \in Survivors(1) :
          LET size == IF LastRead(a, b) <= Len(arena) THEN LastRead(a, b) ELSE Len(arena)
          IN \E lost \in SUBSET (safe + 1..size) :
               /\ super' = [s \in Slots |-> IF s = 0 THEN a ELSE b]
               /\ disk' = super'
               /\ arena' = [i \in 1..size |-> IF i \in lost THEN Junk ELSE arena[i]]
               /\ safe' = size
               /\ linked' = exists /\ UNCHANGED exists
     \/ /\ exists /\ ~linked
        /\ exists' = FALSE /\ linked' = FALSE
        /\ super' = [s \in Slots |-> Bad] /\ disk' = super'
        /\ arena' = <<>> /\ safe' = 0
  /\ UNCHANGED saved

--------------------------------------------------------------------------------
Init ==
  /\ exists = FALSE /\ linked = FALSE
  /\ super = [s \in Slots |-> Bad] /\ disk = super
  /\ arena = <<>> /\ safe = 0
  /\ lock = FALSE /\ pc = "down"
  /\ slot = 0 /\ committed = Bad /\ nextId = 1 /\ objects = NoIndex
  /\ cache = NoIndex /\ candidate = Bad /\ poisoned = FALSE
  /\ reader = [r \in Readers |-> Closed]
  /\ saved = <<>>

Open == OpenLock \/ OpenCreate \/ InitSuper \/ InitSync \/ OpenExisting \/ Settle
          \/ OpenReady
Staging == \E h \in Hashes : Stage(h) \/ \E k \in Keys : PutCache(k, h)
Save == \/ \E h \in Hashes : BeginSave(h)
        \/ EmitCache \/ AppendJournal \/ DataSync \/ LockCommit \/ WriteSuper
        \/ SuperSync \/ Finish \/ SaveFails
Inspect == \E r \in Readers : ReadFirst(r) \/ ReadSecond(r) \/ ReaderStops(r)

Next == Open \/ Staging \/ Save \/ Inspect \/ Stop \/ PowerLoss

Spec == Init /\ [][Next]_vars

--------------------------------------------------------------------------------
(* Properties. *)

Prefix(s, t) == Len(s) <= Len(t) /\ \A i \in 1..Len(s) : s[i] = t[i]

Pcs == {"down", "opening", "created", "failed", "written", "settle", "dirsync",
        "idle", "cache", "journal", "sync", "lock", "publish", "torn", "wrote",
        "synced"}

Maps == UNION {[d -> Refs] : d \in SUBSET (Hashes \cup Keys)}

Records ==
  [type : {"object"}, hash : Hashes, id : Nat, subs : SUBSET Refs]
    \cup [type : {"index"}, map : Maps]
    \cup [type : {"journal"}, previous : Refs, entries : Seq(Hashes), root : Refs,
          end : Refs]
    \cup [type : {"cache"}, hash : Hashes] \cup {Junk}

Superblocks ==
  [type : {"super"}, generation : Nat, end : Refs, objects : Refs, cache : Refs,
   journal : Refs, sequence : Nat, next_id : Nat \ {0}, root : Refs,
   root_hash : Hashes \cup {None}]

(* Every variable has its type; offsets stay inside the address window,     *)
(* which is nalloc's capacity check.                                        *)
TypeOK ==
  /\ exists \in BOOLEAN /\ linked \in BOOLEAN
  /\ lock \in BOOLEAN /\ poisoned \in BOOLEAN
  /\ super \in [Slots -> Superblocks \cup {Bad}]
  /\ disk \in [Slots -> Superblocks \cup {Bad}]
  /\ arena \in Seq(Records) /\ Len(arena) \in Refs /\ safe \in 0..Len(arena)
  /\ pc \in Pcs /\ slot \in Slots
  /\ committed \in Superblocks \cup {Bad} /\ candidate \in Superblocks \cup {Bad}
  /\ nextId \in Nat \ {0}
  /\ objects \in [map : Maps, ref : Refs] /\ cache \in [map : Maps, ref : Refs]
  /\ reader \in [Readers -> [held : BOOLEAN, first : Superblocks \cup {Bad},
                              committed : Superblocks \cup {Bad}]]
  /\ saved \in Seq(Hashes)

(* A Save that published its checkpoint and returned true is never undone:  *)
(* whatever stops, fails or loses power afterwards, whoever opens the store *)
(* finds a checkpoint whose history begins with the saved one.              *)
SavedRecoverable ==
  saved # <<>> => Found # Bad /\ Prefix(saved, Visible)

(* pl_store_verify on a checkpoint, which is of its records up to end, its   *)
(* identifiers below ids, and its two indexes map and rows.                  *)

(* nscrub_records: every record is intact, and object identifiers are unique. *)
RecordsIntact(a, end, ids) ==
  LET pins == {i \in 1..end : a[i].type = "object"}
  IN /\ \A i \in 1..end : a[i].type # "junk"
     /\ \A i \in pins : /\ a[i].id \in 1..ids - 1
                        /\ \A j \in pins : a[i].id = a[j].id => i = j

(* nverify_object: an indexed object has its hash and refers to earlier      *)
(* indexed objects, the ones its contents name.                              *)
ObjectVerifies(a, end, ids, map, h) ==
  /\ IsPin(a, map[h], end, ids) /\ a[map[h]].hash = h
  /\ {a[s].hash : s \in a[map[h]].subs} = Deps[h]
  /\ \A s \in a[map[h]].subs :
       /\ s < map[h] /\ IsPin(a, s, end, ids)
       /\ a[s].hash \in DOMAIN map /\ map[a[s].hash] = s

(* nverify_cache: a cache row names an indexed object. *)
RowVerifies(a, end, map, off) ==
  IsRecord(a, off, end, "cache") /\ a[off].hash \in DOMAIN map

(* The iteration of the journal loop at the i-th entry, which the walk back  *)
(* from the newest of n entries finds at trail[i].                           *)
EntryVerifies(a, end, ids, map, trail, n, i) ==
  LET j == a[trail[i]]
      later == IF i = n THEN end ELSE a[trail[i + 1]].end
  IN /\ IsRecord(a, trail[i], end, "journal")
     /\ Len(j.entries) = i /\ j.end \in trail[i]..later
     /\ j.previous < trail[i] /\ j.previous = (IF i = 1 THEN 0 ELSE trail[i - 1])
     /\ j.entries[i] \in DOMAIN map /\ j.root = map[j.entries[i]]
     /\ IsPin(a, j.root, j.end, ids)
     /\ j.entries[i] = a[trail[n]].entries[i]

(* The journal is an unbroken chain of n entries that ends at journal.       *)
ChainVerifies(a, end, ids, map, journal, n) ==
  \E trail \in [1..n -> 1..end] :
    /\ journal = (IF n = 0 THEN 0 ELSE trail[n])
    /\ \A i \in 1..n : EntryVerifies(a, end, ids, map, trail, n, i)

Scrub(a, end, ids, map, rows, journal, n) ==
  /\ RecordsIntact(a, end, ids)
  /\ \A h \in DOMAIN map : ObjectVerifies(a, end, ids, map, h)
  /\ \A k \in DOMAIN rows : RowVerifies(a, end, map, rows[k])
  /\ ChainVerifies(a, end, ids, map, journal, n)

Verify(a, sb) ==
  Scrub(a, sb.end, sb.next_id, IndexAt(a, sb.objects).map, IndexAt(a, sb.cache).map,
        sb.journal, sb.sequence)

(* The cheap checks made on opening are enough: any superblock that passes  *)
(* them describes a checkpoint that passes the full scrub, also after a     *)
(* retried Save, an abandoned one or a loss of power.                       *)
CheckpointsVerify == \A s \in Slots : Valid(arena, super[s]) => Verify(arena, super[s])

(* An inspector keeps pointers into the extent of the checkpoint it adopted *)
(* without holding any lock: no record of it changes or goes away.          *)
AdoptedImmutable ==
  [][\A r \in Readers :
       LET sb == reader[r].committed
       IN sb # Bad /\ reader'[r].committed # Bad =>
            /\ sb.end <= Len(arena')
            /\ \A i \in 1..sb.end : arena'[i] = arena[i]]_vars

(* The history an inspector reports only grows while it stays open: the     *)
(* writer's failures never show it an entry that is then replaced.          *)
ReaderHistoryGrows ==
  [][\A r \in Readers :
       reader[r].committed \notin {Bad, reader'[r].committed}
         /\ reader'[r].committed # Bad =>
         Prefix(History(arena, reader[r].committed),
                History(arena, reader[r].committed)')]_vars

(* The history that survives any loss of power: that of the newest valid    *)
(* superblock known to be on disk; the visible one when both are.           *)
OnDisk(s) == IF super[s] = disk[s] THEN super[s] ELSE Bad
Sure ==
  IF super = disk THEN Visible
  ELSE IF exists THEN History(arena, Chosen(arena, OnDisk(0), OnDisk(1))) ELSE <<>>

Log == INSTANCE NativeLog WITH log <- Visible, sure <- Sure

(* The arena implements the log of roots of NativeLog. *)
ImplementsLog == Log!LogSpec

(* "Save durably publishes the root and its dependencies" (README.md): when *)
(* Save returns true at once, the root it was given would survive a loss of *)
(* power.                                                                   *)
ReturnIsDurable ==
  \A h \in Hashes : ReturnsAtOnce(h) => Prefix(History(arena, committed), Sure)
================================================================================
