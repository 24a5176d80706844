--------------------------- MODULE NativeStoreProofs ---------------------------
(***************************************************************************)
(* Safety of the native arena for any objects, cache keys, inspectors and  *)
(* capacity.                                                               *)
(*                                                                         *)
(* What a Save published must be found again, and what an inspector has    *)
(* adopted must stay.  Neither is inductive.  The invariant orders the     *)
(* superblocks: of two, one is newer and continues the history of the      *)
(* other; at most one differs from its copy on disk, and then the other is *)
(* on disk and lies between the two copies; and no superblock, on disk or  *)
(* not, describes a record that is not on disk.                            *)
(*                                                                         *)
(* Opening, staging and the steps of a Save come first, then inspectors    *)
(* and the loss of power, then the theorems and the refinement of          *)
(* NativeLog.  The last part is pl_store_verify: a second invariant, that  *)
(* the full scrub passes on both superblocks, on their copies on disk, on  *)
(* the writer's working indexes and on the checkpoint it is publishing.    *)
(***************************************************************************)
EXTENDS NativeStore, TLAPS

(* The checks of Valid, and the same check of every indexed object. *)
Indexed(a, map, end, ids) ==
  \A h \in DOMAIN map : IsPin(a, map[h], end, ids) /\ a[map[h]].hash = h

Sound(a, sb) ==
  /\ sb \in Superblocks /\ Valid(a, sb)
  /\ sb.journal # 0 => sb.root # 0
  /\ Indexed(a, IndexAt(a, sb.objects).map, sb.end, sb.next_id)

(* A later checkpoint has more records and continues the history. *)
Older(a, x, y) ==
  /\ x.generation < y.generation /\ x.end <= y.end
  /\ Prefix(History(a, x), History(a, y))

AtMost(a, x, y) == x = y \/ Older(a, x, y)

(* The checkpoint y adds one entry, for a new root. *)
Continues(a, x, y) ==
  /\ History(a, y) = Append(History(a, x), y.root_hash)
  /\ x.root = 0 \/ x.root_hash # y.root_hash

(* The first n records of a are those of b. *)
Kept(a, b, n) == n <= Len(b) /\ \A i \in 1..n : b[i] = a[i]

--------------------------------------------------------------------------------
Supers ==
  \A s \in Slots :
    /\ super[s] # Bad => Sound(arena, super[s]) /\ super[s].end <= safe
    /\ disk[s] # Bad => Sound(arena, disk[s]) /\ disk[s].end <= safe

OneInDoubt ==
  \A s \in Slots : super[s] # disk[s] =>
    /\ super[1 - s] = disk[1 - s]
    /\ disk[s] # Bad => super[1 - s] # Bad /\ Older(arena, disk[s], super[1 - s])
    /\ super[s] # Bad /\ super[1 - s] # Bad => Older(arena, super[1 - s], super[s])

Ordered ==
  super[0] # Bad /\ super[1] # Bad =>
    Older(arena, super[0], super[1]) \/ Older(arena, super[1], super[0])

SavedOnDisk ==
  saved # <<>> =>
    /\ linked
    /\ \E s \in Slots : /\ super[s] = disk[s] /\ super[s] # Bad
                        /\ Prefix(saved, History(arena, super[s]))

FileInv == Supers /\ OneInDoubt /\ Ordered /\ SavedOnDisk

(* Before the first superblock there is nothing. *)
Blank == super[1] = Bad /\ disk = [s \in Slots |-> Bad] /\ arena = <<>> /\ saved = <<>>

NoFile ==
  /\ ~exists => Blank /\ super[0] = Bad /\ ~linked /\ pc \in {"down", "opening"}
  /\ pc \in {"created", "failed", "written"} => Blank
  /\ pc \in {"created", "failed"} => super[0] = Bad
  /\ pc = "written" => super[0] = FirstSuper

Publishing == {"lock", "publish", "torn", "wrote", "synced"}
Saving == Publishing \cup {"cache", "journal", "sync"}
Working == Saving \cup {"dirsync", "idle"}

(* The writer continues the newest superblock; the other one is older until *)
(* the writer itself has overwritten it.                                    *)
Writer ==
  /\ pc \in Working \cup {"settle"} =>
       /\ exists /\ committed # Bad /\ committed = super[slot]
       /\ ~poisoned /\ super[1 - slot] # Bad => Older(arena, super[1 - slot], committed)
  /\ poisoned => pc \in {"idle", "torn", "wrote", "synced"}
  /\ pc \in Saving \cup {"idle"} => linked
  /\ pc \in {"lock", "publish", "synced"} => super = disk
  /\ pc \in {"torn", "wrote"} => super[slot] = disk[slot]

(* The working indexes describe the arena and include the committed root. *)
Indexes ==
  pc \in Working =>
    /\ committed.next_id <= nextId
    /\ Indexed(arena, objects.map, Len(arena), nextId)
    /\ objects.ref # 0 => /\ IsRecord(arena, objects.ref, Len(arena), "index")
                          /\ arena[objects.ref].map = objects.map
    /\ cache.ref # 0 => IsRecord(arena, cache.ref, Len(arena), "index")
    /\ committed.root # 0 => /\ committed.root_hash \in DOMAIN objects.map
                             /\ objects.map[committed.root_hash] = committed.root

(* The checkpoint being built, before and after its journal entry. *)
Candidate ==
  /\ pc \in Saving =>
       /\ candidate # Bad
       /\ candidate.next_id = nextId
       /\ candidate.root_hash \in DOMAIN objects.map
       /\ candidate.root = objects.map[candidate.root_hash]
  /\ pc \in {"cache", "journal"} =>
       /\ candidate.generation = committed.generation + 1
       /\ candidate.objects = objects.ref /\ objects.ref # 0
       /\ candidate.journal = committed.journal
       /\ candidate.sequence = committed.sequence
  /\ pc = "journal" => candidate.cache = cache.ref
  /\ pc \in Publishing \cup {"sync"} =>
       /\ Sound(arena, candidate) /\ candidate.end = Len(arena)
       /\ Older(arena, committed, candidate)
       /\ \/ History(arena, candidate) = History(arena, committed)
          \/ Continues(arena, committed, candidate)
  /\ pc \in Publishing => safe = Len(arena)
  /\ pc \in {"wrote", "synced"} => super[1 - slot] = candidate

(* What an inspector has adopted is part of a superblock in the file. *)
Inspectors ==
  \A r \in Readers :
    /\ reader[r].held => ~lock /\ exists /\ reader[r].first = super[0]
    /\ reader[r].committed # Bad =>
         \E s \in Slots : /\ super[s] # Bad
                          /\ AtMost(arena, reader[r].committed, super[s])
                          /\ Sound(arena, reader[r].committed)

CommitLock == lock <=> pc \notin {"down", "idle", "cache", "journal", "sync", "lock"}

IInv == TypeOK /\ FileInv /\ NoFile /\ Writer /\ Indexes /\ Candidate /\ Inspectors
          /\ CommitLock

--------------------------------------------------------------------------------
(* Superblocks, records and histories.                                      *)

(* A superblock is never Bad. *)
LEMMA BadIsNoSuper == Bad \notin Superblocks
  BY Zenon DEF Bad, Superblocks

(* A record has the fields of its kind. *)
LEMMA RecordKinds ==
  ASSUME NEW x \in Records
  PROVE  /\ x.type = "index" => x.map \in Maps
         /\ x.type = "journal" => x.entries \in Seq(Hashes) /\ x.root \in Refs
         /\ x.type = "object" => x.hash \in Hashes /\ x.id \in Nat
  BY DEF Records, Junk

(* An index maps hashes and keys to offsets. *)
LEMMA MapsAre ==
  ASSUME NEW m \in Maps
  PROVE  /\ DOMAIN m \subseteq Hashes \cup Keys
         /\ \A k \in DOMAIN m : m[k] \in Refs
         /\ m \in [DOMAIN m -> Refs]
  BY Zenon DEF Maps

(* The empty index is an index. *)
LEMMA NoIndexType == 0 \in Refs /\ NoIndex \in [map : Maps, ref : Refs]
<1>1. {} \in SUBSET (Hashes \cup Keys) /\ Empty \in [{} -> Refs]
  BY Zenon DEF Empty
<1>2. Empty \in Maps
  BY Zenon, <1>1 DEF Maps
<1> QED
  BY <1>2, StoreAssumption DEF Refs, NoIndex

(* ninsert keeps an index an index. *)
LEMMA InsertType ==
  ASSUME NEW index \in [map : Maps, ref : Refs], NEW key \in Hashes \cup Keys,
         NEW off \in Refs
  PROVE  Insert(index, key, off) \in [map : Maps, ref : Refs]
<1> DEFINE d == DOMAIN index.map \cup {key}
           m == [k \in d |-> IF k = key THEN off ELSE index.map[k]]
<1>1. index.map \in Maps
  BY Zenon
<1>2. d \in SUBSET (Hashes \cup Keys) /\ m \in [d -> Refs]
  BY Zenon, <1>1, MapsAre
<1>3. m \in Maps
  BY Zenon, <1>2 DEF Maps
<1>4. 0 \in Refs
  BY StoreAssumption DEF Refs
<1> QED
  BY Zenon, <1>3, <1>4 DEF Insert

(* A checkpoint's history is a sequence of hashes. *)
LEMMA HistoryType ==
  ASSUME NEW a \in Seq(Records), NEW sb, sb = Bad \/ Sound(a, sb)
  PROVE  History(a, sb) \in Seq(Hashes)
<1>1. CASE sb = Bad
  BY <1>1 DEF History
<1>2. CASE sb # Bad /\ sb.journal = 0
  BY <1>2 DEF History, EntriesAt
<1>3. CASE sb # Bad /\ sb.journal # 0
  <2>1. IsRecord(a, sb.journal, sb.end, "journal") /\ sb.end \in Nat
    BY <1>3, StoreAssumption DEF Sound, Valid, Superblocks, Refs
  <2>2. a[sb.journal] \in Records /\ a[sb.journal].type = "journal"
    BY <2>1 DEF IsRecord
  <2> QED
    BY Zenon, <1>3, <2>2, RecordKinds DEF History, EntriesAt
<1> QED
  BY Zenon, <1>1, <1>2, <1>3

(* A checkpoint means the same in every arena that has its records. *)
LEMMA SoundStable ==
  ASSUME NEW a \in Seq(Records), NEW b \in Seq(Records), NEW sb, Sound(a, sb),
         NEW n \in Nat, sb.end <= n, Kept(a, b, n)
  PROVE  Sound(b, sb) /\ History(b, sb) = History(a, sb)
<1>1. /\ sb \in Superblocks /\ sb # Bad
      /\ sb.end \in Nat /\ sb.end <= Len(a) /\ sb.end <= Len(b)
      /\ Len(a) \in Nat /\ Len(b) \in Nat
      /\ \A i \in 1..sb.end : b[i] = a[i]
  <2>1. sb \in Superblocks /\ sb # Bad /\ sb.end <= Len(a) /\ sb.end \in Refs
    BY Zenon DEF Sound, Valid, Superblocks
  <2>2. sb.end \in Nat /\ \A i \in 1..sb.end : i \in 1..n
    BY <2>1, StoreAssumption DEF Refs
  <2>3. Len(a) \in Nat /\ Len(b) \in Nat /\ n <= Len(b) /\ \A i \in 1..n : b[i] = a[i]
    BY DEF Kept
  <2>4. sb.end <= Len(b)
    BY <2>2, <2>3
  <2> QED
    BY Zenon, <2>1, <2>2, <2>3, <2>4
<1>2. ASSUME NEW i, NEW type, IsRecord(a, i, sb.end, type)
      PROVE  IsRecord(b, i, sb.end, type) /\ b[i] = a[i]
  <2>1. i \in 1..sb.end /\ a[i].type = type
    BY Zenon, <1>2 DEF IsRecord
  <2>2. b[i] = a[i]
    BY Zenon, <1>1, <2>1
  <2>3. i <= Len(b)
    BY <1>1, <2>1
  <2> QED
    BY Zenon, <2>1, <2>2, <2>3 DEF IsRecord
<1>3. ASSUME NEW i, NEW ids, IsPin(a, i, sb.end, ids)
      PROVE  IsPin(b, i, sb.end, ids) /\ b[i] = a[i]
  BY Zenon, <1>2, <1>3 DEF IsPin
<1>4. IndexAt(b, sb.objects) = IndexAt(a, sb.objects)
  BY Zenon, <1>2 DEF Sound, Valid, IndexAt
<1>5. \A h : Lookup(b, sb.objects, h) = Lookup(a, sb.objects, h)
  BY Zenon, <1>2 DEF Sound, Valid, Lookup
<1>6. Valid(b, sb)
  <2>1. sb.objects # 0 => IsRecord(b, sb.objects, sb.end, "index")
    BY Zenon, <1>2 DEF Sound, Valid
  <2>2. sb.cache # 0 => IsRecord(b, sb.cache, sb.end, "index")
    BY Zenon, <1>2 DEF Sound, Valid
  <2>3. sb.root # 0 =>
          /\ IsPin(b, sb.root, sb.end, sb.next_id)
          /\ b[sb.root].hash = sb.root_hash
          /\ Lookup(b, sb.objects, sb.root_hash) = sb.root
    BY Zenon, <1>3, <1>5 DEF Sound, Valid
  <2>4. sb.journal # 0 => IsRecord(b, sb.journal, sb.end, "journal")
                          /\ b[sb.journal] = a[sb.journal]
    BY Zenon, <1>2 DEF Sound, Valid
  <2> QED
    BY Zenon, <1>1, <2>1, <2>2, <2>3, <2>4 DEF Sound, Valid
<1>7. Indexed(b, IndexAt(b, sb.objects).map, sb.end, sb.next_id)
  BY Zenon, <1>3, <1>4 DEF Sound, Indexed
<1>8. History(b, sb) = History(a, sb)
  BY Zenon, <1>1, <1>2 DEF Sound, Valid, History, EntriesAt
<1> QED
  BY Zenon, <1>6, <1>7, <1>8 DEF Sound

(* The order of two checkpoints means the same there too. *)
LEMMA OlderStable ==
  ASSUME NEW a \in Seq(Records), NEW b \in Seq(Records), NEW x, NEW y,
         Sound(a, x), Sound(a, y), Older(a, x, y),
         NEW n \in Nat, y.end <= n, Kept(a, b, n)
  PROVE  Older(b, x, y)
<1>1. x.end \in Nat /\ y.end \in Nat
  BY StoreAssumption DEF Sound, Superblocks, Refs
<1>2. x.end <= n
  BY <1>1 DEF Older
<1> QED
  BY Zenon, <1>2, SoundStable DEF Older

(* The prefix order is transitive. *)
LEMMA PrefixTransitive ==
  ASSUME NEW S, NEW r \in Seq(S), NEW s \in Seq(S), NEW t \in Seq(S),
         Prefix(r, s), Prefix(s, t)
  PROVE  Prefix(r, t)
  BY DEF Prefix

(* The order of checkpoints is transitive. *)
LEMMA OlderTransitive ==
  ASSUME NEW a \in Seq(Records), NEW x, NEW y, NEW z,
         Sound(a, x), Sound(a, y), Sound(a, z), AtMost(a, x, y), AtMost(a, y, z)
  PROVE  AtMost(a, x, z) /\ x.end <= z.end
<1>1. /\ x.generation \in Nat /\ y.generation \in Nat /\ z.generation \in Nat
      /\ x.end \in Nat /\ y.end \in Nat /\ z.end \in Nat
  BY StoreAssumption DEF Sound, Superblocks, Refs
<1>2. /\ History(a, x) \in Seq(Hashes) /\ History(a, y) \in Seq(Hashes)
      /\ History(a, z) \in Seq(Hashes)
  BY Zenon, HistoryType
<1>3. CASE x = y \/ y = z
  BY <1>1, <1>3 DEF AtMost, Older
<1>4. CASE Older(a, x, y) /\ Older(a, y, z)
  <2>1. Prefix(History(a, x), History(a, z))
    BY Zenon, <1>2, <1>4, PrefixTransitive DEF Older
  <2> QED
    BY <1>1, <1>4, <2>1 DEF AtMost, Older
<1> QED
  BY Zenon, <1>3, <1>4 DEF AtMost

(* A later checkpoint continues the history of an earlier one. *)
LEMMA AtMostPrefix ==
  ASSUME NEW a \in Seq(Records), NEW x, NEW y, Sound(a, x), Sound(a, y),
         AtMost(a, x, y)
  PROVE  Prefix(History(a, x), History(a, y))
<1>1. History(a, x) \in Seq(Hashes)
  BY Zenon, HistoryType
<1> QED
  BY <1>1 DEF AtMost, Older, Prefix

(* Whoever reads two ordered superblocks takes the newer. *)
LEMMA ChosenNewest ==
  ASSUME NEW a \in Seq(Records), NEW x, NEW y,
         x = Bad \/ Sound(a, x), y = Bad \/ Sound(a, y),
         x # Bad /\ y # Bad => Older(a, x, y) \/ Older(a, y, x)
  PROVE  LET c == Chosen(a, x, y)
         IN /\ c \in {x, y}
            /\ c = Bad <=> x = Bad /\ y = Bad
            /\ x # Bad => AtMost(a, x, c)
            /\ y # Bad => AtMost(a, y, c)
<1>1. /\ x # Bad => Valid(a, x) /\ x.generation \in Nat
      /\ y # Bad => Valid(a, y) /\ y.generation \in Nat
      /\ x = Bad => ~Valid(a, x)
      /\ y = Bad => ~Valid(a, y)
  BY Zenon DEF Sound, Superblocks, Valid
<1>2. CASE x = Bad /\ y = Bad
  BY Zenon, <1>1, <1>2 DEF Chosen
<1>3. CASE x # Bad /\ y = Bad
  BY Zenon, <1>1, <1>3 DEF Chosen, AtMost
<1>4. CASE x = Bad /\ y # Bad
  BY Zenon, <1>1, <1>4 DEF Chosen, AtMost
<1>5. CASE x # Bad /\ y # Bad
  BY <1>1, <1>5 DEF Chosen, AtMost, Older
<1> QED
  BY Zenon, <1>2, <1>3, <1>4, <1>5

--------------------------------------------------------------------------------
(* The beginning, and what appending records leaves alone.                  *)

(* Initially the invariant holds. *)
LEMMA InitIInv == Init => IInv
<1> SUFFICES ASSUME Init PROVE IInv
  BY Zenon
<1>2. TypeOK
  <2>1. 0 \in Refs /\ NoIndex \in [map : Maps, ref : Refs]
    BY Zenon, NoIndexType
  <2>2. arena \in Seq(Records) /\ Len(arena) = 0 /\ saved \in Seq(Hashes)
    BY DEF Init
  <2>3. /\ super \in [Slots -> Superblocks \cup {Bad}]
        /\ disk \in [Slots -> Superblocks \cup {Bad}]
        /\ reader \in [Readers -> [held : BOOLEAN, first : Superblocks \cup {Bad},
                                    committed : Superblocks \cup {Bad}]]
    BY Zenon DEF Init, Closed
  <2>4. /\ exists \in BOOLEAN /\ linked \in BOOLEAN
        /\ lock \in BOOLEAN /\ poisoned \in BOOLEAN
    BY Zenon DEF Init
  <2>5. safe \in 0..Len(arena) /\ nextId \in Nat \ {0} /\ slot \in Slots /\ pc \in Pcs
    BY <2>2 DEF Init, Slots, Pcs
  <2>6. objects = NoIndex /\ cache = NoIndex /\ committed = Bad /\ candidate = Bad
    BY Zenon DEF Init
  <2> QED
    BY Zenon, <2>1, <2>2, <2>3, <2>4, <2>5, <2>6 DEF TypeOK
<1>3. FileInv
  BY Zenon DEF Init, FileInv, Supers, OneInDoubt, Ordered, SavedOnDisk, Slots
<1>4. NoFile /\ CommitLock
  BY Zenon DEF Init, NoFile, Blank, CommitLock, Slots
<1>5. Writer /\ Indexes /\ Candidate
  BY Zenon DEF Init, Writer, Indexes, Candidate, Publishing, Saving, Working
<1>6. Inspectors
  BY Zenon DEF Init, Inspectors, Closed
<1> QED
  BY Zenon, <1>2, <1>3, <1>4, <1>5, <1>6 DEF IInv

(* What TypeOK says of the file. *)
LEMMA FileTypes ==
  ASSUME TypeOK
  PROVE  /\ arena \in Seq(Records) /\ safe \in Nat /\ Len(arena) \in Nat
         /\ safe <= Len(arena) /\ Len(arena) <= Capacity
         /\ super \in [Slots -> Superblocks \cup {Bad}]
         /\ disk \in [Slots -> Superblocks \cup {Bad}]
         /\ slot \in Slots /\ 1 - slot \in Slots
  BY StoreAssumption DEF TypeOK, Refs, Slots

(* No superblock describes more than n records. *)
Ends(n) ==
  \A s \in Slots : /\ super[s] # Bad => super[s].end <= n
                   /\ disk[s] # Bad => disk[s].end <= n

(* Records beyond the superblocks may be appended, cut off and synchronised. *)
LEMMA FileKept ==
  ASSUME TypeOK, TypeOK', FileInv, UNCHANGED <<linked, super, disk, saved>>,
         NEW n \in Nat, n <= safe', Kept(arena, arena', n), Ends(n)
  PROVE  FileInv'
<1>0. arena \in Seq(Records) /\ arena' \in Seq(Records) /\ safe' \in Nat
  BY FileTypes, StoreAssumption DEF TypeOK, Refs
<1>1. ASSUME NEW sb, Sound(arena, sb), sb.end <= n
      PROVE  /\ Sound(arena', sb) /\ sb.end <= safe'
             /\ History(arena', sb) = History(arena, sb)
  <2>1. sb.end \in Nat
    BY <1>1, StoreAssumption DEF Sound, Superblocks, Refs
  <2> QED
    BY <1>0, <1>1, <2>1, SoundStable
<1>2. ASSUME NEW x, NEW y, Sound(arena, x), Sound(arena, y), y.end <= n,
             Older(arena, x, y)
      PROVE  Older(arena', x, y)
  BY Zenon, <1>0, <1>2, OlderStable
<1>3. Supers'
  BY Zenon, <1>1 DEF FileInv, Supers, Ends
<1>4. \A s \in Slots : 1 - s \in Slots
  BY DEF Slots
<1>5. OneInDoubt'
  BY Zenon, <1>2, <1>4 DEF FileInv, Supers, OneInDoubt, Ends
<1>6. Ordered'
  BY Zenon, <1>2 DEF FileInv, Supers, Ordered, Slots, Ends
<1>7. SavedOnDisk'
  BY Zenon, <1>1 DEF FileInv, Supers, SavedOnDisk, Ends
<1> QED
  BY Zenon, <1>3, <1>5, <1>6, <1>7 DEF FileInv

(* ... and the inspectors do not notice. *)
LEMMA ReadersKept ==
  ASSUME TypeOK, TypeOK', FileInv, Inspectors, UNCHANGED <<super, reader>>,
         NEW n \in Nat, Kept(arena, arena', n), Ends(n),
         exists => exists', lock' => lock \/ ~Locked
  PROVE  Inspectors'
<1>0. arena \in Seq(Records) /\ arena' \in Seq(Records)
  BY Zenon, FileTypes DEF TypeOK
<1> SUFFICES ASSUME NEW r \in Readers
             PROVE  /\ reader[r].held => ~lock' /\ exists' /\ reader[r].first = super[0]
                    /\ reader[r].committed # Bad =>
                         \E s \in Slots : /\ super[s] # Bad
                                          /\ AtMost(arena', reader[r].committed, super[s])
                                          /\ Sound(arena', reader[r].committed)
  BY Zenon DEF Inspectors
<1>1. reader[r].held => ~lock' /\ exists' /\ reader[r].first = super[0]
  BY Zenon DEF Inspectors, Locked
<1>2. ASSUME reader[r].committed # Bad
      PROVE  \E s \in Slots : /\ super[s] # Bad
                              /\ AtMost(arena', reader[r].committed, super[s])
                              /\ Sound(arena', reader[r].committed)
  <2> DEFINE sb == reader[r].committed
  <2>1. PICK s \in Slots : /\ super[s] # Bad /\ AtMost(arena, sb, super[s])
                           /\ Sound(arena, sb)
    BY Zenon, <1>2 DEF Inspectors
  <2>2. Sound(arena, super[s]) /\ super[s].end <= n
    BY Zenon, <2>1 DEF FileInv, Supers, Ends
  <2>3. sb.end \in Nat /\ super[s].end \in Nat
    BY <2>1, <2>2, StoreAssumption DEF Sound, Superblocks, Refs
  <2>4. sb.end <= n
    BY <1>0, <2>1, <2>2, <2>3 DEF AtMost, Older
  <2>5. Sound(arena', sb)
    BY Zenon, <1>0, <2>1, <2>4, SoundStable
  <2>6. AtMost(arena', sb, super[s])
    BY Zenon, <1>0, <2>1, <2>2, OlderStable DEF AtMost
  <2> QED
    BY Zenon, <2>1, <2>5, <2>6
<1> QED
  BY Zenon, <1>1, <1>2

(* An appended record is beyond what the superblocks describe. *)
LEMMA Appended ==
  ASSUME TypeOK, FileInv,
         arena' = arena \/ \E x \in Records : arena' = Append(arena, x)
  PROVE  /\ Ends(safe) /\ safe \in Nat /\ safe <= Len(arena')
         /\ Kept(arena, arena', Len(arena)) /\ Kept(arena, arena', safe)
         /\ arena' \in Seq(Records)
<1>1. arena \in Seq(Records) /\ safe \in Nat /\ Len(arena) \in Nat /\ safe <= Len(arena)
  BY Zenon, FileTypes
<1>2. Kept(arena, arena', Len(arena)) /\ arena' \in Seq(Records)
  <2>1. CASE arena' = arena
    BY <1>1, <2>1 DEF Kept
  <2>2. ASSUME NEW x \in Records, arena' = Append(arena, x)
        PROVE  Kept(arena, arena', Len(arena)) /\ arena' \in Seq(Records)
    BY <1>1, <2>2 DEF Kept
  <2> QED
    BY Zenon, <2>1, <2>2
<1>3. Ends(safe)
  BY Zenon DEF Ends, FileInv, Supers
<1> QED
  BY <1>1, <1>2, <1>3 DEF Kept

--------------------------------------------------------------------------------
(* One lemma for each group of actions.                                     *)

(* Steps of the writer that leave the contents of the file alone. *)
LEMMA ControlSteps ==
  ASSUME IInv, OpenLock \/ OpenCreate \/ OpenReady \/ LockCommit \/ SaveFails
  PROVE  IInv'
<1> USE DEF IInv, OpenLock, OpenCreate, OpenReady, LockCommit, SaveFails, fileVars,
            workVars
<1>1. /\ UNCHANGED <<super, disk, arena, safe, slot, committed, nextId, objects, cache,
                     poisoned, reader, saved>>
      /\ candidate' \in {candidate, Bad}
  BY Zenon
<1>2. TypeOK'
  <2>1. exists' \in BOOLEAN /\ linked' \in BOOLEAN /\ lock' \in BOOLEAN
    BY Zenon DEF TypeOK
  <2>2. pc' \in Pcs
    BY Zenon DEF Pcs
  <2> QED
    BY Zenon, <1>1, <2>1, <2>2 DEF TypeOK
<1>3. FileInv'
  <2>1. saved # <<>> /\ linked => linked'
    BY Zenon DEF NoFile, Blank
  <2> QED
    BY Zenon, <1>1, <2>1 DEF FileInv, Supers, OneInDoubt, Ordered, SavedOnDisk
<1>4. NoFile' /\ CommitLock'
  BY DEF NoFile, Blank, CommitLock
<1>5. Writer'
  BY Zenon, <1>1 DEF Writer, Publishing, Saving, Working
<1>6. Indexes'
  BY Zenon, <1>1 DEF Indexes, Publishing, Saving, Working
<1>7. Candidate'
  BY Zenon, <1>1 DEF Candidate, Publishing, Saving
<1>8. Inspectors'
  <2>1. (exists => exists') /\ (lock' => lock \/ ~Locked)
    OBVIOUS
  <2>2. Inspectors
    BY Zenon
  <2> HIDE DEF IInv, OpenLock, OpenCreate, OpenReady, LockCommit, SaveFails, fileVars,
               workVars
  <2> QED
    BY Zenon, <1>1, <2>1, <2>2 DEF Inspectors, Locked
<1> QED
  BY Zenon, <1>2, <1>3, <1>4, <1>5, <1>6, <1>7, <1>8

(* The writer stops: nothing of its own is left. *)
LEMMA StopStep ==
  ASSUME IInv, Stop
  PROVE  IInv'
<1> USE DEF IInv, Stop, Down, fileVars
<1>1. TypeOK'
  <2>1. lock' \in BOOLEAN /\ poisoned' \in BOOLEAN
    BY Zenon
  <2>2. /\ pc' \in Pcs /\ slot' \in Slots /\ nextId' \in Nat \ {0}
        /\ objects' = NoIndex /\ cache' = NoIndex /\ committed' = Bad /\ candidate' = Bad
    BY DEF Slots, Pcs
  <2>3. UNCHANGED <<exists, linked, super, disk, arena, safe, reader, saved>>
    BY Zenon
  <2> HIDE DEF Stop, Down, fileVars
  <2> QED
    BY Zenon, <2>1, <2>2, <2>3, NoIndexType DEF TypeOK
<1>2. FileInv' /\ NoFile'
  BY Zenon DEF FileInv, Supers, OneInDoubt, Ordered, SavedOnDisk, NoFile, Blank
<1>3. Writer' /\ Indexes' /\ Candidate' /\ CommitLock'
  BY Zenon DEF Writer, Indexes, Candidate, CommitLock, Publishing, Saving, Working
<1>4. Inspectors'
  BY Zenon DEF Inspectors
<1> QED
  BY Zenon, <1>1, <1>2, <1>3, <1>4

(* The first superblock describes an empty store. *)
LEMMA FirstSound ==
  Sound(<<>>, FirstSuper) /\ FirstSuper.end = 0 /\ FirstSuper \in Superblocks
<1>1. FirstSuper \in Superblocks
  BY NoIndexType DEF FirstSuper, Superblock, Superblocks
<1>2. FirstSuper # Bad
  BY Zenon, <1>1, BadIsNoSuper
<1>3. Valid(<<>>, FirstSuper)
  BY <1>2 DEF FirstSuper, Superblock, Valid
<1>4. Indexed(<<>>, IndexAt(<<>>, FirstSuper.objects).map, FirstSuper.end,
              FirstSuper.next_id)
  BY Zenon DEF FirstSuper, Superblock, Indexed, IndexAt, NoIndex, Empty
<1> QED
  BY Zenon, <1>1, <1>3, <1>4 DEF Sound, FirstSuper, Superblock

(* The first superblock of a new file is written, or half of it. *)
LEMMA InitSuperStep ==
  ASSUME IInv, InitSuper
  PROVE  IInv'
<1> USE DEF IInv, InitSuper, workVars
<1>0. /\ Blank /\ super[0] = Bad
      /\ super \in [Slots -> Superblocks \cup {Bad}]
      /\ safe \in Nat /\ 0 \in Slots /\ 1 \in Slots
      /\ super'[1] = Bad /\ super'[0] \in {FirstSuper, Bad}
      /\ pc' = "written" => super'[0] = FirstSuper
      /\ pc' = "failed" => super'[0] = Bad
      /\ pc' \in {"written", "failed"}
  BY FileTypes DEF NoFile, Blank, Slots
<1>1. TypeOK'
  <2>1. super' \in [Slots -> Superblocks \cup {Bad}]
    BY Zenon, <1>0, FirstSound
  <2> QED
    BY Zenon, <1>0, <2>1 DEF TypeOK, Pcs
<1>2. Supers' /\ OneInDoubt' /\ Ordered' /\ SavedOnDisk'
  BY <1>0, FirstSound DEF Blank, Supers, OneInDoubt, Ordered, SavedOnDisk, Slots
<1>3. NoFile' /\ CommitLock'
  BY Zenon, <1>0 DEF NoFile, Blank, CommitLock
<1>4. Writer' /\ Indexes' /\ Candidate'
  BY Zenon, <1>0 DEF Writer, Indexes, Candidate, Publishing, Saving, Working
<1>5. Inspectors'
  <2>1. \A r \in Readers : reader[r].committed = Bad /\ ~reader[r].held
    BY Zenon, <1>0 DEF Inspectors, CommitLock, Blank, Slots
  <2> QED
    BY Zenon, <2>1 DEF Inspectors
<1> QED
  BY Zenon, <1>1, <1>2, <1>3, <1>4, <1>5 DEF FileInv

(* The first superblock is synchronised and becomes the committed one. *)
LEMMA InitSyncStep ==
  ASSUME IInv, InitSync
  PROVE  IInv'
<1> USE DEF IInv, InitSync
<1>0. /\ Blank /\ super[0] = FirstSuper /\ exists
      /\ safe \in Nat
      /\ FirstSuper # Bad
  BY Zenon, FileTypes, FirstSound, BadIsNoSuper DEF NoFile
<1>1. TypeOK'
  BY Zenon, FirstSound DEF TypeOK, Pcs, Slots
<1>2. Supers' /\ OneInDoubt' /\ Ordered' /\ SavedOnDisk'
  BY Zenon, <1>0, FirstSound DEF Blank, FileInv, Supers, OneInDoubt, Ordered, SavedOnDisk, Slots
<1>3. NoFile' /\ CommitLock'
  BY Zenon, <1>0 DEF NoFile, CommitLock
<1>4. Writer' /\ Indexes' /\ Candidate'
  BY <1>0 DEF Blank, Writer, Indexes, Candidate, Publishing, Saving, Working
<1>5. Inspectors'
  BY Zenon DEF Inspectors
<1> QED
  BY Zenon, <1>1, <1>2, <1>3, <1>4, <1>5 DEF FileInv

(* The newest valid superblock is found, and the other one is older. *)
LEMMA FoundNewest ==
  ASSUME TypeOK, FileInv, exists
  PROVE  /\ Found \in {super[0], super[1]}
         /\ Found = Bad <=> super[0] = Bad /\ super[1] = Bad
         /\ \A s \in Slots : super[s] # Bad => AtMost(arena, super[s], Found)
<1>1. arena \in Seq(Records)
  BY Zenon, FileTypes
<1>2. /\ super[0] = Bad \/ Sound(arena, super[0])
      /\ super[1] = Bad \/ Sound(arena, super[1])
  BY Zenon DEF FileInv, Supers, Slots
<1> QED
  BY Zenon, <1>1, <1>2, ChosenNewest DEF Found, FileInv, Ordered, Slots

(* An existing file is opened at its newest checkpoint. *)
LEMMA OpenExistingStep ==
  ASSUME IInv, OpenExisting
  PROVE  IInv'
<1> USE DEF IInv, OpenExisting, fileVars
<1>0. exists
  BY Zenon DEF Found
<1>1. /\ slot' \in Slots /\ committed' = super[slot'] /\ committed' # Bad
      /\ committed' \in Superblocks
      /\ super[1 - slot'] # Bad => Older(arena, super[1 - slot'], committed')
  <2>1. CASE Found = super[1]
    BY <1>0, <2>1, FoundNewest, FileTypes DEF AtMost, Slots, FileInv, Ordered, Older
  <2>2. CASE Found # super[1]
    BY <1>0, <2>2, FoundNewest, FileTypes DEF AtMost, Slots
  <2> QED
    BY Zenon, <2>1, <2>2
<1>2. TypeOK'
  BY Zenon, <1>1 DEF TypeOK, Pcs
<1>3. FileInv' /\ NoFile' /\ CommitLock'
  BY Zenon, <1>0 DEF FileInv, Supers, OneInDoubt, Ordered, SavedOnDisk, NoFile, CommitLock
<1>4. Writer' /\ Indexes' /\ Candidate'
  BY Zenon, <1>0, <1>1 DEF Writer, Indexes, Candidate, Publishing, Saving, Working
<1>5. Inspectors'
  BY Zenon DEF Inspectors
<1> QED
  BY Zenon, <1>2, <1>3, <1>4, <1>5

(* A valid checkpoint has usable indexes. *)
LEMMA IndexAtType ==
  ASSUME NEW a \in Seq(Records), NEW sb, Sound(a, sb)
  PROVE  /\ IndexAt(a, sb.objects) \in [map : Maps, ref : Refs]
         /\ IndexAt(a, sb.cache) \in [map : Maps, ref : Refs]
<1>1. sb \in Superblocks /\ sb.end \in Nat /\ sb.objects \in Refs /\ sb.cache \in Refs
  BY StoreAssumption DEF Sound, Superblocks, Refs
<1>2. ASSUME NEW off, IsRecord(a, off, sb.end, "index")
      PROVE  a[off].map \in Maps
  <2>1. a[off] \in Records /\ a[off].type = "index"
    BY <1>1, <1>2 DEF IsRecord
  <2> QED
    BY Zenon, <2>1, RecordKinds
<1>3. /\ sb.objects # 0 => a[sb.objects].map \in Maps
      /\ sb.cache # 0 => a[sb.cache].map \in Maps
  BY Zenon, <1>2 DEF Sound, Valid
<1> QED
  BY Zenon, <1>1, <1>3, NoIndexType DEF IndexAt

(* What is left when the records after the first n are cut off. *)
LEMMA CutOff ==
  ASSUME NEW a \in Seq(Records), NEW n \in Nat, n <= Len(a)
  PROVE  /\ SubSeq(a, 1, n) \in Seq(Records) /\ Len(SubSeq(a, 1, n)) = n
         /\ \A i \in 1..n : SubSeq(a, 1, n)[i] = a[i]
  OBVIOUS

(* Cutting off abandoned staging leaves every superblock's extent alone. *)
LEMMA SettleStep ==
  ASSUME IInv, Settle
  PROVE  IInv'
<1> DEFINE n == committed.end
<1>0. /\ pc = "settle" /\ pc' = "dirsync" /\ exists /\ ~poisoned
      /\ UNCHANGED <<exists, linked, super, disk, lock, slot, committed, candidate,
                     poisoned, reader, saved>>
      /\ committed = super[slot] /\ committed # Bad
      /\ super[1 - slot] # Bad => Older(arena, super[1 - slot], committed)
      /\ TypeOK /\ FileInv /\ Inspectors
  BY Zenon DEF IInv, Settle, Writer
<1>1. /\ arena \in Seq(Records) /\ Len(arena) \in Nat /\ safe \in Nat /\ safe <= Len(arena)
      /\ slot \in Slots /\ 1 - slot \in Slots /\ Len(arena) <= Capacity
  BY Zenon, <1>0, FileTypes
<1>2. /\ Sound(arena, committed) /\ n \in Nat /\ n <= safe /\ committed \in Superblocks
      /\ n \in Refs /\ committed.next_id \in Nat \ {0}
  <2>1. Sound(arena, committed) /\ n <= safe
    BY Zenon, <1>0, <1>1 DEF FileInv, Supers
  <2> QED
    BY <2>1, StoreAssumption DEF Sound, Superblocks, Refs
<1>3. /\ arena' \in Seq(Records) /\ Len(arena') = n
      /\ \A i \in 1..n : arena'[i] = arena[i]
  <2>1. arena' = SubSeq(arena, 1, n)
    BY Zenon DEF Settle
  <2> QED
    BY <1>1, <1>2, <2>1, CutOff
<1>4. safe' = n
  BY <1>1, <1>2 DEF Settle
<1>5. Ends(n)
  <2>1. \A s \in Slots : super[s] # Bad => super[s].end <= n
    BY <1>0, <1>1, <1>2 DEF Slots, Older
  <2>2. ASSUME NEW s \in Slots, disk[s] # Bad, disk[s] # super[s]
        PROVE  disk[s].end <= n
    <3>1. /\ super[1 - s] # Bad /\ disk[s].end <= super[1 - s].end
          /\ Sound(arena, disk[s])
      BY Zenon, <1>0, <2>2 DEF FileInv, OneInDoubt, Supers, Older
    <3>2. 1 - s \in Slots
      BY DEF Slots
    <3>3. super[1 - s].end <= n /\ Sound(arena, super[1 - s])
      BY Zenon, <1>0, <2>1, <3>1, <3>2 DEF FileInv, Supers
    <3> QED
      BY <1>2, <3>1, <3>3, StoreAssumption DEF Sound, Superblocks, Refs
  <2> QED
    BY Zenon, <2>1, <2>2 DEF Ends
<1>6. Kept(arena, arena', n)
  BY <1>2, <1>3 DEF Kept
<1>7. /\ objects' = IndexAt(arena, committed.objects)
      /\ cache' = IndexAt(arena, committed.cache)
      /\ nextId' = committed.next_id
  BY Zenon DEF Settle
<1>8. Sound(arena', committed)
  BY <1>1, <1>2, <1>3, <1>6, SoundStable
<1>9. nextId' \in Nat \ {0}
  BY Zenon, <1>2, <1>7
<1>10. TypeOK'
  <2>1. safe' \in 0..Len(arena') /\ Len(arena') \in Refs
    BY <1>2, <1>3, <1>4
  <2>2. pc' \in Pcs
    BY Zenon, <1>0 DEF Pcs
  <2> QED
    BY Zenon, <1>0, <1>1, <1>2, <1>3, <1>7, <1>9, <2>1, <2>2, IndexAtType DEF TypeOK
<1>11. FileInv'
  BY <1>0, <1>2, <1>4, <1>5, <1>6, <1>10, FileKept
<1>12. Inspectors'
  BY Zenon, <1>0, <1>2, <1>5, <1>6, <1>10, ReadersKept
<1>13. NoFile' /\ CommitLock' /\ Writer'
  <2>1. super[1 - slot] # Bad => Older(arena', super[1 - slot], committed)
    <3>1. super[1 - slot] # Bad => Sound(arena, super[1 - slot])
      BY Zenon, <1>0, <1>1 DEF FileInv, Supers
    <3> QED
      BY <1>0, <1>1, <1>2, <1>3, <1>6, <3>1, OlderStable
  <2> QED
    BY Zenon, <1>0, <2>1 DEF IInv, NoFile, CommitLock, Writer, Publishing, Saving, Working
<1>14. Indexes'
  <2>1. IndexAt(arena', committed.objects) = IndexAt(arena, committed.objects)
    BY Zenon, <1>2, <1>3 DEF Sound, Valid, IsRecord, IndexAt
  <2>2. Indexed(arena', objects'.map, Len(arena'), nextId')
    BY Zenon, <1>3, <1>7, <1>8, <2>1 DEF Sound
  <2>3. /\ objects'.ref = committed.objects
        /\ objects'.ref # 0 => objects'.map = arena'[objects'.ref].map
        /\ cache'.ref = committed.cache
    BY Zenon, <1>7, <2>1 DEF IndexAt, NoIndex
  <2>4. /\ objects'.ref # 0 => IsRecord(arena', objects'.ref, Len(arena'), "index")
        /\ cache'.ref # 0 => IsRecord(arena', cache'.ref, Len(arena'), "index")
    BY Zenon, <1>3, <1>8, <2>3 DEF Sound, Valid
  <2>5. committed.root # 0 => /\ committed.root_hash \in DOMAIN objects'.map
                              /\ objects'.map[committed.root_hash] = committed.root
    BY Zenon, <1>8, <2>3 DEF Sound, Valid, Lookup
  <2>6. committed.next_id <= nextId'
    BY <1>2, <1>7
  <2> QED
    BY Zenon, <1>0, <2>2, <2>3, <2>4, <2>5, <2>6 DEF Indexes
<1>15. Candidate'
  BY Zenon, <1>0 DEF Candidate, Publishing, Saving
<1> QED
  BY Zenon, <1>10, <1>11, <1>12, <1>13, <1>14, <1>15 DEF IInv

(* Records, and the index entries that name them, survive an append. *)
LEMMA RecordStable ==
  ASSUME NEW a \in Seq(Records), NEW b \in Seq(Records), Kept(a, b, Len(a)),
         NEW off, NEW type, IsRecord(a, off, Len(a), type)
  PROVE  IsRecord(b, off, Len(b), type) /\ b[off] = a[off]
  BY DEF IsRecord, Kept

(* An index stays good when records are appended and identifiers given out. *)
LEMMA IndexedStable ==
  ASSUME NEW a \in Seq(Records), NEW b \in Seq(Records), Kept(a, b, Len(a)),
         NEW m, NEW ids \in Nat, NEW more \in Nat, ids <= more,
         Indexed(a, m, Len(a), ids)
  PROVE  Indexed(b, m, Len(b), more)
<1> SUFFICES ASSUME NEW h \in DOMAIN m
             PROVE  IsPin(b, m[h], Len(b), more) /\ b[m[h]].hash = h
  BY Zenon DEF Indexed
<1>1. /\ IsRecord(a, m[h], Len(a), "object")
      /\ a[m[h]].id \in 1..ids - 1 /\ a[m[h]].hash = h
  BY Zenon DEF Indexed, IsPin
<1>2. IsRecord(b, m[h], Len(b), "object") /\ b[m[h]] = a[m[h]]
  BY Zenon, <1>1, RecordStable
<1>3. b[m[h]].id \in 1..more - 1
  BY <1>1, <1>2
<1> QED
  BY Zenon, <1>1, <1>2, <1>3 DEF IsPin

(* What is indexed is an object, and its key a hash. *)
LEMMA IndexedDomain ==
  ASSUME NEW a \in Seq(Records), NEW m, NEW ids, Indexed(a, m, Len(a), ids),
         NEW h \in DOMAIN m
  PROVE  h \in Hashes /\ m[h] \in 1..Len(a)
<1>1. m[h] \in 1..Len(a) /\ a[m[h]].type = "object" /\ a[m[h]].hash = h
  BY Zenon DEF Indexed, IsPin, IsRecord
<1>2. a[m[h]] \in Records
  BY <1>1
<1> QED
  BY Zenon, <1>1, <1>2, RecordKinds

(* A step that appends at most one record, before the data is synchronised, *)
(* disturbs nothing but the working state.                                  *)
LEMMA AppendStep ==
  ASSUME IInv, TypeOK', Indexes', Candidate',
         arena' = arena \/ \E x \in Records : arena' = Append(arena, x),
         UNCHANGED <<exists, linked, super, disk, safe, lock, slot, committed,
                     poisoned, reader, saved>>,
         pc \in {"idle", "cache", "journal"}, ~poisoned,
         pc' \in {"idle", "cache", "journal", "sync"}
  PROVE  IInv'
<1>1. /\ Ends(safe) /\ safe \in Nat /\ safe <= Len(arena')
      /\ Kept(arena, arena', safe) /\ arena' \in Seq(Records) /\ arena \in Seq(Records)
  BY Zenon, Appended, FileTypes DEF IInv
<1>2. FileInv'
  BY <1>1, FileKept DEF IInv
<1>3. Inspectors'
  BY Zenon, <1>1, ReadersKept DEF IInv
<1>4. NoFile' /\ CommitLock'
  BY Zenon DEF IInv, NoFile, CommitLock
<1>5. Writer'
  <2>1. /\ exists /\ committed # Bad /\ committed = super[slot] /\ linked
        /\ super[1 - slot] # Bad => Older(arena, super[1 - slot], committed)
    BY Zenon DEF IInv, Writer, Publishing, Saving, Working
  <2>2. /\ Sound(arena, committed) /\ committed.end <= safe
        /\ super[1 - slot] # Bad => Sound(arena, super[1 - slot])
    BY Zenon, <2>1, FileTypes DEF IInv, FileInv, Supers
  <2>3. super[1 - slot] # Bad => Older(arena', super[1 - slot], committed)
    BY Zenon, <1>1, <2>1, <2>2, OlderStable
  <2> QED
    BY Zenon, <2>1, <2>3 DEF Writer, Publishing, Saving, Working
<1> QED
  BY Zenon, <1>2, <1>3, <1>4, <1>5 DEF IInv

(* Facts about a working writer. *)
LEMMA WorkingFacts ==
  ASSUME IInv, pc \in Working
  PROVE  /\ arena \in Seq(Records) /\ Len(arena) \in Nat /\ Len(arena) <= Capacity
         /\ Sound(arena, committed) /\ committed.end <= Len(arena) /\ committed # Bad
         /\ nextId \in Nat \ {0} /\ committed.next_id \in Nat
         /\ committed.next_id <= nextId
         /\ objects \in [map : Maps, ref : Refs] /\ cache \in [map : Maps, ref : Refs]
         /\ Indexed(arena, objects.map, Len(arena), nextId)
<1>1. /\ arena \in Seq(Records) /\ Len(arena) \in Nat /\ Len(arena) <= Capacity
      /\ safe \in Nat /\ safe <= Len(arena) /\ slot \in Slots
  BY Zenon, FileTypes DEF IInv
<1>2. committed # Bad /\ committed = super[slot]
  BY Zenon DEF IInv, Writer
<1>3. Sound(arena, committed) /\ committed.end <= safe
  BY Zenon, <1>1, <1>2 DEF IInv, FileInv, Supers
<1>4. committed.end \in Nat /\ committed.next_id \in Nat
  BY <1>3, StoreAssumption DEF Sound, Superblocks, Refs
<1>5. nextId \in Nat \ {0}
  BY Zenon DEF IInv, TypeOK
<1> QED
  BY <1>1, <1>2, <1>3, <1>4, <1>5 DEF IInv, TypeOK, Indexes

(* Staging an object: its record is new, and so is its identifier. *)
LEMMA StageStep ==
  ASSUME IInv, NEW h \in Hashes, Stage(h)
  PROVE  IInv'
<1> DEFINE x == Object(h, nextId, {objects.map[d] : d \in Deps[h]})
<1>0. /\ pc = "idle" /\ ~poisoned /\ pc' = pc
      /\ h \notin DOMAIN objects.map /\ Deps[h] \subseteq DOMAIN objects.map
      /\ Len(arena) < Capacity /\ arena' = Append(arena, x)
      /\ nextId' = nextId + 1
      /\ objects' = Insert(objects, h, Len(arena) + 1) \/ objects' = objects
      /\ UNCHANGED <<exists, linked, super, disk, safe, lock, slot, committed, cache,
                     candidate, poisoned, reader, saved>>
  BY Zenon DEF Stage, Writable, Allocate, Room, Here
<1>1. /\ pc \in Working /\ TypeOK
      /\ arena \in Seq(Records) /\ Len(arena) \in Nat
      /\ objects \in [map : Maps, ref : Refs] /\ nextId \in Nat \ {0}
      /\ committed.next_id \in Nat /\ committed.next_id <= nextId
      /\ Indexed(arena, objects.map, Len(arena), nextId)
  BY Zenon, <1>0, WorkingFacts DEF Working, IInv
<1>2. x \in Records
  <2>1. objects.map \in Maps
    BY Zenon, <1>1
  <2>2. {objects.map[d] : d \in Deps[h]} \in SUBSET Refs
    BY Zenon, <1>0, <2>1, MapsAre
  <2> QED
    BY Zenon, <1>1, <2>2 DEF Object, Records
<1>3. /\ arena' \in Seq(Records) /\ Len(arena') = Len(arena) + 1
      /\ arena'[Len(arena) + 1] = x /\ Kept(arena, arena', Len(arena))
  BY <1>0, <1>1, <1>2 DEF Kept
<1>4. Len(arena') \in Refs
  BY <1>0, <1>1, <1>3, StoreAssumption DEF Refs
<1>5. objects' \in [map : Maps, ref : Refs]
  BY <1>0, <1>1, <1>3, <1>4, InsertType
<1>6. TypeOK'
  <2>1. safe' \in 0..Len(arena')
    <3>1. safe \in 0..Len(arena) /\ safe' = safe
      BY Zenon, <1>0, <1>1 DEF TypeOK
    <3> QED BY <1>1, <1>3, <3>1
  <2>2. nextId' \in Nat \ {0}
    BY <1>0, <1>1
  <2> QED
    BY Zenon, <1>0, <1>1, <1>3, <1>4, <1>5, <2>1, <2>2 DEF TypeOK
<1>7. Indexed(arena', objects.map, Len(arena'), nextId')
  <2>1. nextId \in Nat /\ nextId' \in Nat /\ nextId <= nextId'
    BY <1>0, <1>1
  <2> QED
    BY Zenon, <1>1, <1>3, <2>1, IndexedStable
<1>8. IsPin(arena', Len(arena) + 1, Len(arena'), nextId') /\ arena'[Len(arena) + 1].hash = h
  <2>1. nextId' = nextId + 1 /\ Len(arena) + 1 \in 1..Len(arena')
    BY <1>0, <1>1, <1>3
  <2> QED
    BY <1>1, <1>3, <2>1 DEF IsPin, IsRecord, Object
<1>9. Indexes'
  <2>1. /\ objects.ref # 0 => /\ IsRecord(arena', objects.ref, Len(arena'), "index")
                              /\ arena'[objects.ref].map = objects.map
        /\ cache.ref # 0 => IsRecord(arena', cache.ref, Len(arena'), "index")
    BY Zenon, <1>1, <1>3, RecordStable DEF IInv, Indexes
  <2>2. committed.root # 0 => /\ committed.root_hash \in DOMAIN objects.map
                              /\ objects.map[committed.root_hash] = committed.root
    BY Zenon, <1>1 DEF IInv, Indexes
  <2>3. committed.next_id <= nextId'
    BY <1>0, <1>1
  <2>4. CASE objects' = objects
    BY Zenon, <1>0, <1>7, <2>1, <2>2, <2>3, <2>4 DEF Indexes
  <2>5. CASE objects' = Insert(objects, h, Len(arena) + 1)
    <3>1. /\ objects'.ref = 0 /\ DOMAIN objects'.map = DOMAIN objects.map \cup {h}
          /\ objects'.map[h] = Len(arena) + 1
          /\ \A k \in DOMAIN objects.map : objects'.map[k] = objects.map[k]
      BY Zenon, <1>0, <2>5 DEF Insert
    <3>2. Indexed(arena', objects'.map, Len(arena'), nextId')
      BY Zenon, <1>7, <1>8, <3>1 DEF Indexed
    <3> QED
      BY Zenon, <1>0, <2>1, <2>2, <2>3, <3>1, <3>2 DEF Indexes
  <2> QED
    BY Zenon, <1>0, <2>4, <2>5
<1>10. Candidate'
  BY Zenon, <1>0 DEF IInv, Candidate, Publishing, Saving
<1> QED
  BY Zenon, <1>0, <1>2, <1>6, <1>9, <1>10, AppendStep

(* Staging a cache row. *)
LEMMA PutCacheStep ==
  ASSUME IInv, NEW k \in Keys, NEW h \in Hashes, PutCache(k, h)
  PROVE  IInv'
<1>0. /\ pc = "idle" /\ ~poisoned /\ pc' = pc
      /\ Len(arena) < Capacity /\ arena' = Append(arena, CacheRow(h))
      /\ cache' = Insert(cache, k, Len(arena) + 1)
      /\ UNCHANGED <<exists, linked, super, disk, safe, lock, slot, committed, nextId,
                     objects, candidate, poisoned, reader, saved>>
  BY Zenon DEF PutCache, Writable, Allocate, Room, Here
<1>1. /\ pc \in Working /\ TypeOK
      /\ arena \in Seq(Records) /\ Len(arena) \in Nat
      /\ cache \in [map : Maps, ref : Refs] /\ nextId \in Nat
      /\ Indexed(arena, objects.map, Len(arena), nextId)
  BY Zenon, <1>0, WorkingFacts DEF Working, IInv
<1>2. CacheRow(h) \in Records
  BY Zenon DEF CacheRow, Records
<1>3. /\ arena' \in Seq(Records) /\ Len(arena') = Len(arena) + 1
      /\ Kept(arena, arena', Len(arena))
  BY <1>0, <1>1, <1>2 DEF Kept
<1>4. Len(arena') \in Refs /\ safe' \in 0..Len(arena')
  BY <1>0, <1>1, <1>3, StoreAssumption DEF Refs, TypeOK
<1>5. cache' \in [map : Maps, ref : Refs]
  BY Zenon, <1>0, <1>1, <1>3, <1>4, InsertType
<1>6. TypeOK'
  BY Zenon, <1>0, <1>1, <1>3, <1>4, <1>5 DEF TypeOK
<1>7. Indexed(arena', objects.map, Len(arena'), nextId')
  <2>1. nextId' = nextId /\ nextId <= nextId
    BY <1>0, <1>1
  <2> QED
    BY Zenon, <1>1, <1>3, <2>1, IndexedStable
<1>8. Indexes'
  <2>1. objects.ref # 0 => /\ IsRecord(arena', objects.ref, Len(arena'), "index")
                           /\ arena'[objects.ref].map = objects.map
    BY Zenon, <1>1, <1>3, RecordStable DEF IInv, Indexes
  <2>2. cache'.ref = 0
    BY Zenon, <1>0 DEF Insert
  <2> QED
    BY Zenon, <1>0, <1>1, <1>7, <2>1, <2>2 DEF IInv, Indexes
<1>9. Candidate'
  BY Zenon, <1>0 DEF IInv, Candidate, Publishing, Saving
<1> QED
  BY Zenon, <1>0, <1>2, <1>6, <1>8, <1>9, AppendStep

--------------------------------------------------------------------------------
(* The steps of pl_native_checkpoint keep the invariant of the native       *)
(* arena: serialising the indexes, the journal record, the                  *)
(* synchronisations and the write of the inactive superblock.               *)

(* nemit leaves an index whose record, if it has one, holds its contents. *)
LEMMA Emitting ==
  ASSUME TypeOK, NEW index \in [map : Maps, ref : Refs], Emit(index),
         index.ref # 0 => IsRecord(arena, index.ref, Len(arena), "index")
  PROVE  /\ arena' = arena \/ \E x \in Records : arena' = Append(arena, x)
         /\ arena' \in Seq(Records) /\ Len(arena') \in Refs /\ Len(arena) <= Len(arena')
         /\ Kept(arena, arena', Len(arena)) /\ safe \in 0..Len(arena')
         /\ Emitted(index) \in [map : Maps, ref : Refs] /\ Emitted(index).map = index.map
         /\ Emitted(index).ref # 0 =>
              IsRecord(arena', Emitted(index).ref, Len(arena'), "index")
         /\ (index.ref # 0 => arena[index.ref].map = index.map)
              /\ Emitted(index).ref # 0 => arena'[Emitted(index).ref].map = index.map
         /\ index.map # Empty => Emitted(index).ref # 0
<1>0. /\ arena \in Seq(Records) /\ Len(arena) \in Nat /\ Len(arena) <= Capacity
      /\ safe \in Nat /\ safe <= Len(arena)
  BY Zenon, FileTypes
<1>1. CASE Unserialised(index)
  <2> DEFINE x == Index(index.map)
  <2>1. arena' = Append(arena, x) /\ Len(arena) < Capacity
    BY Zenon, <1>1 DEF Emit, Allocate, Room
  <2>2. x \in Records
    BY Zenon DEF Index, Records
  <2>3. /\ arena' \in Seq(Records) /\ Len(arena') = Len(arena) + 1
        /\ Kept(arena, arena', Len(arena)) /\ arena'[Len(arena) + 1] = x
    BY <1>0, <2>1, <2>2 DEF Kept
  <2>4. Len(arena') \in Refs /\ safe \in 0..Len(arena')
    BY <1>0, <2>1, <2>3, StoreAssumption DEF Refs
  <2>5. /\ Emitted(index) = [index EXCEPT !.ref = Len(arena) + 1]
        /\ Emitted(index).ref = Len(arena) + 1 /\ Emitted(index).map = index.map
        /\ Emitted(index) \in [map : Maps, ref : Refs]
    BY Zenon, <1>1, <2>3, <2>4 DEF Emitted, Here
  <2>6. IsRecord(arena', Len(arena) + 1, Len(arena'), "index")
        /\ arena'[Len(arena) + 1].map = index.map
    BY <1>0, <2>3 DEF IsRecord, Index
  <2> QED
    BY <1>0, <2>1, <2>2, <2>3, <2>4, <2>5, <2>6
<1>2. CASE ~Unserialised(index)
  <2>1. arena' = arena /\ Emitted(index) = index
    BY Zenon, <1>2 DEF Emit, Emitted
  <2>2. Len(arena) \in Refs /\ safe \in 0..Len(arena)
    BY Zenon DEF TypeOK
  <2>3. index.map # Empty => index.ref # 0
    BY Zenon, <1>2 DEF Unserialised
  <2> QED
    BY <1>0, <2>1, <2>2, <2>3 DEF Kept
<1> QED
  BY Zenon, <1>1, <1>2

(* The next checkpoint is again a superblock. *)
LEMMA NextSuper ==
  ASSUME NEW sb \in Superblocks, NEW ids \in Nat \ {0}, NEW objs \in Refs,
         NEW root \in Refs, NEW h \in Hashes
  PROVE  [sb EXCEPT !.generation = @ + 1, !.next_id = ids, !.objects = objs,
                    !.root = root, !.root_hash = h] \in Superblocks
<1> DEFINE c1 == [sb EXCEPT !.generation = sb.generation + 1]
           c2 == [c1 EXCEPT !.next_id = ids]
           c3 == [c2 EXCEPT !.objects = objs]
           c4 == [c3 EXCEPT !.root = root]
           c5 == [c4 EXCEPT !.root_hash = h]
<1>1. c1 \in Superblocks
  BY DEF Superblocks
<1>2. c2 \in Superblocks
  <2> HIDE DEF c1
  <2> QED
    BY Zenon, <1>1 DEF Superblocks
<1>3. c3 \in Superblocks
  <2> HIDE DEF c2
  <2> QED
    BY Zenon, <1>2 DEF Superblocks
<1>4. c4 \in Superblocks
  <2> HIDE DEF c3
  <2> QED
    BY Zenon, <1>3 DEF Superblocks
<1>5. c5 \in Superblocks
  <2> HIDE DEF c4
  <2> QED
    BY Zenon, <1>4 DEF Superblocks
<1> QED
  BY Zenon, <1>5

(* Save begins with the object index, from which the candidate is made. *)
LEMMA BeginSaveStep ==
  ASSUME IInv, NEW h \in Hashes, BeginSave(h)
  PROVE  IInv'
<1>0. /\ pc = "idle" /\ ~poisoned /\ pc' = "cache"
      /\ h \in DOMAIN objects.map
      /\ Emit(objects) /\ objects' = Emitted(objects)
      /\ candidate' = [committed EXCEPT !.generation = @ + 1, !.next_id = nextId,
                                        !.objects = Emitted(objects).ref,
                                        !.root = objects.map[h], !.root_hash = h]
      /\ UNCHANGED <<exists, linked, super, disk, safe, lock, slot, committed, nextId,
                     cache, poisoned, reader, saved>>
  BY Zenon DEF BeginSave, Writable
<1>1. /\ pc \in Working /\ TypeOK
      /\ arena \in Seq(Records) /\ Len(arena) \in Nat
      /\ objects \in [map : Maps, ref : Refs] /\ nextId \in Nat \ {0}
      /\ Sound(arena, committed) /\ committed \in Superblocks
      /\ Indexed(arena, objects.map, Len(arena), nextId)
      /\ objects.ref # 0 => /\ IsRecord(arena, objects.ref, Len(arena), "index")
                            /\ arena[objects.ref].map = objects.map
      /\ cache.ref # 0 => IsRecord(arena, cache.ref, Len(arena), "index")
  BY Zenon, <1>0, WorkingFacts DEF Working, IInv, Indexes, Sound
<1>2. /\ arena' = arena \/ \E x \in Records : arena' = Append(arena, x)
      /\ arena' \in Seq(Records) /\ Len(arena') \in Refs /\ Len(arena) <= Len(arena')
      /\ Kept(arena, arena', Len(arena)) /\ safe \in 0..Len(arena')
      /\ objects' \in [map : Maps, ref : Refs] /\ objects'.map = objects.map
      /\ objects'.ref # 0 => /\ IsRecord(arena', objects'.ref, Len(arena'), "index")
                             /\ arena'[objects'.ref].map = objects.map
      /\ objects.map # Empty => objects'.ref # 0
  BY Zenon, <1>0, <1>1, Emitting
<1>3. objects'.ref # 0 /\ objects'.ref \in Refs
  <2>1. objects.map # Empty
    BY Zenon, <1>0 DEF Empty
  <2> QED
    BY Zenon, <1>2, <2>1
<1>4. objects.map[h] \in Refs
  BY Zenon, <1>0, <1>1, MapsAre
<1>5. /\ candidate' \in Superblocks
      /\ candidate'.generation = committed.generation + 1
      /\ candidate'.next_id = nextId /\ candidate'.objects = objects'.ref
      /\ candidate'.root = objects.map[h] /\ candidate'.root_hash = h
      /\ candidate'.journal = committed.journal
      /\ candidate'.sequence = committed.sequence
  <2> DEFINE root == objects.map[h]
             ref == Emitted(objects).ref
             c == [committed EXCEPT !.generation = @ + 1, !.next_id = nextId,
                                    !.objects = ref, !.root = root, !.root_hash = h]
  <2>0. root \in Refs /\ ref \in Refs /\ candidate' = c /\ objects'.ref = ref
    BY Zenon, <1>0, <1>3, <1>4
  <2> HIDE DEF root, ref
  <2>1. /\ c.generation = committed.generation + 1
        /\ c.next_id = nextId /\ c.objects = ref /\ c.root = root /\ c.root_hash = h
    BY Zenon, <1>1 DEF Superblocks
  <2>2. c.journal = committed.journal /\ c.sequence = committed.sequence
    BY Zenon, <1>1 DEF Superblocks
  <2>3. c \in Superblocks
    BY Zenon, <1>1, <2>0, NextSuper
  <2> QED
    BY Zenon, <2>0, <2>1, <2>2, <2>3 DEF root, ref
<1>6. TypeOK'
  <2>1. pc' \in Pcs
    BY Zenon, <1>0 DEF Pcs
  <2> QED
    BY Zenon, <1>0, <1>1, <1>2, <1>5, <2>1 DEF TypeOK
<1>7. Indexes'
  <2>1. Indexed(arena', objects'.map, Len(arena'), nextId')
    <3>1. nextId' = nextId /\ nextId <= nextId
      BY <1>0, <1>1
    <3> QED
      BY Zenon, <1>1, <1>2, <3>1, IndexedStable
  <2>2. cache.ref # 0 => IsRecord(arena', cache.ref, Len(arena'), "index")
    BY Zenon, <1>1, <1>2, RecordStable
  <2> QED
    BY Zenon, <1>0, <1>1, <1>2, <2>1, <2>2 DEF IInv, Indexes
<1>8. Candidate'
  <2>1. candidate' # Bad
    BY Zenon, <1>5, BadIsNoSuper
  <2> QED
    BY Zenon, <1>0, <1>2, <1>3, <1>5, <2>1 DEF Candidate, Publishing, Saving
<1> QED
  BY Zenon, <1>0, <1>2, <1>6, <1>7, <1>8, AppendStep

(* Save goes on with the cache index. *)
LEMMA EmitCacheStep ==
  ASSUME IInv, EmitCache
  PROVE  IInv'
<1>0. /\ pc = "cache" /\ pc' = "journal"
      /\ Emit(cache) /\ cache' = Emitted(cache)
      /\ candidate' = [candidate EXCEPT !.cache = Emitted(cache).ref]
      /\ UNCHANGED <<exists, linked, super, disk, safe, lock, slot, committed, nextId,
                     objects, poisoned, reader, saved>>
  BY Zenon DEF EmitCache
<1>1. /\ pc \in Working /\ pc \in Saving /\ TypeOK /\ ~poisoned
      /\ arena \in Seq(Records) /\ Len(arena) \in Nat
      /\ cache \in [map : Maps, ref : Refs] /\ nextId \in Nat
      /\ candidate \in Superblocks
      /\ Indexed(arena, objects.map, Len(arena), nextId)
      /\ objects.ref # 0 => /\ IsRecord(arena, objects.ref, Len(arena), "index")
                            /\ arena[objects.ref].map = objects.map
      /\ cache.ref # 0 => IsRecord(arena, cache.ref, Len(arena), "index")
  <2>1. pc \in Working /\ pc \in Saving /\ ~poisoned
    BY Zenon, <1>0 DEF Working, Saving, IInv, Writer
  <2>2. candidate # Bad /\ candidate \in Superblocks \cup {Bad}
    BY Zenon, <2>1 DEF IInv, Candidate, TypeOK
  <2> QED
    BY Zenon, <2>1, <2>2, WorkingFacts DEF IInv, Indexes
<1>2. /\ arena' = arena \/ \E x \in Records : arena' = Append(arena, x)
      /\ arena' \in Seq(Records) /\ Len(arena') \in Refs /\ Len(arena) <= Len(arena')
      /\ Kept(arena, arena', Len(arena)) /\ safe \in 0..Len(arena')
      /\ cache' \in [map : Maps, ref : Refs]
      /\ cache'.ref # 0 => IsRecord(arena', cache'.ref, Len(arena'), "index")
  BY Zenon, <1>0, <1>1, Emitting
<1>3. /\ candidate' \in Superblocks /\ candidate'.cache = cache'.ref
      /\ candidate'.generation = candidate.generation
      /\ candidate'.next_id = candidate.next_id /\ candidate'.objects = candidate.objects
      /\ candidate'.root = candidate.root /\ candidate'.root_hash = candidate.root_hash
      /\ candidate'.journal = candidate.journal
      /\ candidate'.sequence = candidate.sequence
  BY Zenon, <1>0, <1>1, <1>2 DEF Superblocks
<1>4. TypeOK'
  <2>1. pc' \in Pcs
    BY Zenon, <1>0 DEF Pcs
  <2> QED
    BY Zenon, <1>0, <1>1, <1>2, <1>3, <2>1 DEF TypeOK
<1>5. Indexes'
  <2>1. Indexed(arena', objects.map, Len(arena'), nextId')
    <3>1. nextId' = nextId /\ nextId <= nextId
      BY <1>0, <1>1
    <3> QED
      BY Zenon, <1>1, <1>2, <3>1, IndexedStable
  <2>2. objects.ref # 0 => /\ IsRecord(arena', objects.ref, Len(arena'), "index")
                           /\ arena'[objects.ref].map = objects.map
    BY Zenon, <1>1, <1>2, RecordStable
  <2> QED
    BY Zenon, <1>0, <1>1, <1>2, <2>1, <2>2 DEF IInv, Indexes
<1>6. Candidate'
  <2>1. candidate' # Bad
    BY Zenon, <1>3, BadIsNoSuper
  <2> QED
    BY Zenon, <1>0, <1>1, <1>3, <2>1 DEF IInv, Candidate, Publishing, Saving
<1> QED
  BY Zenon, <1>0, <1>1, <1>2, <1>4, <1>5, <1>6, AppendStep

(* A checkpoint built from a working index and a journal entry is sound. *)
LEMMA BuiltSound ==
  ASSUME NEW a \in Seq(Records), NEW c \in Superblocks, NEW m,
         c.end = Len(a), c.objects # 0, c.journal # 0,
         IsRecord(a, c.objects, Len(a), "index"), a[c.objects].map = m,
         c.cache # 0 => IsRecord(a, c.cache, Len(a), "index"),
         Indexed(a, m, Len(a), c.next_id),
         c.root_hash \in DOMAIN m, c.root = m[c.root_hash],
         IsRecord(a, c.journal, Len(a), "journal"),
         Len(a[c.journal].entries) = c.sequence,
         a[c.journal].entries[c.sequence] = c.root_hash,
         a[c.journal].root = c.root, a[c.journal].end \in c.journal..Len(a)
  PROVE  Sound(a, c)
<1>1. c # Bad /\ Len(a) \in Nat
  BY BadIsNoSuper
<1>2. /\ IsPin(a, c.root, Len(a), c.next_id) /\ a[c.root].hash = c.root_hash
      /\ c.root \in 1..Len(a)
  BY DEF Indexed, IsPin, IsRecord
<1>3. Lookup(a, c.objects, c.root_hash) = c.root
  BY Zenon DEF Lookup
<1>4. IndexAt(a, c.objects).map = m
  BY Zenon DEF IndexAt
<1>5. Valid(a, c)
  BY <1>1, <1>2, <1>3 DEF Valid
<1> QED
  BY <1>1, <1>2, <1>4, <1>5 DEF Sound

(* A checkpoint's sequence number counts the entries of its history. *)
LEMMA HistoryLength ==
  ASSUME NEW a \in Seq(Records), NEW sb, Sound(a, sb)
  PROVE  /\ Len(History(a, sb)) = sb.sequence
         /\ History(a, sb) # <<>> => /\ sb.root # 0
                                     /\ History(a, sb)[Len(History(a, sb))] = sb.root_hash
<1>1. sb # Bad
  BY Zenon DEF Sound, Valid
<1>2. CASE sb.journal = 0
  BY Zenon, <1>1, <1>2 DEF Sound, Valid, History, EntriesAt
<1>3. CASE sb.journal # 0
  BY Zenon, <1>1, <1>3 DEF Sound, Valid, History, EntriesAt
<1> QED
  BY Zenon, <1>2, <1>3

(* The fields of a checkpoint that has its journal record. *)
LEMMA NextJournal ==
  ASSUME NEW c \in Superblocks, NEW off \in Refs
  PROVE  [c EXCEPT !.journal = off, !.sequence = @ + 1, !.end = off] \in Superblocks
<1> DEFINE c1 == [c EXCEPT !.journal = off]
           c2 == [c1 EXCEPT !.sequence = c.sequence + 1]
           c3 == [c2 EXCEPT !.end = off]
<1>1. c1 \in Superblocks /\ c.sequence + 1 \in Nat
  BY DEF Superblocks
<1>2. c2 \in Superblocks
  <2> HIDE DEF c1
  <2> QED
    BY Zenon, <1>1 DEF Superblocks
<1>3. c3 \in Superblocks
  <2> HIDE DEF c2
  <2> QED
    BY Zenon, <1>2 DEF Superblocks
<1> QED
  BY Zenon, <1>3

(* The journal record makes the candidate a complete checkpoint.  With an   *)
(* unchanged root there is none, and the committed one serves again.        *)
LEMMA AppendJournalStep ==
  ASSUME IInv, AppendJournal
  PROVE  IInv'
<1>0. /\ pc = "journal" /\ pc' = "sync"
      /\ UNCHANGED <<exists, linked, super, disk, safe, lock, slot, committed, nextId,
                     objects, cache, poisoned, reader, saved>>
  BY Zenon DEF AppendJournal
<1>1. pc \in Working /\ pc \in Saving /\ TypeOK /\ ~poisoned
  BY Zenon, <1>0 DEF Working, Saving, IInv, Writer
<1>2. /\ candidate \in Superblocks
      /\ candidate.next_id = nextId
      /\ candidate.root_hash \in DOMAIN objects.map
      /\ candidate.root = objects.map[candidate.root_hash]
      /\ candidate.generation = committed.generation + 1
      /\ candidate.objects = objects.ref /\ objects.ref # 0
      /\ candidate.journal = committed.journal
      /\ candidate.sequence = committed.sequence
      /\ candidate.cache = cache.ref
  BY Zenon, <1>0, <1>1 DEF IInv, Candidate, TypeOK
<1>3. /\ arena \in Seq(Records) /\ Len(arena) \in Nat /\ nextId \in Nat
      /\ Len(arena) \in Refs /\ safe \in 0..Len(arena)
      /\ Sound(arena, committed) /\ committed.end <= Len(arena) /\ committed # Bad
      /\ committed \in Superblocks /\ committed.end \in Nat
      /\ committed.generation \in Nat /\ committed.sequence \in Nat
      /\ Indexed(arena, objects.map, Len(arena), nextId)
  BY <1>1, WorkingFacts, StoreAssumption DEF TypeOK, Sound, Superblocks, Refs
<1>4. /\ IsRecord(arena, objects.ref, Len(arena), "index")
      /\ arena[objects.ref].map = objects.map
      /\ cache.ref # 0 => IsRecord(arena, cache.ref, Len(arena), "index")
      /\ committed.root # 0 => objects.map[committed.root_hash] = committed.root
  BY Zenon, <1>1, <1>2 DEF IInv, Indexes
<1>5. candidate.root_hash \in Hashes /\ candidate.root \in Refs
      /\ candidate.root \in 1..Len(arena)
  <2>1. candidate.root_hash \in Hashes /\ candidate.root \in 1..Len(arena)
    BY Zenon, <1>2, <1>3, IndexedDomain
  <2> QED
    BY Zenon, <1>2, <2>1 DEF Superblocks
<1> DEFINE old == History(arena, committed)
<1>6. old \in Seq(Hashes) /\ Len(old) = committed.sequence
  BY Zenon, <1>3, HistoryType, HistoryLength
<1>7. CASE RootChanged(candidate.root_hash)
  <2> DEFINE new == Append(old, candidate.root_hash)
             x == Journal(committed.journal, new, candidate.root, Here)
  <2>1. /\ Room /\ arena' = Append(arena, x)
        /\ candidate' = [candidate EXCEPT !.journal = Here, !.sequence = @ + 1,
                                          !.end = Here]
    BY Zenon, <1>7 DEF AppendJournal, Allocate
  <2>2. Here = Len(arena) + 1 /\ Here \in Refs /\ committed.journal \in Refs
    BY <1>3, <2>1, StoreAssumption DEF Here, Room, Refs, Superblocks
  <2>3. new \in Seq(Hashes) /\ Len(new) = committed.sequence + 1
        /\ new[committed.sequence + 1] = candidate.root_hash
    BY <1>3, <1>5, <1>6
  <2>4. x \in Records
    BY Zenon, <1>5, <2>2, <2>3 DEF Journal, Records
  <2>5. /\ arena' \in Seq(Records) /\ Len(arena') = Here /\ arena'[Here] = x
        /\ Kept(arena, arena', Len(arena))
    BY <1>3, <2>1, <2>2, <2>4 DEF Kept
  <2>6. /\ x.type = "journal" /\ x.entries = new /\ x.root = candidate.root
        /\ x.end = Here
    BY Zenon DEF Journal
  <2> HIDE DEF x, new, old
  <2>7. /\ candidate' \in Superblocks /\ candidate'.end = Here
        /\ candidate'.next_id = candidate.next_id
        /\ candidate'.generation = candidate.generation
        /\ candidate'.root_hash = candidate.root_hash /\ candidate'.root = candidate.root
        /\ candidate'.objects = candidate.objects /\ candidate'.cache = candidate.cache
        /\ candidate'.journal = Here
        /\ candidate'.sequence = committed.sequence + 1
    <3>1. candidate' \in Superblocks
      BY Zenon, <1>2, <2>1, <2>2, NextJournal
    <3> QED
      BY Zenon, <1>2, <1>3, <2>1, <3>1 DEF Superblocks
  <2>8. /\ IsRecord(arena', objects.ref, Here, "index")
        /\ arena'[objects.ref].map = objects.map
        /\ cache.ref # 0 => IsRecord(arena', cache.ref, Here, "index")
    BY Zenon, <1>3, <1>4, <2>5, RecordStable
  <2>9. Indexed(arena', objects.map, Here, nextId)
    BY <1>3, <2>5, IndexedStable
  <2>10. Sound(arena', candidate')
    <3> DEFINE c == candidate'
               a == arena'
    <3>1. /\ c.end = Len(a) /\ c.objects # 0 /\ c.journal # 0
          /\ IsRecord(a, c.objects, Len(a), "index")
          /\ a[c.objects].map = objects.map
          /\ c.cache # 0 => IsRecord(a, c.cache, Len(a), "index")
          /\ Indexed(a, objects.map, Len(a), c.next_id)
          /\ c.root_hash \in DOMAIN objects.map /\ c.root = objects.map[c.root_hash]
      BY <1>2, <1>3, <2>2, <2>5, <2>7, <2>8, <2>9
    <3>2. /\ IsRecord(a, c.journal, Len(a), "journal")
          /\ Len(a[c.journal].entries) = c.sequence
          /\ a[c.journal].entries[c.sequence] = c.root_hash
          /\ a[c.journal].root = c.root
          /\ a[c.journal].end \in c.journal..Len(a)
      BY <1>3, <2>2, <2>3, <2>5, <2>6, <2>7 DEF IsRecord
    <3>3. c \in Superblocks /\ a \in Seq(Records)
      BY Zenon, <2>5, <2>7
    <3> HIDE DEF c, a
    <3>4. Sound(a, c)
      BY Zenon, <3>1, <3>2, <3>3, BuiltSound
    <3> QED
      BY Zenon, <3>4 DEF c, a
  <2>11. candidate' # Bad
    BY Zenon, <2>7, BadIsNoSuper
  <2>12. History(arena', candidate') = new
    BY <2>2, <2>5, <2>6, <2>7, <2>11, <1>3 DEF History, EntriesAt
  <2>13. Sound(arena', committed) /\ History(arena', committed) = old
    BY Zenon, <1>3, <2>5, SoundStable DEF old
  <2>14. Prefix(old, new)
    BY <1>5, <1>6 DEF Prefix, new
  <2>15. /\ Older(arena', committed, candidate')
         /\ Continues(arena', committed, candidate')
    BY <1>2, <1>3, <1>7, <2>2, <2>7, <2>12, <2>13, <2>14
       DEF Older, Continues, RootChanged, new
  <2>16. TypeOK'
    <3>1. pc' \in Pcs
      BY Zenon, <1>0 DEF Pcs
    <3>2. Len(arena') \in Refs /\ safe \in 0..Len(arena')
      BY <1>3, <2>2, <2>5
    <3> QED
      BY Zenon, <1>0, <1>1, <2>5, <2>7, <3>1, <3>2 DEF TypeOK
  <2>17. Indexes'
    BY Zenon, <1>0, <1>1, <2>2, <2>5, <2>8, <2>9 DEF IInv, Indexes
  <2>18. Candidate'
    BY Zenon, <1>0, <1>2, <2>5, <2>7, <2>10, <2>11, <2>15 DEF Candidate, Publishing, Saving
  <2> QED
    BY Zenon, <1>0, <1>1, <2>1, <2>4, <2>16, <2>17, <2>18, AppendStep
<1>8. CASE ~RootChanged(candidate.root_hash)
  <2>1. /\ arena' = arena /\ candidate' = [candidate EXCEPT !.end = Len(arena)]
        /\ committed.root # 0 /\ committed.root_hash = candidate.root_hash
    BY Zenon, <1>8 DEF AppendJournal, RootChanged
  <2>2. /\ candidate' \in Superblocks /\ candidate'.end = Len(arena)
        /\ candidate'.next_id = candidate.next_id
        /\ candidate'.generation = candidate.generation
        /\ candidate'.root_hash = candidate.root_hash /\ candidate'.root = candidate.root
        /\ candidate'.objects = candidate.objects /\ candidate'.cache = candidate.cache
        /\ candidate'.journal = candidate.journal
        /\ candidate'.sequence = candidate.sequence
    BY Zenon, <1>2, <1>3, <2>1 DEF Superblocks
  <2>3. /\ committed.journal # 0 /\ committed.root = candidate.root
        /\ IsRecord(arena, committed.journal, committed.end, "journal")
        /\ Len(arena[committed.journal].entries) = committed.sequence
        /\ arena[committed.journal].entries[committed.sequence] = committed.root_hash
        /\ arena[committed.journal].root = committed.root
        /\ arena[committed.journal].end \in committed.journal..committed.end
    BY Zenon, <1>2, <1>3, <1>4, <2>1 DEF Sound, Valid
  <2>4. /\ IsRecord(arena, committed.journal, Len(arena), "journal")
        /\ arena[committed.journal].end \in committed.journal..Len(arena)
    BY <1>3, <2>3 DEF IsRecord
  <2>5. Sound(arena, candidate')
    <3> DEFINE c == candidate'
    <3>1. /\ c.end = Len(arena) /\ c.objects # 0 /\ c.journal # 0
          /\ IsRecord(arena, c.objects, Len(arena), "index")
          /\ arena[c.objects].map = objects.map
          /\ c.cache # 0 => IsRecord(arena, c.cache, Len(arena), "index")
          /\ Indexed(arena, objects.map, Len(arena), c.next_id)
          /\ c.root_hash \in DOMAIN objects.map /\ c.root = objects.map[c.root_hash]
      BY Zenon, <1>2, <1>3, <1>4, <2>2, <2>3
    <3>2. /\ IsRecord(arena, c.journal, Len(arena), "journal")
          /\ Len(arena[c.journal].entries) = c.sequence
          /\ arena[c.journal].entries[c.sequence] = c.root_hash
          /\ arena[c.journal].root = c.root
          /\ arena[c.journal].end \in c.journal..Len(arena)
      BY <1>2, <2>1, <2>2, <2>3, <2>4
    <3> HIDE DEF c
    <3>3. c \in Superblocks
      BY Zenon, <2>2 DEF c
    <3>4. Sound(arena, c)
      BY Zenon, <1>3, <3>1, <3>2, <3>3, BuiltSound
    <3> QED
      BY Zenon, <3>4 DEF c
  <2>6. candidate' # Bad
    BY Zenon, <2>2, BadIsNoSuper
  <2>7. History(arena, candidate') = old
    BY Zenon, <1>2, <1>3, <2>2, <2>6 DEF History
  <2>8. Older(arena, committed, candidate')
    BY <1>2, <1>3, <1>6, <2>2, <2>7 DEF Older, Prefix
  <2>9. TypeOK'
    <3>1. pc' \in Pcs
      BY Zenon, <1>0 DEF Pcs
    <3> QED
      BY Zenon, <1>0, <1>1, <2>1, <2>2, <3>1 DEF TypeOK
  <2>10. Indexes'
    BY Zenon, <1>0, <1>1, <2>1 DEF IInv, Indexes
  <2>11. Candidate'
    BY Zenon, <1>0, <1>2, <2>1, <2>2, <2>5, <2>6, <2>7, <2>8 DEF Candidate, Publishing, Saving
  <2> QED
    BY Zenon, <1>0, <1>1, <2>1, <2>9, <2>10, <2>11, AppendStep
<1> QED
  BY Zenon, <1>7, <1>8

(* Either synchronisation: every superblock is on disk afterwards. *)
LEMMA SyncSteps ==
  ASSUME IInv, DataSync \/ SuperSync
  PROVE  IInv'
<1>0. /\ disk' = super
      /\ UNCHANGED <<exists, linked, super, arena, lock, slot, committed, nextId, objects,
                     cache, candidate, poisoned, reader, saved>>
      /\ \/ pc = "sync" /\ pc' = "lock" /\ safe' = Len(arena)
         \/ pc = "wrote" /\ pc' = "synced" /\ safe' = safe
  BY Zenon DEF DataSync, SuperSync, workVars
<1>1. /\ safe \in Nat /\ Len(arena) \in Nat /\ safe <= Len(arena) /\ TypeOK
      /\ super \in [Slots -> Superblocks \cup {Bad}]
  BY Zenon, FileTypes DEF IInv
<1>2. safe' \in 0..Len(arena) /\ safe <= safe'
  BY <1>0, <1>1
<1>3. TypeOK'
  <2>1. pc' \in Pcs
    BY Zenon, <1>0 DEF Pcs
  <2> QED
    BY Zenon, <1>0, <1>1, <1>2, <2>1 DEF TypeOK
<1>4. FileInv'
  <2>1. ASSUME NEW s \in Slots, super[s] # Bad
        PROVE  Sound(arena, super[s]) /\ super[s].end <= safe'
    <3>1. Sound(arena, super[s]) /\ super[s].end <= safe
      BY Zenon, <2>1 DEF IInv, FileInv, Supers
    <3>2. super[s].end \in Nat
      BY <3>1, StoreAssumption DEF Sound, Superblocks, Refs
    <3> QED
      BY <1>1, <1>2, <3>1, <3>2
  <2> QED
    BY Zenon, <1>0, <2>1 DEF IInv, FileInv, Supers, OneInDoubt, Ordered, SavedOnDisk
<1>5. NoFile' /\ CommitLock'
  BY Zenon, <1>0 DEF IInv, NoFile, CommitLock
<1>6. Writer'
  BY Zenon, <1>0 DEF IInv, Writer, Publishing, Saving, Working
<1>7. Indexes' /\ Inspectors'
  BY Zenon, <1>0 DEF IInv, Indexes, Inspectors, Publishing, Saving, Working
<1>8. Candidate'
  BY Zenon, <1>0 DEF IInv, Candidate, Publishing, Saving
<1> QED
  BY Zenon, <1>3, <1>4, <1>5, <1>6, <1>7, <1>8 DEF IInv

(* The facts about a checkpoint that is complete but not yet committed. *)
LEMMA PublishingFacts ==
  ASSUME IInv, pc \in Publishing
  PROVE  /\ exists /\ linked /\ arena \in Seq(Records)
         /\ committed = super[slot] /\ committed # Bad /\ Sound(arena, committed)
         /\ candidate # Bad /\ Sound(arena, candidate) /\ candidate \in Superblocks
         /\ candidate.end = safe
         /\ Older(arena, committed, candidate)
         /\ candidate.next_id = nextId /\ candidate.root_hash \in DOMAIN objects.map
         /\ candidate.root = objects.map[candidate.root_hash]
<1>1. pc \in Saving /\ pc \in Working
  BY Zenon DEF Saving, Working
<1>2. /\ candidate # Bad /\ Sound(arena, candidate) /\ candidate.end = safe
      /\ Older(arena, committed, candidate)
      /\ candidate.next_id = nextId /\ candidate.root_hash \in DOMAIN objects.map
      /\ candidate.root = objects.map[candidate.root_hash]
  BY Zenon, <1>1 DEF IInv, Candidate
<1>3. exists /\ linked /\ committed = super[slot]
  BY Zenon, <1>1 DEF IInv, Writer
<1> QED
  BY Zenon, <1>1, <1>2, <1>3, WorkingFacts DEF Sound

(* The Save has returned: its checkpoint is the committed one. *)
LEMMA FinishStep ==
  ASSUME IInv, Finish
  PROVE  IInv'
<1>0. /\ pc = "synced" /\ pc' = "idle" /\ lock' = FALSE
      /\ slot' = 1 - slot /\ committed' = candidate /\ poisoned' = FALSE
      /\ candidate' = Bad /\ saved' = History(arena, candidate)
      /\ UNCHANGED <<exists, linked, super, disk, arena, safe, nextId, objects, cache,
                     reader>>
  BY Zenon DEF Finish, fileVars
<1>1. /\ pc \in Publishing /\ pc \in Working /\ TypeOK
      /\ slot \in Slots /\ 1 - slot \in Slots /\ 1 - (1 - slot) = slot
  BY <1>0, FileTypes DEF Publishing, Saving, Working, IInv, Slots
<1>2. super = disk /\ super[1 - slot] = candidate
  BY Zenon, <1>0 DEF IInv, Writer, Candidate
<1>3. saved' \in Seq(Hashes)
  BY Zenon, <1>0, <1>1, PublishingFacts, HistoryType
<1>4. TypeOK'
  <2>1. pc' \in Pcs /\ lock' \in BOOLEAN /\ poisoned' \in BOOLEAN
    BY Zenon, <1>0 DEF Pcs
  <2>2. committed' \in Superblocks /\ candidate' = Bad
    BY Zenon, <1>0, <1>1, PublishingFacts
  <2> QED
    BY Zenon, <1>0, <1>1, <1>3, <2>1, <2>2 DEF TypeOK
<1>5. FileInv'
  <2>1. SavedOnDisk'
    BY <1>0, <1>1, <1>2, <1>3, PublishingFacts DEF SavedOnDisk, Prefix
  <2> QED
    BY Zenon, <1>0, <2>1 DEF IInv, FileInv, Supers, OneInDoubt, Ordered
<1>6. NoFile' /\ CommitLock'
  BY Zenon, <1>0, <1>1, PublishingFacts DEF NoFile, CommitLock
<1>7. Writer'
  BY Zenon, <1>0, <1>1, <1>2, PublishingFacts DEF Writer, Publishing, Saving, Working
<1>8. Indexes'
  <2>1. nextId \in Nat
    BY Zenon, <1>1 DEF TypeOK
  <2>2. nextId <= nextId
    BY ONLY <2>1
  <2>3. committed'.next_id <= nextId'
    BY Zenon, <1>0, <1>1, <2>2, PublishingFacts
  <2>4. /\ committed'.root_hash \in DOMAIN objects'.map
        /\ objects'.map[committed'.root_hash] = committed'.root
    BY Zenon, <1>0, <1>1, PublishingFacts
  <2> QED
    BY Zenon, <1>0, <1>1, <2>3, <2>4 DEF IInv, Indexes
<1>9. Candidate' /\ Inspectors'
  BY Zenon, <1>0 DEF IInv, Candidate, Inspectors, Publishing, Saving
<1> QED
  BY Zenon, <1>4, <1>5, <1>6, <1>7, <1>8, <1>9 DEF IInv

(* The inactive superblock is overwritten.  What it described is part of    *)
(* what the active one describes, which is on disk.                         *)
LEMMA WriteSuperStep ==
  ASSUME IInv, WriteSuper
  PROVE  IInv'
<1> DEFINE t == 1 - slot
<1>0. /\ pc = "publish" /\ poisoned' = TRUE /\ pc' \in {"wrote", "torn"}
      /\ UNCHANGED <<exists, linked, disk, arena, safe, lock, slot, committed, nextId,
                     objects, cache, candidate, reader, saved>>
  BY Zenon DEF WriteSuper
<1>1. /\ pc \in Publishing /\ TypeOK /\ slot \in Slots /\ t \in Slots /\ t # slot
      /\ 1 - t = slot /\ \A s \in Slots : s = slot \/ s = t
      /\ super \in [Slots -> Superblocks \cup {Bad}]
  BY <1>0, FileTypes DEF Publishing, IInv, Slots
<1>2. /\ super'[slot] = super[slot]
      /\ super'[t] \in {candidate, Bad, super[t]}
      /\ pc' = "wrote" => super'[t] = candidate
      /\ super' \in [Slots -> Superblocks \cup {Bad}]
  BY <1>1, PublishingFacts DEF WriteSuper
<1>3. /\ super = disk /\ ~poisoned /\ lock
      /\ super[t] # Bad => Older(arena, super[t], committed)
  BY Zenon, <1>0 DEF IInv, Writer, CommitLock, Publishing, Saving, Working
<1>4. /\ arena \in Seq(Records) /\ committed = super[slot] /\ committed # Bad
      /\ exists /\ linked
      /\ Sound(arena, committed) /\ Sound(arena, candidate) /\ candidate.end = safe
      /\ Older(arena, committed, candidate)
      /\ super[t] # Bad => Sound(arena, super[t]) /\ super[t].end <= safe
      /\ committed.end <= safe /\ safe \in Nat
  BY Zenon, <1>1, PublishingFacts, FileTypes DEF IInv, FileInv, Supers
<1> HIDE DEF t
<1>5. TypeOK'
  <2>1. pc' \in Pcs /\ poisoned' \in BOOLEAN
    BY Zenon, <1>0 DEF Pcs
  <2> QED
    BY Zenon, <1>0, <1>1, <1>2, <2>1 DEF TypeOK
<1>6. Supers'
  <2>1. /\ super'[t] # Bad => Sound(arena, super'[t]) /\ super'[t].end <= safe
        /\ super'[slot] # Bad => Sound(arena, super'[slot]) /\ super'[slot].end <= safe
    BY <1>2, <1>4
  <2>2. \A s \in Slots : disk[s] # Bad => Sound(arena, disk[s]) /\ disk[s].end <= safe
    BY Zenon DEF IInv, FileInv, Supers
  <2> QED
    BY Zenon, <1>0, <1>1, <2>1, <2>2 DEF Supers
<1>7. OneInDoubt'
  <2> SUFFICES ASSUME NEW s \in Slots, super'[s] # disk[s]
               PROVE  /\ super'[1 - s] = disk[1 - s]
                      /\ disk[s] # Bad => /\ super'[1 - s] # Bad
                                          /\ Older(arena, disk[s], super'[1 - s])
                      /\ super'[s] # Bad /\ super'[1 - s] # Bad =>
                           Older(arena, super'[1 - s], super'[s])
    BY Zenon, <1>0 DEF OneInDoubt
  <2>1. s = t /\ 1 - s = slot
    BY Zenon, <1>1, <1>2, <1>3
  <2>2. super'[t] # Bad => super'[t] = candidate
    BY Zenon, <1>2, <1>3, <2>1
  <2> QED
    BY Zenon, <1>2, <1>3, <1>4, <2>1, <2>2
<1>8. Ordered'
  <2>1. super'[slot] # Bad /\ super'[t] # Bad =>
          Older(arena, super'[slot], super'[t]) \/ Older(arena, super'[t], super'[slot])
    BY Zenon, <1>2, <1>3, <1>4
  <2>2. (slot = 0 /\ t = 1) \/ (slot = 1 /\ t = 0)
    BY Zenon, <1>1 DEF Slots, t
  <2> QED
    BY Zenon, <1>0, <2>1, <2>2 DEF Ordered
<1>9. SavedOnDisk'
  <2> SUFFICES ASSUME saved # <<>>
               PROVE  /\ super'[slot] = disk[slot] /\ super'[slot] # Bad
                      /\ Prefix(saved, History(arena, super'[slot]))
    BY Zenon, <1>0, <1>1, <1>4 DEF SavedOnDisk
  <2>1. PICK s \in Slots : super[s] # Bad /\ Prefix(saved, History(arena, super[s]))
    BY Zenon DEF IInv, FileInv, SavedOnDisk
  <2>2. AtMost(arena, super[s], committed) /\ Sound(arena, super[s])
    BY Zenon, <1>1, <1>3, <1>4, <2>1 DEF AtMost
  <2>3. Prefix(History(arena, super[s]), History(arena, committed))
    BY Zenon, <1>4, <2>2, AtMostPrefix
  <2>4. /\ saved \in Seq(Hashes) /\ History(arena, super[s]) \in Seq(Hashes)
        /\ History(arena, committed) \in Seq(Hashes)
    BY Zenon, <1>1, <1>4, <2>2, HistoryType DEF TypeOK
  <2>5. Prefix(saved, History(arena, committed))
    BY Zenon, <2>1, <2>3, <2>4, PrefixTransitive
  <2> QED
    BY Zenon, <1>2, <1>3, <1>4, <2>5
<1>10. NoFile' /\ CommitLock'
  BY Zenon, <1>0, <1>3, <1>4 DEF NoFile, CommitLock
<1>11. Writer'
  BY Zenon, <1>0, <1>2, <1>3, <1>4 DEF Writer, Publishing, Saving, Working
<1>12. Indexes'
  BY Zenon, <1>0 DEF IInv, Indexes, Publishing, Saving, Working
<1>13. Candidate'
  BY Zenon, <1>0, <1>2 DEF IInv, Candidate, Publishing, Saving, t
<1>14. Inspectors'
  <2> SUFFICES ASSUME NEW r \in Readers
               PROVE  /\ ~reader[r].held
                      /\ reader[r].committed # Bad =>
                           /\ super'[slot] # Bad
                           /\ AtMost(arena, reader[r].committed, super'[slot])
                           /\ Sound(arena, reader[r].committed)
    BY Zenon, <1>0, <1>1 DEF Inspectors
  <2>1. ~reader[r].held
    BY Zenon, <1>3 DEF IInv, Inspectors
  <2>2. ASSUME reader[r].committed # Bad
        PROVE  /\ AtMost(arena, reader[r].committed, committed)
               /\ Sound(arena, reader[r].committed)
    <3>1. PICK s \in Slots : /\ super[s] # Bad
                             /\ AtMost(arena, reader[r].committed, super[s])
                             /\ Sound(arena, reader[r].committed)
      BY Zenon, <2>2 DEF IInv, Inspectors
    <3>2. AtMost(arena, super[s], committed) /\ Sound(arena, super[s])
      BY Zenon, <1>1, <1>3, <1>4, <3>1 DEF AtMost
    <3> QED
      BY Zenon, <1>4, <3>1, <3>2, OlderTransitive
  <2> QED
    BY Zenon, <1>2, <1>4, <2>1, <2>2
<1> QED
  BY Zenon, <1>5, <1>6, <1>7, <1>8, <1>9, <1>10, <1>11, <1>12, <1>13, <1>14 DEF IInv, FileInv

--------------------------------------------------------------------------------
(* The inspectors and a loss of power.                                      *)

(* What an inspector takes is the newest checkpoint or the one it had. *)
LEMMA Adopted ==
  ASSUME IInv, NEW r \in Readers, reader[r].held
  PROVE  LET old == reader[r].committed
             new == Adopt(old, Chosen(arena, reader[r].first, super[1]))
         IN /\ new \in Superblocks \cup {Bad}
            /\ new = old \/ (new = Found /\ Found # Bad)
            /\ new # old /\ old # Bad => old.generation <= new.generation
<1>1. exists /\ reader[r].first = super[0]
  BY Zenon DEF IInv, Inspectors
<1>2. Chosen(arena, reader[r].first, super[1]) = Found
  BY Zenon, <1>1 DEF Found
<1>3. Found \in Superblocks \cup {Bad}
  BY Zenon, <1>1, FoundNewest, FileTypes DEF IInv, Slots
<1>4. reader[r].committed \in Superblocks \cup {Bad}
  BY Zenon DEF IInv, TypeOK
<1> QED
  BY <1>2, <1>3, <1>4 DEF Adopt, Superblocks

(* Inspectors open, refresh and close. *)
LEMMA InspectStep ==
  ASSUME IInv, NEW q \in Readers, ReadFirst(q) \/ ReadSecond(q) \/ ReaderStops(q)
  PROVE  IInv'
<1>0. UNCHANGED <<exists, linked, super, disk, arena, safe, lock, pc, slot, committed,
                  nextId, objects, cache, candidate, poisoned, saved>>
  BY Zenon DEF ReadFirst, ReadSecond, ReaderStops, fileVars, workVars
<1> DEFINE Views == [held : BOOLEAN, first : Superblocks \cup {Bad},
                     committed : Superblocks \cup {Bad}]
<1>1. /\ TypeOK /\ reader \in [Readers -> Views]
      /\ super \in [Slots -> Superblocks \cup {Bad}] /\ 0 \in Slots /\ 1 \in Slots
  BY Zenon, FileTypes DEF IInv, TypeOK, Slots
<1>2. /\ reader' \in [Readers -> Views]
      /\ \A r \in Readers : r # q => reader'[r] = reader[r]
      /\ reader'[q].held => ~lock /\ exists /\ reader'[q].first = super[0]
      /\ \/ reader'[q].committed \in {Bad, reader[q].committed}
         \/ exists /\ reader'[q].committed = Found /\ Found # Bad
  <2>1. CASE ReadFirst(q)
    <3> DEFINE v == [[reader[q] EXCEPT !.held = TRUE] EXCEPT !.first = super[0]]
    <3>1. reader' = [reader EXCEPT ![q] = v] /\ ~lock /\ exists
      BY Zenon, <1>1, <2>1 DEF ReadFirst
    <3>2. /\ v \in Views /\ v.held = TRUE /\ v.first = super[0]
          /\ v.committed = reader[q].committed
      BY Zenon, <1>1
    <3> HIDE DEF v, Views
    <3> QED
      BY Zenon, <1>1, <3>1, <3>2
  <2>2. CASE ReadSecond(q)
    <3> DEFINE new == Adopt(reader[q].committed,
                            Chosen(arena, reader[q].first, super[1]))
               v == [Closed EXCEPT !.committed = new]
    <3>1. reader' = [reader EXCEPT ![q] = v] /\ reader[q].held
      BY Zenon, <2>2 DEF ReadSecond
    <3>2. new \in Superblocks \cup {Bad} /\ (new = reader[q].committed
                                              \/ (new = Found /\ Found # Bad))
      BY Zenon, <3>1, Adopted
    <3>3. Found # Bad => exists
      BY Zenon DEF Found
    <3> HIDE DEF new
    <3>4. v \in Views /\ v.held = FALSE /\ v.committed = new
      BY Zenon, <3>2 DEF Closed
    <3> HIDE DEF v, Views
    <3> QED
      BY Zenon, <1>1, <3>1, <3>2, <3>3, <3>4
  <2>3. CASE ReaderStops(q)
    <3>1. Closed \in Views /\ Closed.held = FALSE /\ Closed.committed = Bad
      BY Zenon DEF Closed
    <3>2. reader' = [reader EXCEPT ![q] = Closed]
      BY Zenon, <2>3 DEF ReaderStops
    <3> HIDE DEF Views
    <3> QED
      BY Zenon, <1>1, <3>1, <3>2
  <2> QED
    BY Zenon, <2>1, <2>2, <2>3
<1>3. TypeOK'
  BY Zenon, <1>0, <1>1, <1>2 DEF TypeOK
<1>4. FileInv' /\ NoFile' /\ CommitLock'
  BY Zenon, <1>0 DEF IInv, FileInv, Supers, OneInDoubt, Ordered, SavedOnDisk, NoFile, Blank,
              CommitLock
<1>5. Writer' /\ Indexes' /\ Candidate'
  <2>1. Writer' = Writer
    BY Zenon, <1>0 DEF Writer
  <2>2. Indexes' = Indexes
    BY Zenon, <1>0 DEF Indexes
  <2>3. Candidate' = Candidate
    BY Zenon, <1>0 DEF Candidate
  <2> QED
    BY Zenon, <2>1, <2>2, <2>3 DEF IInv
<1>6. Inspectors'
  <2>1. ASSUME reader'[q].committed # Bad
        PROVE  \E s \in Slots : /\ super[s] # Bad
                                /\ AtMost(arena, reader'[q].committed, super[s])
                                /\ Sound(arena, reader'[q].committed)
    <3>1. CASE reader'[q].committed = reader[q].committed
      BY Zenon, <2>1, <3>1 DEF IInv, Inspectors
    <3>2. CASE exists /\ reader'[q].committed = Found
      <4>1. PICK s \in Slots : Found = super[s]
        BY Zenon, <1>1, <3>2, FoundNewest DEF IInv
      <4> QED
        BY Zenon, <2>1, <3>2, <4>1 DEF IInv, FileInv, Supers, AtMost
    <3> QED
      BY Zenon, <1>2, <2>1, <3>1, <3>2
  <2> QED
    BY Zenon, <1>0, <1>2, <2>1 DEF IInv, Inspectors
<1> QED
  BY Zenon, <1>3, <1>4, <1>5, <1>6 DEF IInv

(* After a loss of power every process is gone: only the file matters. *)
LEMMA AllGone ==
  ASSUME TypeOK, pc' = "down", lock' = FALSE, Down,
         reader' = [r \in Readers |-> Closed], saved' = saved,
         exists' \in BOOLEAN, linked' \in BOOLEAN,
         super' \in [Slots -> Superblocks \cup {Bad}],
         disk' \in [Slots -> Superblocks \cup {Bad}],
         arena' \in Seq(Records), Len(arena') \in Refs, safe' \in 0..Len(arena'),
         FileInv', ~exists' => Blank' /\ super'[0] = Bad /\ ~linked'
  PROVE  IInv'
<1>1. TypeOK'
  <2>1. lock' \in BOOLEAN /\ poisoned' \in BOOLEAN
    BY Zenon DEF Down
  <2>2. /\ pc' \in Pcs /\ slot' \in Slots /\ nextId' \in Nat \ {0}
        /\ objects' = NoIndex /\ cache' = NoIndex /\ committed' = Bad /\ candidate' = Bad
    BY DEF Down, Slots, Pcs
  <2>3. reader' \in [Readers -> [held : BOOLEAN, first : Superblocks \cup {Bad},
                                  committed : Superblocks \cup {Bad}]]
    BY Zenon DEF Closed
  <2> QED
    BY Zenon, <2>1, <2>2, <2>3, NoIndexType DEF TypeOK
<1>2. Writer' /\ Indexes' /\ Candidate' /\ CommitLock' /\ NoFile'
  BY Zenon DEF Down, Writer, Indexes, Candidate, CommitLock, NoFile, Publishing, Saving, Working
<1>3. Inspectors'
  BY Zenon DEF Inspectors, Closed
<1> QED
  BY Zenon, <1>1, <1>2, <1>3 DEF IInv

(* What survives in the two slots is sound, on disk and ordered. *)
LEMMA SurvivorsOrdered ==
  ASSUME TypeOK, FileInv, NEW a \in Survivors(0), NEW b \in Survivors(1)
  PROVE  /\ a \in Superblocks \cup {Bad} /\ b \in Superblocks \cup {Bad}
         /\ a # Bad => Sound(arena, a) /\ a.end <= safe /\ a.end \in Nat
         /\ b # Bad => Sound(arena, b) /\ b.end <= safe /\ b.end \in Nat
         /\ a # Bad /\ b # Bad => Older(arena, a, b) \/ Older(arena, b, a)
         /\ super[0] = disk[0] => a = super[0]
         /\ super[1] = disk[1] => b = super[1]
<1>0. /\ super \in [Slots -> Superblocks \cup {Bad}] /\ 0 \in Slots /\ 1 \in Slots
      /\ disk \in [Slots -> Superblocks \cup {Bad}] /\ 1 - 0 = 1 /\ 1 - 1 = 0
  BY FileTypes DEF Slots
<1>1. a \in {super[0], disk[0], Bad} /\ b \in {super[1], disk[1], Bad}
  BY Zenon DEF Survivors
<1>2. (super[0] = disk[0] => a = super[0]) /\ (super[1] = disk[1] => b = super[1])
  BY Zenon DEF Survivors
<1>3. /\ a # Bad => Sound(arena, a) /\ a.end <= safe
      /\ b # Bad => Sound(arena, b) /\ b.end <= safe
  BY Zenon, <1>0, <1>1 DEF FileInv, Supers
<1>4. /\ a # Bad => a.end \in Nat
      /\ b # Bad => b.end \in Nat
  BY <1>3, StoreAssumption DEF Sound, Superblocks, Refs
<1>5. ASSUME a # Bad, b # Bad
      PROVE  Older(arena, a, b) \/ Older(arena, b, a)
  <2>1. CASE super[0] = disk[0] /\ super[1] = disk[1]
    BY Zenon, <1>2, <1>5, <2>1 DEF FileInv, Ordered
  <2>2. CASE super[0] # disk[0]
    <3>1. /\ super[1] = disk[1]
          /\ disk[0] # Bad => Older(arena, disk[0], super[1])
          /\ super[0] # Bad /\ super[1] # Bad => Older(arena, super[1], super[0])
      BY Zenon, <1>0, <2>2 DEF FileInv, OneInDoubt
    <3> QED
      BY Zenon, <1>1, <1>2, <1>5, <3>1
  <2>3. CASE super[1] # disk[1]
    <3>1. /\ super[0] = disk[0]
          /\ disk[1] # Bad => Older(arena, disk[1], super[0])
          /\ super[1] # Bad /\ super[0] # Bad => Older(arena, super[0], super[1])
      BY Zenon, <1>0, <2>3 DEF FileInv, OneInDoubt
    <3> QED
      BY Zenon, <1>1, <1>2, <1>5, <3>1
  <2> QED
    BY Zenon, <2>1, <2>2, <2>3
<1> QED
  BY Zenon, <1>0, <1>1, <1>2, <1>3, <1>4, <1>5

(* Everything the surviving superblocks describe was synchronised before    *)
(* they were written, so nothing they describe is lost.                     *)
LEMMA NothingLost ==
  ASSUME TypeOK, FileInv, NEW a \in Survivors(0), NEW b \in Survivors(1)
  PROVE  LET size == IF LastRead(a, b) <= Len(arena) THEN LastRead(a, b) ELSE Len(arena)
         IN /\ size = LastRead(a, b) /\ size \in Nat /\ size <= safe
            /\ safe + 1..size = {}
            /\ a # Bad => a.end <= size
            /\ b # Bad => b.end <= size
            /\ a = Bad /\ b = Bad => size = 0
<1>1. safe \in Nat /\ Len(arena) \in Nat /\ safe <= Len(arena)
  BY Zenon, FileTypes
<1>2. /\ End(a) \in Nat /\ End(a) <= safe /\ End(b) \in Nat /\ End(b) <= safe
      /\ a # Bad => End(a) = a.end
      /\ b # Bad => End(b) = b.end
      /\ a = Bad => End(a) = 0
      /\ b = Bad => End(b) = 0
  BY <1>1, SurvivorsOrdered DEF End
<1>3. /\ LastRead(a, b) \in Nat /\ LastRead(a, b) <= safe
      /\ End(a) <= LastRead(a, b) /\ End(b) <= LastRead(a, b)
      /\ a = Bad /\ b = Bad => LastRead(a, b) = 0
  BY <1>2 DEF LastRead
<1>4. LastRead(a, b) <= Len(arena)
  BY <1>1, <1>3
<1>5. safe + 1..LastRead(a, b) = {}
  BY <1>1, <1>3
<1> QED
  BY Zenon, <1>2, <1>3, <1>4, <1>5

(* A loss of power left the superblocks a and b and the records they        *)
(* describe, size of them, or no file.                                      *)
Remains(a, b, size) ==
  /\ size \in Nat /\ size = LastRead(a, b) /\ size <= safe
  /\ super' = [s \in Slots |-> IF s = 0 THEN a ELSE b] /\ disk' = super'
  /\ arena' = [i \in 1..size |-> arena[i]] /\ safe' = size
  /\ linked' = exists /\ exists' = exists /\ saved' = saved
  /\ a # Bad => a.end <= size
  /\ b # Bad => b.end <= size
  /\ a = Bad /\ b = Bad => size = 0

Vanished ==
  /\ exists /\ ~linked /\ exists' = FALSE /\ linked' = FALSE
  /\ super' = [s \in Slots |-> Bad] /\ disk' = super'
  /\ arena' = <<>> /\ safe' = 0 /\ saved' = saved

(* A loss of power keeps what the superblocks of the file describe. *)
LEMMA FileSurvives ==
  ASSUME IInv, NEW a \in Survivors(0), NEW b \in Survivors(1),
         NEW size, Remains(a, b, size)
  PROVE  /\ FileInv' /\ arena' \in Seq(Records) /\ Len(arena') = size
         /\ Kept(arena, arena', size) /\ super'[0] = a /\ super'[1] = b
         /\ super' \in [Slots -> Superblocks \cup {Bad}]
         /\ ~exists' => Blank' /\ super'[0] = Bad /\ ~linked'
<1> USE DEF Remains
<1>0. /\ TypeOK /\ FileInv /\ safe \in Nat /\ Len(arena) \in Nat /\ safe <= Len(arena)
      /\ arena \in Seq(Records) /\ 0 \in Slots /\ 1 \in Slots
  BY Zenon, FileTypes DEF IInv, Slots
<1>1. /\ arena' \in Seq(Records) /\ Len(arena') = size /\ Kept(arena, arena', size)
      /\ size = 0 => arena' = <<>>
  BY <1>0 DEF Kept
<1>2. /\ a \in Superblocks \cup {Bad} /\ b \in Superblocks \cup {Bad}
      /\ a # Bad => Sound(arena, a)
      /\ b # Bad => Sound(arena, b)
      /\ a # Bad /\ b # Bad => Older(arena, a, b) \/ Older(arena, b, a)
      /\ super[0] = disk[0] => a = super[0]
      /\ super[1] = disk[1] => b = super[1]
  BY Zenon, <1>0, SurvivorsOrdered
<1>3. /\ super'[0] = a /\ super'[1] = b /\ disk' = super'
      /\ super' \in [Slots -> Superblocks \cup {Bad}]
      /\ \A s \in Slots : super'[s] = a \/ super'[s] = b
  BY <1>0, <1>2
<1>4. /\ a # Bad => Sound(arena', a) /\ History(arena', a) = History(arena, a)
      /\ b # Bad => Sound(arena', b) /\ History(arena', b) = History(arena, b)
  BY <1>0, <1>1, <1>2, SoundStable
<1>5. Supers' /\ OneInDoubt'
  BY Zenon, <1>3, <1>4 DEF Supers, OneInDoubt
<1>6. Ordered'
  <2>1. a # Bad /\ b # Bad => Older(arena', a, b) \/ Older(arena', b, a)
    BY Zenon, <1>0, <1>1, <1>2, OlderStable
  <2> QED
    BY Zenon, <1>3, <2>1 DEF Ordered
<1>7. SavedOnDisk'
  <2> SUFFICES ASSUME saved # <<>>
               PROVE  /\ exists
                      /\ \E s \in Slots : /\ super'[s] # Bad
                                          /\ Prefix(saved, History(arena', super'[s]))
    BY Zenon, <1>3 DEF SavedOnDisk
  <2>1. exists
    BY Zenon DEF IInv, NoFile, Blank
  <2>2. PICK s \in Slots : /\ super[s] = disk[s] /\ super[s] # Bad
                           /\ Prefix(saved, History(arena, super[s]))
    BY Zenon, <1>0 DEF FileInv, SavedOnDisk
  <2>3. s = 0 \/ s = 1
    BY Zenon DEF Slots
  <2> QED
    BY Zenon, <1>2, <1>3, <1>4, <2>1, <2>2, <2>3
<1>8. ASSUME ~exists
      PROVE  Blank' /\ super'[0] = Bad
  <2>1. super[0] = Bad /\ super[1] = Bad /\ disk = [s \in Slots |-> Bad] /\ saved = <<>>
    BY Zenon, <1>8 DEF IInv, NoFile, Blank
  <2>2. a = Bad /\ b = Bad
    BY Zenon, <1>0, <1>2, <2>1
  <2> QED
    BY Zenon, <1>1, <1>3, <2>1, <2>2 DEF Blank
<1> QED
  BY Zenon, <1>1, <1>3, <1>5, <1>6, <1>7, <1>8 DEF FileInv

(* What a loss of power may leave: a part of the file, or no file at all    *)
(* when its directory entry was not on disk yet.                            *)
LEMMA PowerLossLeaves ==
  ASSUME IInv, PowerLoss
  PROVE  \/ \E a \in Survivors(0), b \in Survivors(1), size \in Nat : Remains(a, b, size)
         \/ Vanished
<1> DEFINE Size(a, b) == IF LastRead(a, b) <= Len(arena) THEN LastRead(a, b) ELSE Len(arena)
           Cut(a, b, lost) ==
             /\ super' = [s \in Slots |-> IF s = 0 THEN a ELSE b]
             /\ disk' = super'
             /\ arena' = [i \in 1..Size(a, b) |-> IF i \in lost THEN Junk ELSE arena[i]]
             /\ safe' = Size(a, b)
             /\ linked' = exists /\ UNCHANGED exists
<1>1. \/ \E a \in Survivors(0), b \in Survivors(1) :
             \E lost \in SUBSET (safe + 1..Size(a, b)) : Cut(a, b, lost)
      \/ Vanished
  BY Zenon DEF PowerLoss, Vanished
<1>2. ASSUME NEW a \in Survivors(0), NEW b \in Survivors(1),
             NEW lost \in SUBSET (safe + 1..Size(a, b)), Cut(a, b, lost)
      PROVE  \E size \in Nat : Remains(a, b, size)
  <2> DEFINE size == Size(a, b)
  <2>1. /\ size = LastRead(a, b) /\ size \in Nat /\ size <= safe
        /\ safe + 1..size = {}
        /\ a # Bad => a.end <= size
        /\ b # Bad => b.end <= size
        /\ a = Bad /\ b = Bad => size = 0
    BY Zenon, NothingLost DEF IInv
  <2>2. /\ super' = [s \in Slots |-> IF s = 0 THEN a ELSE b] /\ disk' = super'
        /\ arena' = [i \in 1..size |-> IF i \in lost THEN Junk ELSE arena[i]]
        /\ safe' = size /\ linked' = exists /\ exists' = exists
        /\ lost \in SUBSET (safe + 1..size)
    BY Zenon, <1>2
  <2> HIDE DEF size
  <2>3. lost = {}
    BY Zenon, <2>1, <2>2
  <2>4. arena' = [i \in 1..size |-> arena[i]]
    BY Zenon, <2>2, <2>3
  <2>5. saved' = saved
    BY Zenon DEF PowerLoss
  <2> QED
    BY Zenon, <2>1, <2>2, <2>4, <2>5 DEF Remains
<1> HIDE DEF Cut, Size
<1> QED
  BY Zenon, <1>1, <1>2

(* Power may fail at any step. *)
LEMMA PowerLossStep ==
  ASSUME IInv, PowerLoss
  PROVE  IInv'
<1>0. /\ pc' = "down" /\ lock' = FALSE /\ Down /\ saved' = saved
      /\ reader' = [r \in Readers |-> Closed]
      /\ TypeOK /\ Len(arena) \in Refs /\ safe \in 0..Len(arena) /\ 0 \in Refs
      /\ exists \in BOOLEAN /\ Len(arena) \in Nat /\ Len(arena) <= Capacity
  BY Zenon, NoIndexType, FileTypes DEF PowerLoss, IInv, TypeOK
<1>1. CASE \E a \in Survivors(0), b \in Survivors(1), size \in Nat : Remains(a, b, size)
  <2>1. PICK a \in Survivors(0), b \in Survivors(1), size \in Nat : Remains(a, b, size)
    BY Zenon, <1>1
  <2>2. /\ FileInv' /\ arena' \in Seq(Records) /\ Len(arena') = size
        /\ super' \in [Slots -> Superblocks \cup {Bad}]
        /\ ~exists' => Blank' /\ super'[0] = Bad /\ ~linked'
    BY Zenon, <2>1, FileSurvives
  <2>3. Len(arena') \in Refs /\ safe' \in 0..Len(arena')
    BY <1>0, <2>1, <2>2, StoreAssumption DEF Refs, Remains
  <2>4. disk' = super' /\ linked' = exists /\ exists' = exists
    BY Zenon, <2>1 DEF Remains
  <2> QED
    BY Zenon, <1>0, <2>2, <2>3, <2>4, AllGone
<1>2. CASE Vanished
  <2> USE DEF Vanished
  <2>1. saved = <<>>
    BY Zenon, <1>2 DEF IInv, FileInv, SavedOnDisk
  <2>2. /\ super'[0] = Bad /\ super'[1] = Bad
        /\ super' \in [Slots -> Superblocks \cup {Bad}]
    BY Zenon, <1>2 DEF Slots
  <2>3. FileInv' /\ Blank'
    BY Zenon, <1>0, <1>2, <2>1, <2>2
       DEF FileInv, Supers, OneInDoubt, Ordered, SavedOnDisk, Blank
  <2>4. arena' \in Seq(Records) /\ Len(arena') = 0
    BY <1>2
  <2>5. exists' \in BOOLEAN /\ linked' \in BOOLEAN /\ ~linked'
    BY Zenon, <1>2
  <2>6. Len(arena') \in Refs /\ safe' \in 0..Len(arena') /\ disk' = super'
    BY <1>0, <1>2, <2>4
  <2> QED
    BY Zenon, <1>0, <2>2, <2>3, <2>4, <2>5, <2>6, AllGone
<1> QED
  BY Zenon, <1>1, <1>2, PowerLossLeaves

--------------------------------------------------------------------------------
(* The invariant, and what it says.                                         *)

(* Every step of the writer, the inspectors and the machine keeps it. *)
LEMMA NextIInv == IInv /\ [Next]_vars => IInv'
<1> SUFFICES ASSUME IInv, [Next]_vars
             PROVE  IInv'
  BY Zenon
<1>1. CASE Open
  BY Zenon, <1>1, ControlSteps, InitSuperStep, InitSyncStep, OpenExistingStep, SettleStep
     DEF Open
<1>2. CASE Staging
  BY Zenon, <1>2, StageStep, PutCacheStep DEF Staging
<1>3. CASE Save
  BY Zenon, <1>3, ControlSteps, BeginSaveStep, EmitCacheStep, AppendJournalStep, SyncSteps,
     WriteSuperStep, FinishStep DEF Save
<1>4. CASE Inspect
  BY Zenon, <1>4, InspectStep DEF Inspect
<1>5. CASE Stop
  BY Zenon, <1>5, StopStep
<1>6. CASE PowerLoss
  BY Zenon, <1>6, PowerLossStep
<1>7. CASE UNCHANGED vars
  <2>1. UNCHANGED <<exists, linked, super, disk, arena, safe, lock, pc, slot, committed,
                    nextId, objects, cache, candidate, poisoned, reader, saved>>
    BY Zenon, <1>7 DEF vars, fileVars, workVars
  <2>2. TypeOK'
    BY Zenon, <2>1 DEF IInv, TypeOK
  <2>3. FileInv' /\ NoFile' /\ CommitLock'
    BY Zenon, <2>1 DEF IInv, FileInv, Supers, OneInDoubt, Ordered, SavedOnDisk, NoFile, Blank,
                CommitLock
  <2>4. Writer' /\ Indexes'
    BY Zenon, <2>1 DEF IInv, Writer, Indexes
  <2>5. Candidate' /\ Inspectors'
    BY Zenon, <2>1 DEF IInv, Candidate, Inspectors
  <2> QED
    BY Zenon, <2>2, <2>3, <2>4, <2>5 DEF IInv
<1> QED
  BY Zenon, <1>1, <1>2, <1>3, <1>4, <1>5, <1>6, <1>7 DEF Next

(* The invariant holds in every state of the store. *)
THEOREM StoreInvariant == Spec => []IInv
  BY InitIInv, NextIInv, PTL DEF Spec

(* Every variable keeps its type; in particular nalloc never hands out an   *)
(* offset outside the address window.                                       *)
THEOREM StoreTypes == Spec => []TypeOK
<1>1. IInv => TypeOK
  BY Zenon DEF IInv
<1> QED
  BY <1>1, StoreInvariant, PTL

(* A root whose Save published a checkpoint and returned true is found by   *)
(* whoever opens the store next, whatever stopped, failed or lost power in  *)
(* between.                                                                 *)
THEOREM SaveIsRecoverable == Spec => []SavedRecoverable
<1>1. ASSUME IInv
      PROVE  SavedRecoverable
  <2> SUFFICES ASSUME saved # <<>>
               PROVE  Found # Bad /\ Prefix(saved, Visible)
    BY Zenon DEF SavedRecoverable
  <2>1. exists /\ arena \in Seq(Records) /\ TypeOK /\ FileInv
    BY Zenon, <1>1, FileTypes DEF IInv, NoFile, Blank
  <2>2. PICK s \in Slots : super[s] # Bad /\ Prefix(saved, History(arena, super[s]))
    BY Zenon, <2>1 DEF FileInv, SavedOnDisk
  <2>3. Found # Bad /\ AtMost(arena, super[s], Found) /\ Found \in {super[0], super[1]}
    BY Zenon, <2>1, <2>2, FoundNewest DEF Slots
  <2>4. Sound(arena, super[s]) /\ Sound(arena, Found)
    BY Zenon, <2>1, <2>2, <2>3 DEF FileInv, Supers, Slots
  <2>5. Prefix(History(arena, super[s]), Visible)
    BY Zenon, <2>1, <2>3, <2>4, AtMostPrefix DEF Visible
  <2>6. /\ saved \in Seq(Hashes) /\ History(arena, super[s]) \in Seq(Hashes)
        /\ Visible \in Seq(Hashes)
    BY Zenon, <2>1, <2>4, HistoryType DEF TypeOK, Visible
  <2> QED
    BY Zenon, <2>2, <2>3, <2>5, <2>6, PrefixTransitive
<1> QED
  BY <1>1, StoreInvariant, PTL

(* A step appends at most one record, cuts off what no superblock describes, *)
(* or ends every process; only an inspector changes what it has adopted.     *)
LEMMA StepsOnArena ==
  ASSUME [Next]_vars
  PROVE  \/ arena' = arena /\ reader' = reader
         \/ reader' = reader /\ \E x : arena' = Append(arena, x)
         \/ Settle
         \/ \E r \in Readers : ReadFirst(r) \/ ReadSecond(r) \/ ReaderStops(r)
         \/ reader' = [r \in Readers |-> Closed]
<1>1. CASE Open
  BY Zenon, <1>1 DEF Open, OpenLock, OpenCreate, InitSuper, InitSync, OpenExisting, OpenReady,
              fileVars
<1>2. CASE Staging
  BY Zenon, <1>2 DEF Staging, Stage, PutCache, Allocate
<1>3. CASE Save
  BY Zenon, <1>3 DEF Save, BeginSave, EmitCache, AppendJournal, DataSync, LockCommit, WriteSuper,
              SuperSync, Finish, SaveFails, Emit, Allocate, fileVars
<1>4. CASE Inspect
  BY Zenon, <1>4 DEF Inspect
<1>5. CASE Stop
  BY Zenon, <1>5 DEF Stop, fileVars
<1>6. CASE PowerLoss
  BY Zenon, <1>6 DEF PowerLoss
<1>7. CASE UNCHANGED vars
  BY Zenon, <1>7 DEF vars, fileVars
<1> QED
  BY Zenon, <1>1, <1>2, <1>3, <1>4, <1>5, <1>6, <1>7 DEF Next

(* An adopted checkpoint ends before the records that may be cut off. *)
LEMMA AdoptedEnds ==
  ASSUME IInv, NEW r \in Readers, reader[r].committed # Bad
  PROVE  LET sb == reader[r].committed
         IN /\ Sound(arena, sb) /\ sb.end \in Nat /\ sb.end <= Len(arena)
            /\ Settle => sb.end <= committed.end /\ committed.end \in Nat
            /\ exists => AtMost(arena, sb, Found) /\ Sound(arena, Found)
            /\ exists
<1> DEFINE sb == reader[r].committed
<1>1. PICK s \in Slots : /\ super[s] # Bad /\ AtMost(arena, sb, super[s])
                         /\ Sound(arena, sb)
  BY Zenon DEF IInv, Inspectors
<1>2. /\ TypeOK /\ FileInv /\ arena \in Seq(Records) /\ safe \in Nat
      /\ Len(arena) \in Nat /\ safe <= Len(arena) /\ slot \in Slots /\ 1 - slot \in Slots
  BY Zenon, FileTypes DEF IInv
<1>3. Sound(arena, super[s]) /\ super[s].end <= safe
  BY Zenon, <1>1 DEF IInv, FileInv, Supers
<1>4. sb.end \in Nat /\ super[s].end \in Nat
  BY <1>1, <1>3, StoreAssumption DEF Sound, Superblocks, Refs
<1>5. sb.end <= super[s].end
  BY <1>1, <1>4 DEF AtMost, Older
<1>6. ASSUME Settle
      PROVE  sb.end <= committed.end /\ committed.end \in Nat
  <2>1. /\ committed # Bad /\ committed = super[slot] /\ ~poisoned
        /\ super[1 - slot] # Bad => Older(arena, super[1 - slot], committed)
    BY Zenon, <1>6 DEF Settle, IInv, Writer
  <2>2. Sound(arena, committed)
    BY Zenon, <1>2, <2>1 DEF FileInv, Supers
  <2>3. AtMost(arena, super[s], committed)
    BY <1>1, <2>1, <1>2 DEF Slots, AtMost
  <2>4. sb.end <= committed.end
    BY Zenon, <1>1, <1>2, <1>3, <2>2, <2>3, OlderTransitive
  <2> QED
    BY <2>2, <2>4, StoreAssumption DEF Sound, Superblocks, Refs
<1>7. exists
  BY Zenon, <1>1 DEF IInv, NoFile, Blank, Slots
<1>8. AtMost(arena, sb, Found) /\ Sound(arena, Found)
  <2>1. AtMost(arena, super[s], Found) /\ Found \in {super[0], super[1]} /\ Found # Bad
    BY Zenon, <1>1, <1>2, <1>7, FoundNewest DEF Slots
  <2>2. Sound(arena, Found)
    BY Zenon, <1>2, <2>1 DEF FileInv, Supers, Slots
  <2> QED
    BY Zenon, <1>1, <1>2, <1>3, <2>1, <2>2, OlderTransitive
<1> QED
  BY <1>1, <1>2, <1>3, <1>4, <1>5, <1>6, <1>7, <1>8

(* The pointers an inspector keeps into its checkpoint stay good: no step   *)
(* of the writer changes or removes a record of an adopted extent.          *)
THEOREM InspectorsKeepTheirRecords == Spec => AdoptedImmutable
<1>1. ASSUME IInv, [Next]_vars, NEW r \in Readers,
             reader[r].committed # Bad, reader'[r].committed # Bad
      PROVE  /\ reader[r].committed.end <= Len(arena')
             /\ \A i \in 1..reader[r].committed.end : arena'[i] = arena[i]
  <2> DEFINE sb == reader[r].committed
  <2>1. /\ sb.end \in Nat /\ sb.end <= Len(arena) /\ arena \in Seq(Records)
        /\ Len(arena) \in Nat
        /\ Settle => sb.end <= committed.end /\ committed.end \in Nat
    BY Zenon, <1>1, AdoptedEnds, FileTypes DEF IInv
  <2>2. CASE arena' = arena
    BY Zenon, <2>1, <2>2
  <2>3. CASE \E x : arena' = Append(arena, x)
    BY <2>1, <2>3
  <2>4. CASE Settle
    <3>1. committed.end <= Len(arena)
      BY Zenon, <1>1, <2>4 DEF IInv, Settle, Writer, FileInv, Supers, Sound, Valid, TypeOK
    <3>2. arena' = SubSeq(arena, 1, committed.end)
      BY Zenon, <2>4 DEF Settle
    <3> QED
      BY <2>1, <2>4, <3>1, <3>2
  <2>5. CASE \E q \in Readers : ReadFirst(q) \/ ReadSecond(q) \/ ReaderStops(q)
    BY Zenon, <2>1, <2>5 DEF ReadFirst, ReadSecond, ReaderStops, fileVars
  <2>6. CASE reader' = [q \in Readers |-> Closed]
    BY Zenon, <1>1, <2>6 DEF Closed
  <2> QED
    BY Zenon, <1>1, <2>2, <2>3, <2>4, <2>5, <2>6, StepsOnArena
<1>2. IInv /\ [Next]_vars =>
        [\A r \in Readers :
           LET sb == reader[r].committed
           IN sb # Bad /\ reader'[r].committed # Bad =>
                /\ sb.end <= Len(arena')
                /\ \A i \in 1..sb.end : arena'[i] = arena[i]]_vars
  BY Zenon, <1>1
<1> QED
  BY <1>2, StoreInvariant, PTL DEF Spec, AdoptedImmutable

(* An inspector that refreshes goes from a history to one that continues    *)
(* it, also when the Save it saw failed or was abandoned.                   *)
THEOREM InspectorsSeeGrowth == Spec => ReaderHistoryGrows
<1>1. ASSUME IInv, [Next]_vars, NEW r \in Readers,
             reader[r].committed \notin {Bad, reader'[r].committed},
             reader'[r].committed # Bad
      PROVE  Prefix(History(arena, reader[r].committed),
                    History(arena, reader[r].committed)')
  <2>1. reader' # reader
    BY Zenon, <1>1
  <2>2. reader' # [q \in Readers |-> Closed]
    BY <1>1 DEF Closed
  <2>3. PICK q \in Readers : ReadFirst(q) \/ ReadSecond(q) \/ ReaderStops(q)
    BY Zenon, <1>1, <2>1, <2>2, StepsOnArena DEF Settle
  <2>4. /\ arena' = arena /\ reader \in [Readers -> [held : BOOLEAN,
             first : Superblocks \cup {Bad}, committed : Superblocks \cup {Bad}]]
    BY Zenon, <1>1, <2>3 DEF ReadFirst, ReadSecond, ReaderStops, fileVars, IInv, TypeOK
  <2>5. r = q /\ ReadSecond(q)
    <3>1. r = q
      BY Zenon, <1>1, <2>3, <2>4 DEF ReadFirst, ReadSecond, ReaderStops
    <3>2. ~ReaderStops(q)
      BY <1>1, <2>4, <3>1 DEF ReaderStops, Closed
    <3>3. ASSUME ReadFirst(q)
          PROVE  FALSE
      <4> DEFINE v == [[reader[q] EXCEPT !.held = TRUE] EXCEPT !.first = super[0]]
      <4>1. reader' = [reader EXCEPT ![q] = v]
        BY Zenon, <2>4, <3>3 DEF ReadFirst
      <4>2. v.committed = reader[q].committed
        BY Zenon, <2>4
      <4> HIDE DEF v
      <4> QED
        BY Zenon, <1>1, <2>4, <3>1, <4>1, <4>2
    <3> QED
      BY Zenon, <2>3, <3>1, <3>2, <3>3
  <2>6. reader'[r].committed = Found
    <3> DEFINE new == Adopt(reader[r].committed,
                            Chosen(arena, reader[r].first, super[1]))
    <3>1. /\ reader' = [reader EXCEPT ![r] = [Closed EXCEPT !.committed = new]]
          /\ reader[r].held
      BY Zenon, <2>5 DEF ReadSecond
    <3>2. reader'[r].committed = new
      BY Zenon, <2>4, <3>1 DEF Closed
    <3> QED
      BY Zenon, <1>1, <3>1, <3>2, Adopted
  <2>7. /\ Sound(arena, reader[r].committed) /\ Sound(arena, Found)
        /\ AtMost(arena, reader[r].committed, Found) /\ arena \in Seq(Records)
    BY Zenon, <1>1, AdoptedEnds, FileTypes DEF IInv
  <2> QED
    BY Zenon, <2>4, <2>6, <2>7, AtMostPrefix
<1>2. IInv /\ [Next]_vars =>
        [\A r \in Readers :
           reader[r].committed \notin {Bad, reader'[r].committed}
             /\ reader'[r].committed # Bad =>
             Prefix(History(arena, reader[r].committed),
                    History(arena, reader[r].committed)')]_vars
  BY Zenon, <1>1
<1> QED
  BY <1>2, StoreInvariant, PTL DEF Spec, ReaderHistoryGrows

--------------------------------------------------------------------------------
(* The arena implements the log of roots.                                   *)

(* The newer of two superblocks that are sound unless bad. *)
Newer(x, y) ==
  IF y # Bad /\ (x # Bad => y.generation > x.generation) THEN y ELSE x

(* On sound superblocks nsb_valid decides nothing: the newer one is chosen. *)
LEMMA ChosenIs ==
  ASSUME NEW a, NEW x, NEW y, x # Bad => Sound(a, x), y # Bad => Sound(a, y)
  PROVE  Chosen(a, x, y) = Newer(x, y)
<1>1. /\ Valid(a, x) <=> x # Bad
      /\ Valid(a, y) <=> y # Bad
  BY Zenon DEF Sound, Valid
<1> QED
  BY Zenon, <1>1 DEF Chosen, Newer

(* What an opener reads, and what a loss of power leaves, before a step ... *)
LEMMA ViewsBefore ==
  ASSUME IInv
  PROVE  /\ Visible = History(arena, Newer(super[0], super[1]))
         /\ Sure = History(arena, Newer(OnDisk(0), OnDisk(1)))
<1>1. \A s \in Slots : /\ super[s] # Bad => Sound(arena, super[s])
                       /\ OnDisk(s) # Bad => Sound(arena, OnDisk(s))
  BY Zenon DEF IInv, FileInv, Supers, OnDisk
<1>2. /\ Chosen(arena, super[0], super[1]) = Newer(super[0], super[1])
      /\ Chosen(arena, OnDisk(0), OnDisk(1)) = Newer(OnDisk(0), OnDisk(1))
  BY Zenon, <1>1, ChosenIs DEF Slots
<1>0. super = disk => OnDisk(0) = super[0] /\ OnDisk(1) = super[1]
  BY Zenon DEF OnDisk
<1>3. CASE exists
  <2>1. CASE super = disk
    BY Zenon, <1>0, <1>2, <1>3, <2>1 DEF Visible, Found, Sure
  <2>2. CASE super # disk
    BY Zenon, <1>2, <1>3, <2>2 DEF Visible, Found, Sure
  <2> QED
    BY Zenon, <2>1, <2>2
<1>4. CASE ~exists
  <2>1. super[0] = Bad /\ super[1] = Bad /\ OnDisk(0) = Bad /\ OnDisk(1) = Bad
    BY Zenon, <1>4 DEF IInv, NoFile, Blank, OnDisk
  <2> QED
    BY Zenon, <1>4, <2>1 DEF Visible, Found, Sure, Newer, History
<1> QED
  BY Zenon, <1>3, <1>4

(* ... and after it. *)
LEMMA ViewsAfter ==
  ASSUME IInv'
  PROVE  /\ Visible' = History(arena', Newer(super'[0], super'[1]))
         /\ Sure' = History(arena', Newer(OnDisk(0)', OnDisk(1)'))
<1>1. \A s \in Slots : /\ super'[s] # Bad => Sound(arena', super'[s])
                       /\ OnDisk(s)' # Bad => Sound(arena', OnDisk(s)')
  BY Zenon DEF IInv, FileInv, Supers, OnDisk
<1>2. /\ Chosen(arena', super'[0], super'[1]) = Newer(super'[0], super'[1])
      /\ Chosen(arena', OnDisk(0)', OnDisk(1)') = Newer(OnDisk(0)', OnDisk(1)')
  BY Zenon, <1>1, ChosenIs DEF Slots
<1>0. super' = disk' => OnDisk(0)' = super'[0] /\ OnDisk(1)' = super'[1]
  BY Zenon DEF OnDisk
<1>3. CASE exists'
  <2>1. CASE super' = disk'
    BY Zenon, <1>0, <1>2, <1>3, <2>1 DEF Visible, Found, Sure
  <2>2. CASE super' # disk'
    BY Zenon, <1>2, <1>3, <2>2 DEF Visible, Found, Sure
  <2> QED
    BY Zenon, <2>1, <2>2
<1>4. CASE ~exists'
  <2>1. super'[0] = Bad /\ super'[1] = Bad /\ OnDisk(0)' = Bad /\ OnDisk(1)' = Bad
    BY Zenon, <1>4 DEF IInv, NoFile, Blank, OnDisk
  <2> QED
    BY Zenon, <1>4, <2>1 DEF Visible, Found, Sure, Newer, History
<1> QED
  BY Zenon, <1>3, <1>4

(* Superblocks left alone show the same history. *)
LEMMA SameViews ==
  ASSUME IInv, IInv', super' = super, disk' = disk,
         \A s \in Slots :
           super[s] # Bad => History(arena', super[s]) = History(arena, super[s])
  PROVE  Visible' = Visible /\ Sure' = Sure
<1>1. OnDisk(0)' = OnDisk(0) /\ OnDisk(1)' = OnDisk(1)
  BY Zenon DEF OnDisk
<1>2. \A x : x \in {Bad, super[0], super[1]} => History(arena', x) = History(arena, x)
  BY Zenon DEF History, Slots
<1>3. Newer(super[0], super[1]) \in {Bad, super[0], super[1]}
      /\ Newer(OnDisk(0), OnDisk(1)) \in {Bad, super[0], super[1]}
  BY Zenon DEF Newer, OnDisk
<1> QED
  BY Zenon, <1>1, <1>2, <1>3, ViewsBefore, ViewsAfter

(* Before the directory entry is on disk nothing has been saved. *)
Unlinked == ~linked => \A s \in Slots : super[s] # Bad => super[s].journal = 0

(* Only a store whose directory entry is on disk is ever saved to. *)
LEMMA UnlinkedStep ==
  ASSUME IInv, IInv', Unlinked, [Next]_vars
  PROVE  Unlinked'
<1>1. CASE super' = super /\ linked' = linked
  BY Zenon, <1>1 DEF Unlinked
<1>2. CASE OpenCreate
  BY Zenon, <1>2 DEF OpenCreate, IInv, NoFile, Blank, Unlinked, Slots
<1>3. CASE InitSuper
  <2>1. super[1] = Bad /\ super \in [Slots -> Superblocks \cup {Bad}]
    BY Zenon, <1>3, FileTypes DEF InitSuper, IInv, NoFile, Blank
  <2>2. super'[1] = Bad /\ super'[0] \in {FirstSuper, Bad}
    BY <1>3, <2>1 DEF InitSuper, Slots
  <2> QED
    BY <2>2 DEF Unlinked, Slots, FirstSuper, Superblock
<1>4. CASE linked' = TRUE
  BY Zenon, <1>4 DEF Unlinked
<1>5. CASE PowerLoss
  <2>1. ~linked' => ~exists'
    BY Zenon, <1>5 DEF PowerLoss, IInv, TypeOK
  <2> QED
    BY Zenon, <2>1 DEF IInv, NoFile, Blank, Unlinked, Slots
<1>6. CASE WriteSuper
  <2>1. linked' = linked /\ linked
    BY Zenon, <1>6 DEF WriteSuper, IInv, Writer, Publishing, Saving
  <2> QED
    BY Zenon, <2>1 DEF Unlinked
<1>7. \/ super' = super /\ linked' = linked
      \/ OpenCreate \/ InitSuper \/ linked' = TRUE \/ PowerLoss \/ WriteSuper
  BY Zenon DEF Next, Open, OpenLock, InitSync, OpenExisting, Settle, OpenReady, Staging, Stage,
         PutCache, Save, BeginSave, EmitCache, AppendJournal, DataSync, LockCommit,
         SuperSync, Finish, SaveFails, Inspect, ReadFirst, ReadSecond, ReaderStops, Stop,
         fileVars, vars
<1> QED
  BY Zenon, <1>1, <1>2, <1>3, <1>4, <1>5, <1>6, <1>7

(* The steps of the store as seen from the superblocks. *)
LEMMA StepsOnSupers ==
  ASSUME [Next]_vars
  PROVE  \/ /\ super' = super /\ disk' = disk
            /\ arena' = arena \/ Settle \/ \E x : arena' = Append(arena, x)
         \/ super' = super /\ disk' = super /\ arena' = arena
         \/ InitSuper \/ WriteSuper \/ PowerLoss
<1>1. CASE Open
  BY Zenon, <1>1 DEF Open, OpenLock, OpenCreate, InitSync, OpenExisting, OpenReady, Settle,
              fileVars
<1>2. CASE Staging
  BY Zenon, <1>2 DEF Staging, Stage, PutCache, Allocate
<1>3. CASE Save
  BY Zenon, <1>3 DEF Save, BeginSave, EmitCache, AppendJournal, DataSync, LockCommit,
              SuperSync, Finish, SaveFails, Emit, Allocate, fileVars
<1>4. CASE Inspect
  BY Zenon, <1>4 DEF Inspect, ReadFirst, ReadSecond, ReaderStops, fileVars
<1>5. CASE Stop
  BY Zenon, <1>5 DEF Stop, fileVars
<1>6. CASE UNCHANGED vars
  BY Zenon, <1>6 DEF vars, fileVars
<1> QED
  BY Zenon, <1>1, <1>2, <1>3, <1>4, <1>5, <1>6 DEF Next

(* Appending, and cutting off abandoned staging, show the same log. *)
LEMMA QuietStep ==
  ASSUME IInv, IInv', super' = super, disk' = disk,
         arena' = arena \/ Settle \/ \E x : arena' = Append(arena, x)
  PROVE  Visible' = Visible /\ Sure' = Sure
<1>0. /\ TypeOK /\ FileInv /\ arena \in Seq(Records) /\ safe \in Nat
      /\ Len(arena) \in Nat /\ safe <= Len(arena) /\ slot \in Slots /\ 1 - slot \in Slots
      /\ arena' \in Seq(Records)
  BY Zenon, FileTypes DEF IInv, TypeOK
<1> SUFFICES ASSUME NEW s \in Slots, super[s] # Bad
             PROVE  History(arena', super[s]) = History(arena, super[s])
  BY Zenon, SameViews
<1>1. Sound(arena, super[s]) /\ super[s].end <= safe /\ super[s].end \in Nat
  <2>1. Sound(arena, super[s]) /\ super[s].end <= safe
    BY Zenon, <1>0 DEF FileInv, Supers
  <2> QED
    BY <2>1, StoreAssumption DEF Sound, Superblocks, Refs
<1>2. CASE arena' = arena
  BY Zenon, <1>2
<1>3. CASE \E x : arena' = Append(arena, x)
  <2>1. Kept(arena, arena', super[s].end)
    BY <1>0, <1>1, <1>3 DEF Kept
  <2> QED
    BY <1>0, <1>1, <2>1, SoundStable
<1>4. CASE Settle
  <2>1. /\ committed # Bad /\ committed = super[slot] /\ ~poisoned
        /\ super[1 - slot] # Bad => Older(arena, super[1 - slot], committed)
        /\ arena' = SubSeq(arena, 1, committed.end)
    BY Zenon, <1>4 DEF Settle, IInv, Writer
  <2>2. committed.end \in Nat /\ committed.end <= safe
    <3>1. Sound(arena, committed) /\ committed.end <= safe
      BY Zenon, <1>0, <2>1 DEF FileInv, Supers
    <3> QED
      BY <3>1, StoreAssumption DEF Sound, Superblocks, Refs
  <2>3. super[s].end <= committed.end
    BY <1>0, <1>1, <2>1, <2>2 DEF Slots, Older
  <2>4. Kept(arena, arena', super[s].end)
    BY <1>0, <1>1, <2>1, <2>2, <2>3, CutOff DEF Kept
  <2> QED
    BY <1>0, <1>1, <2>4, SoundStable
<1> QED
  BY Zenon, <1>2, <1>3, <1>4

(* A synchronisation settles the entry in doubt. *)
LEMMA SyncConfirms ==
  ASSUME IInv, IInv', super' = super, disk' = super, arena' = arena
  PROVE  Visible' = Visible /\ Sure' = Visible
<1>1. OnDisk(0)' = super[0] /\ OnDisk(1)' = super[1]
  BY Zenon DEF OnDisk
<1> QED
  BY Zenon, <1>1, ViewsBefore, ViewsAfter

(* A new store has no history. *)
LEMMA FirstIsEmpty ==
  ASSUME IInv, IInv', InitSuper
  PROVE  Visible' = Visible /\ Sure' = Sure
<1>1. /\ super[0] = Bad /\ super[1] = Bad /\ disk = [s \in Slots |-> Bad]
      /\ super \in [Slots -> Superblocks \cup {Bad}]
  BY Zenon, FileTypes DEF InitSuper, IInv, NoFile, Blank
<1>2. /\ super'[1] = Bad /\ super'[0] \in {FirstSuper, Bad} /\ disk' = disk
      /\ arena' = arena
  BY <1>1 DEF InitSuper, Slots
<1>3. /\ OnDisk(0) = Bad /\ OnDisk(1) = Bad /\ OnDisk(1)' = Bad
      /\ OnDisk(0)' \in {FirstSuper, Bad}
  BY Zenon, <1>1, <1>2 DEF OnDisk, Slots
<1>4. \A x \in {FirstSuper, Bad} : Newer(x, Bad) = x /\ History(arena, x) = <<>>
  BY DEF Newer, History, EntriesAt, FirstSuper, Superblock
<1> QED
  BY Zenon, <1>1, <1>2, <1>3, <1>4, ViewsBefore, ViewsAfter

(* Writing the superblock is the moment a new root becomes visible.  A torn *)
(* or failed write shows the log as it was.                                 *)
LEMMA WritePublishes ==
  ASSUME IInv, IInv', WriteSuper
  PROVE  \/ Visible' = Visible /\ Sure' = Sure
         \/ \E h \in Hashes : Log!Publish(h)
<1> DEFINE t == 1 - slot
<1>0. /\ pc = "publish" /\ pc \in Publishing /\ pc \in Working
      /\ disk' = disk /\ arena' = arena
  BY Zenon DEF WriteSuper, Publishing, Saving, Working
<1>1. /\ slot \in Slots /\ t \in Slots /\ t # slot
      /\ super \in [Slots -> Superblocks \cup {Bad}]
      /\ (slot = 0 /\ t = 1) \/ (slot = 1 /\ t = 0)
  BY FileTypes DEF IInv, Slots
<1>2. /\ super'[slot] = super[slot]
      /\ super' = super \/ super'[t] \in {candidate, Bad}
  BY Zenon, <1>1 DEF WriteSuper
<1>3. /\ super = disk
      /\ super[t] # Bad => Older(arena, super[t], committed)
  BY Zenon, <1>0 DEF IInv, Writer
<1>4. /\ arena \in Seq(Records) /\ committed = super[slot] /\ committed # Bad
      /\ Sound(arena, committed) /\ Sound(arena, candidate) /\ candidate # Bad
      /\ Older(arena, committed, candidate)
      /\ super[t] # Bad => Sound(arena, super[t])
      /\ candidate.root_hash \in DOMAIN objects.map
      /\ Indexed(arena, objects.map, Len(arena), nextId)
  BY Zenon, <1>0, <1>1, PublishingFacts, WorkingFacts DEF IInv, FileInv, Supers
<1> HIDE DEF t
<1>5. /\ committed.generation \in Nat /\ candidate.generation \in Nat
      /\ super[t] # Bad => super[t].generation \in Nat
      /\ committed.generation < candidate.generation
      /\ super[t] # Bad => super[t].generation < committed.generation
  BY Zenon, <1>3, <1>4 DEF Sound, Superblocks, Older
<1>6. Newer(super[0], super[1]) = committed
  <2>1. CASE slot = 0 /\ t = 1
    BY <1>4, <1>5, <2>1 DEF Newer
  <2>2. CASE slot = 1 /\ t = 0
    BY Zenon, <1>4, <1>5, <2>2 DEF Newer
  <2> QED
    BY Zenon, <1>1, <2>1, <2>2
<1>7. OnDisk(0) = super[0] /\ OnDisk(1) = super[1]
  BY Zenon, <1>3 DEF OnDisk
<1>8. Visible = History(arena, committed) /\ Sure = Visible
  BY Zenon, <1>6, <1>7, ViewsBefore
<1>9. CASE super' = super
  BY Zenon, <1>0, <1>9, SameViews
<1>10. CASE super'[t] = Bad
  <2>1. /\ slot = 0 => OnDisk(0)' = committed /\ OnDisk(1)' = Bad
        /\ slot = 1 => OnDisk(1)' = committed /\ OnDisk(0)' = Bad
    BY Zenon, <1>0, <1>1, <1>2, <1>3, <1>4, <1>10 DEF OnDisk
  <2>2. /\ Newer(super'[0], super'[1]) = committed
        /\ Newer(OnDisk(0)', OnDisk(1)') = committed
    BY Zenon, <1>1, <1>2, <1>4, <1>10, <2>1 DEF Newer
  <2> QED
    BY Zenon, <1>0, <1>8, <2>2, ViewsAfter
<1>11. CASE super'[t] = candidate
  <2>1. super[t] # candidate
    <3> SUFFICES ASSUME super[t] = candidate
                 PROVE  FALSE
      BY Zenon
    <3>1. candidate.generation < committed.generation
      BY Zenon, <1>4, <1>5
    <3> QED
      BY <1>5, <3>1
  <2>2. /\ slot = 0 => OnDisk(0)' = committed /\ OnDisk(1)' = Bad
        /\ slot = 1 => OnDisk(1)' = committed /\ OnDisk(0)' = Bad
    BY Zenon, <1>0, <1>1, <1>2, <1>3, <1>4, <1>11, <2>1 DEF OnDisk
  <2>3. /\ Newer(super'[0], super'[1]) = candidate
        /\ Newer(OnDisk(0)', OnDisk(1)') = committed
    <3>1. CASE slot = 0 /\ t = 1
      BY Zenon, <1>2, <1>4, <1>5, <1>11, <2>2, <3>1 DEF Newer
    <3>2. CASE slot = 1 /\ t = 0
      BY <1>2, <1>4, <1>5, <1>11, <2>2, <3>2 DEF Newer
    <3> QED
      BY Zenon, <1>1, <3>1, <3>2
  <2>4. Visible' = History(arena, candidate) /\ Sure' = Sure
    BY Zenon, <1>0, <1>8, <2>3, ViewsAfter
  <2>5. CASE History(arena, candidate) = History(arena, committed)
    BY Zenon, <1>8, <2>4, <2>5
  <2>6. CASE Continues(arena, committed, candidate)
    <3>1. candidate.root_hash \in Hashes
      BY Zenon, <1>4, IndexedDomain
    <3>2. Visible # <<>> => Visible[Len(Visible)] # candidate.root_hash
      BY Zenon, <1>4, <1>8, <2>6, HistoryLength DEF Continues
    <3>3. Visible' = Append(Visible, candidate.root_hash)
      BY Zenon, <1>8, <2>4, <2>6 DEF Continues
    <3> QED
      BY Zenon, <1>8, <2>4, <3>1, <3>2, <3>3 DEF Log!Publish
  <2> QED
    BY Zenon, <1>0, <2>5, <2>6 DEF IInv, Candidate, Publishing
<1> QED
  BY Zenon, <1>2, <1>9, <1>10, <1>11

(* A loss of power keeps the entry in doubt or drops it. *)
LEMMA PowerLossLoses ==
  ASSUME IInv, IInv', Unlinked, PowerLoss
  PROVE  Log!Lose
<1>0. /\ TypeOK /\ FileInv /\ arena \in Seq(Records) /\ 0 \in Slots /\ 1 \in Slots
      /\ 1 - 0 = 1 /\ 1 - 1 = 0
  BY FileTypes DEF IInv, Slots
<1>1. ASSUME NEW a \in Survivors(0), NEW b \in Survivors(1), NEW size \in Nat,
             Remains(a, b, size)
      PROVE  Log!Lose
  <2>1. /\ super'[0] = a /\ super'[1] = b /\ arena' \in Seq(Records)
        /\ Kept(arena, arena', size)
    BY Zenon, <1>1, FileSurvives
  <2>2. /\ a # Bad => Sound(arena, a) /\ a.generation \in Nat
        /\ b # Bad => Sound(arena, b) /\ b.generation \in Nat
        /\ super[0] = disk[0] => a = super[0]
        /\ super[1] = disk[1] => b = super[1]
    BY Zenon, <1>0, SurvivorsOrdered DEF Sound, Superblocks
  <2>3. OnDisk(0)' = a /\ OnDisk(1)' = b
    BY Zenon, <1>1, <2>1 DEF OnDisk, Remains
  <2>4. Visible' = History(arena', Newer(a, b)) /\ Sure' = Visible'
    BY Zenon, <2>1, <2>3, ViewsAfter
  <2>5. History(arena', Newer(a, b)) = History(arena, Newer(a, b))
    <3>1. ASSUME NEW x, x # Bad => Sound(arena, x) /\ x.end <= size
          PROVE  History(arena', x) = History(arena, x)
      BY Zenon, <1>0, <2>1, <3>1, SoundStable DEF History
    <3>2. Newer(a, b) = a \/ Newer(a, b) = b
      BY Zenon DEF Newer
    <3> QED
      BY Zenon, <1>1, <2>2, <3>1, <3>2 DEF Remains
  <2>6. Newer(a, b) \in {Newer(super[0], super[1]), Newer(OnDisk(0), OnDisk(1))}
    <3>1. a \in {super[0], disk[0], Bad} /\ b \in {super[1], disk[1], Bad}
      BY Zenon DEF Survivors
    <3>2. CASE super[0] = disk[0] /\ super[1] = disk[1]
      BY Zenon, <2>2, <3>2
    <3>3. CASE super[0] # disk[0]
      <4>1. /\ super[1] = disk[1] /\ OnDisk(0) = Bad /\ OnDisk(1) = super[1]
            /\ disk[0] # Bad => super[1] # Bad /\ Older(arena, disk[0], super[1])
        BY Zenon, <1>0, <3>3 DEF FileInv, OneInDoubt, OnDisk
      <4>2. b = super[1]
        BY Zenon, <2>2, <4>1
      <4>3. a # super[0] => Newer(a, b) = Newer(Bad, super[1])
        BY Zenon, <2>2, <3>1, <4>1, <4>2 DEF Newer, Older
      <4> QED
        BY Zenon, <4>1, <4>2, <4>3
    <3>4. CASE super[1] # disk[1]
      <4>1. /\ super[0] = disk[0] /\ OnDisk(1) = Bad /\ OnDisk(0) = super[0]
            /\ disk[1] # Bad => super[0] # Bad /\ Older(arena, disk[1], super[0])
        BY Zenon, <1>0, <3>4 DEF FileInv, OneInDoubt, OnDisk
      <4>2. a = super[0]
        BY Zenon, <2>2, <4>1
      <4>3. b # super[1] => Newer(a, b) = Newer(super[0], Bad)
        BY <2>2, <3>1, <4>1, <4>2 DEF Newer, Older
      <4> QED
        BY Zenon, <4>1, <4>2, <4>3
    <3> QED
      BY Zenon, <3>2, <3>3, <3>4
  <2> QED
    BY Zenon, <2>4, <2>5, <2>6, ViewsBefore DEF Log!Lose
<1>2. ASSUME ~linked, super' = [s \in Slots |-> Bad], disk' = super'
      PROVE  Log!Lose
  <2>1. super'[0] = Bad /\ super'[1] = Bad
    BY Zenon, <1>2 DEF Slots
  <2>2. OnDisk(0)' = Bad /\ OnDisk(1)' = Bad
    BY Zenon, <1>2, <2>1 DEF OnDisk
  <2>3. Visible' = <<>> /\ Sure' = <<>>
    BY Zenon, <2>1, <2>2, ViewsAfter DEF Newer, History
  <2>4. \A x \in {super[0], super[1], Bad} : History(arena, x) = <<>>
    BY Zenon, <1>0, <1>2 DEF Unlinked, History, EntriesAt
  <2>5. Visible = <<>>
    BY Zenon, <2>4, ViewsBefore DEF Newer
  <2> QED
    BY Zenon, <2>3, <2>5 DEF Log!Lose
<1> QED
  BY Zenon, <1>1, <1>2, PowerLossLeaves DEF Vanished

(* The native arena is a log of saved roots that only grows, of which at    *)
(* most the entry being saved is in doubt: every step of the writer, the    *)
(* inspectors and the machine is a step of NativeLog or changes nothing.    *)
THEOREM ArenaImplementsLog == Spec => ImplementsLog
<1>1. Init => Log!LogInit
  BY Zenon DEF Init, Log!LogInit, Visible, Found, Sure, History
<1>2. ASSUME IInv, IInv', Unlinked, [Next]_vars
      PROVE  [Log!LogNext]_(Log!logVars)
  <2>1. CASE super' = super /\ disk' = disk
             /\ (arena' = arena \/ Settle \/ \E x : arena' = Append(arena, x))
    BY Zenon, <1>2, <2>1, QuietStep DEF Log!logVars
  <2>2. CASE super' = super /\ disk' = super /\ arena' = arena
    BY Zenon, <1>2, <2>2, SyncConfirms DEF Log!LogNext, Log!Confirm
  <2>3. CASE InitSuper
    BY Zenon, <1>2, <2>3, FirstIsEmpty DEF Log!logVars
  <2>4. CASE WriteSuper
    BY Zenon, <1>2, <2>4, WritePublishes DEF Log!logVars, Log!LogNext
  <2>5. CASE PowerLoss
    BY Zenon, <1>2, <2>5, PowerLossLoses DEF Log!LogNext
  <2> QED
    BY Zenon, <1>2, <2>1, <2>2, <2>3, <2>4, <2>5, StepsOnSupers
<1>3. Init => Unlinked
  BY Zenon DEF Init, Unlinked
<1>4. IInv /\ IInv' /\ Unlinked /\ [Next]_vars => Unlinked'
  BY Zenon, UnlinkedStep
<1>5. IInv /\ IInv' /\ Unlinked /\ [Next]_vars => [Log!LogNext]_(Log!logVars)
  BY Zenon, <1>2
<1> QED
  BY <1>1, <1>3, <1>4, <1>5, StoreInvariant, PTL DEF Spec, ImplementsLog, Log!LogSpec


--------------------------------------------------------------------------------
(* pl_store_verify.  What a scrub finds is kept by every step that leaves    *)
(* the records of the checkpoint alone.                                      *)

(* Whatever the scrub of the first n records reads is the same in an arena   *)
(* that keeps them.                                                          *)
LEMMA ReadsKept ==
  ASSUME NEW a, NEW b \in Seq(Records), NEW end \in Nat, Kept(a, b, end),
         NEW off, NEW type, IsRecord(a, off, end, type)
  PROVE  off \in 1..end /\ IsRecord(b, off, end, type) /\ b[off] = a[off]
<1>1. off \in 1..end /\ a[off].type = type
  BY Zenon DEF IsRecord
<1>2. b[off] = a[off]
  BY Zenon, <1>1 DEF Kept
<1>3. Len(b) \in Nat /\ end <= Len(b)
  BY DEF Kept
<1>4. off <= Len(b)
  BY <1>1, <1>3
<1> QED
  BY Zenon, <1>1, <1>2, <1>4 DEF IsRecord

(* The first end records of a are among the first more of b, and the         *)
(* identifiers below ids among those below next.                             *)
Carries(a, b, end, more, ids, next) ==
  /\ b \in Seq(Records) /\ end \in Nat /\ Kept(a, b, end)
  /\ more \in Nat /\ end <= more /\ more <= Len(b)
  /\ ids \in Nat /\ next \in Nat /\ ids <= next

(* The index new has what map has. *)
Within(map, new) ==
  DOMAIN map \subseteq DOMAIN new /\ \A h \in DOMAIN map : new[h] = map[h]

(* More records, and more identifiers, do not disturb what was verified.     *)
LEMMA PinKept ==
  ASSUME NEW a, NEW b, NEW end, NEW more, NEW ids, NEW next,
         Carries(a, b, end, more, ids, next),
         NEW off, IsPin(a, off, end, ids)
  PROVE  IsPin(b, off, more, next)
<1>1. /\ off \in 1..end /\ IsRecord(b, off, end, "object") /\ b[off] = a[off]
      /\ a[off].id \in 1..ids - 1
  BY Zenon, ReadsKept DEF IsPin, Carries
<1>2. off \in 1..more /\ off <= Len(b) /\ b[off].id \in 1..next - 1
  BY <1>1 DEF Carries
<1> QED
  BY Zenon, <1>1, <1>2 DEF IsPin, IsRecord

(* ... neither what nverify_object found *)
LEMMA ObjectKept ==
  ASSUME NEW a, NEW b, NEW end, NEW more, NEW ids, NEW next,
         Carries(a, b, end, more, ids, next),
         NEW map, NEW new, Within(map, new),
         NEW h \in DOMAIN map, ObjectVerifies(a, end, ids, map, h)
  PROVE  ObjectVerifies(b, more, next, new, h)
<1>1. /\ IsPin(a, map[h], end, ids) /\ a[map[h]].hash = h /\ new[h] = map[h]
      /\ {a[s].hash : s \in a[map[h]].subs} = Deps[h]
      /\ \A s \in a[map[h]].subs :
           /\ s < map[h] /\ IsPin(a, s, end, ids)
           /\ a[s].hash \in DOMAIN map /\ map[a[s].hash] = s
  BY Zenon DEF ObjectVerifies, Within
<1>2. ASSUME NEW off, IsPin(a, off, end, ids)
      PROVE  IsPin(b, off, more, next) /\ b[off] = a[off]
  <2>1. IsPin(b, off, more, next)
    BY Zenon, <1>2, PinKept
  <2>2. off \in 1..end
    BY Zenon, <1>2 DEF IsPin, IsRecord
  <2> QED
    BY Zenon, <2>1, <2>2 DEF Carries, Kept
<1>3. /\ IsPin(b, new[h], more, next) /\ b[new[h]].hash = h
      /\ b[new[h]].subs = a[map[h]].subs
  <2>1. IsPin(b, map[h], more, next) /\ b[map[h]] = a[map[h]]
    BY Zenon, <1>1, <1>2
  <2> QED
    BY <1>1, <2>1
<1>4. \A s \in a[map[h]].subs : b[s] = a[s] /\ IsPin(b, s, more, next)
  BY Zenon, <1>1, <1>2
<1>5. {b[s].hash : s \in b[new[h]].subs} = Deps[h]
  BY <1>1, <1>3, <1>4
<1>6. \A s \in b[new[h]].subs :
           /\ s < new[h] /\ IsPin(b, s, more, next)
           /\ b[s].hash \in DOMAIN new /\ new[b[s].hash] = s
  BY Zenon, <1>1, <1>3, <1>4 DEF Within
<1> QED
  BY Zenon, <1>3, <1>5, <1>6 DEF ObjectVerifies

(* ... nor what nverify_cache did. *)
LEMMA RowKept ==
  ASSUME NEW a, NEW b, NEW end, NEW more, NEW ids, NEW next,
         Carries(a, b, end, more, ids, next),
         NEW map, NEW new, Within(map, new),
         NEW off, RowVerifies(a, end, map, off)
  PROVE  RowVerifies(b, more, new, off)
<1>1. /\ off \in 1..end /\ IsRecord(b, off, end, "cache") /\ b[off] = a[off]
      /\ a[off].hash \in DOMAIN map
  BY Zenon, ReadsKept DEF RowVerifies, Carries
<1>2. off \in 1..more /\ off <= Len(b)
  BY <1>1 DEF Carries
<1> QED
  BY Zenon, <1>1, <1>2 DEF RowVerifies, IsRecord, Within

(* The journal, too: what each of its entries names is indexed.              *)
LEMMA ChainKept ==
  ASSUME NEW a, NEW b, NEW end, NEW more, NEW ids, NEW next,
         Carries(a, b, end, more, ids, next),
         NEW map, NEW new, Within(map, new),
         \A h \in DOMAIN map : ObjectVerifies(a, end, ids, map, h),
         NEW journal, NEW n \in Nat, ChainVerifies(a, end, ids, map, journal, n)
  PROVE  ChainVerifies(b, more, next, new, journal, n)
<1>1. PICK trail \in [1..n -> 1..end] :
        /\ journal = (IF n = 0 THEN 0 ELSE trail[n])
        /\ \A i \in 1..n : EntryVerifies(a, end, ids, map, trail, n, i)
  BY Zenon DEF ChainVerifies
<1>2. \A i \in 1..n : trail[i] \in 1..end /\ b[trail[i]] = a[trail[i]]
  BY Zenon DEF Kept, Carries
<1>0. end \in Nat /\ more \in Nat /\ end <= more
  BY Zenon DEF Carries
<1>3. trail \in [1..n -> 1..more]
  <2>1. \A i \in 1..n : trail[i] \in 1..more
    BY <1>0, <1>2
  <2> QED
    BY Zenon, <2>1
<1>4. ASSUME NEW i \in 1..n
      PROVE  EntryVerifies(b, more, next, new, trail, n, i)
  <2> DEFINE j == a[trail[i]]
             later == IF i = n THEN end ELSE a[trail[i + 1]].end
             late == IF i = n THEN more ELSE b[trail[i + 1]].end
  <2>1. /\ IsRecord(a, trail[i], end, "journal")
        /\ Len(j.entries) = i /\ j.end \in trail[i]..later
        /\ j.previous < trail[i] /\ j.previous = (IF i = 1 THEN 0 ELSE trail[i - 1])
        /\ j.entries[i] \in DOMAIN map /\ j.root = map[j.entries[i]]
        /\ IsPin(a, j.root, j.end, ids)
        /\ j.entries[i] = a[trail[n]].entries[i]
    BY Zenon, <1>1 DEF EntryVerifies
  <2>2. b[trail[i]] = j /\ trail[i] \in 1..end
    BY Zenon, <1>2
  <2>3. b[trail[n]] = a[trail[n]]
    <3>1. n \in 1..n
      OBVIOUS
    <3> QED
      BY Zenon, <1>2, <3>1
  <2>4. i # n => b[trail[i + 1]] = a[trail[i + 1]]
    <3>1. i # n => i + 1 \in 1..n
      OBVIOUS
    <3> QED
      BY Zenon, <1>2, <3>1
  <2>5. IsRecord(b, trail[i], more, "journal")
    <3>1. IsRecord(b, trail[i], end, "journal")
      BY Zenon, <2>1, ReadsKept DEF Carries
    <3> QED
      BY <1>0, <2>2, <3>1 DEF IsRecord
  <2>6. j.end \in trail[i]..late
    <3>1. CASE i = n
      <4>1. \A k, m : k \in m..end => k \in m..more \/ m \notin 1..end
        BY <1>0
      <4>2. late = more /\ later = end
        BY Zenon, <3>1
      <4> HIDE DEF j, later, late
      <4> QED BY Zenon, <2>1, <2>2, <4>1, <4>2
    <3>2. CASE i # n
      <4>1. late = later
        BY Zenon, <2>4, <3>2
      <4> HIDE DEF j, later, late
      <4> QED BY Zenon, <2>1, <4>1
    <3> QED
      BY Zenon, <3>1, <3>2
  <2>7. IsPin(b, j.root, j.end, next)
    <3>1. IsPin(a, j.root, end, ids)
      BY Zenon, <2>1 DEF ObjectVerifies
    <3>2. IsPin(b, j.root, more, next)
      <4> HIDE DEF j, later, late
      <4> QED
        BY Zenon, <3>1, PinKept
    <3>3. j.root \in 1..j.end
      BY Zenon, <2>1 DEF IsPin, IsRecord
    <3> QED
      BY Zenon, <3>2, <3>3 DEF IsPin, IsRecord
  <2>8. j.entries[i] \in DOMAIN new /\ new[j.entries[i]] = map[j.entries[i]]
    BY Zenon, <2>1 DEF Within
  <2> HIDE DEF j
  <2>9. /\ IsRecord(b, trail[i], more, "journal")
        /\ Len(j.entries) = i /\ j.end \in trail[i]..late
        /\ j.previous < trail[i] /\ j.previous = (IF i = 1 THEN 0 ELSE trail[i - 1])
        /\ j.entries[i] \in DOMAIN new /\ j.root = new[j.entries[i]]
        /\ IsPin(b, j.root, j.end, next)
        /\ j.entries[i] = b[trail[n]].entries[i]
    BY Zenon, <2>1, <2>3, <2>5, <2>6, <2>7, <2>8
  <2> QED
    BY Zenon, <2>2, <2>9 DEF EntryVerifies
<1> QED
  BY Zenon, <1>1, <1>3, <1>4 DEF ChainVerifies

(* The numbers in a superblock. *)
LEMMA Numbers ==
  ASSUME NEW a, NEW sb, Sound(a, sb)
  PROVE  /\ sb.end \in Nat /\ sb.end <= Len(a)
         /\ sb.next_id \in Nat /\ sb.sequence \in Nat
<1>1. sb \in Superblocks /\ sb.end <= Len(a)
  BY Zenon DEF Sound, Valid
<1>2. sb.end \in Refs /\ sb.next_id \in Nat /\ sb.sequence \in Nat
  BY ONLY <1>1 DEF Superblocks
<1>3. \A k \in Refs : k \in Nat
  BY DEF Refs
<1> QED BY Zenon, <1>1, <1>2, <1>3

(* A scrub comes out the same while the checkpoint's records are kept.       *)
LEMMA ScrubKept ==
  ASSUME NEW a, NEW b \in Seq(Records), NEW end \in Nat, Kept(a, b, end),
         NEW ids \in Nat, NEW map, NEW rows, NEW journal, NEW n \in Nat,
         Scrub(a, end, ids, map, rows, journal, n)
  PROVE  Scrub(b, end, ids, map, rows, journal, n)
<1>0. Carries(a, b, end, end, ids, ids) /\ Within(map, map)
  BY DEF Kept, Carries, Within
<1>1. RecordsIntact(b, end, ids)
  <2>1. \A i \in 1..end : b[i] = a[i]
    BY Zenon DEF Kept
  <2> QED
    BY Zenon, <2>1 DEF Scrub, RecordsIntact
<1>2. \A h \in DOMAIN map : ObjectVerifies(b, end, ids, map, h)
  BY Zenon, <1>0, ObjectKept DEF Scrub
<1>3. \A k \in DOMAIN rows : RowVerifies(b, end, map, rows[k])
  BY Zenon, <1>0, RowKept DEF Scrub
<1>4. ChainVerifies(b, end, ids, map, journal, n)
  BY Zenon, <1>0, ChainKept DEF Scrub
<1> QED
  BY Zenon, <1>1, <1>2, <1>3, <1>4 DEF Scrub

(* An object takes the next identifier. *)
Numbered(x, ids, next) ==
  /\ x.type # "junk" /\ ids <= next
  /\ x.type = "object" => x.id = ids /\ ids < next /\ ids # 0

(* The indexes new and more name, besides what map and rows do, objects and  *)
(* rows that verify in b.                                                    *)
ObjectsGrow(b, next, map, new) ==
  /\ Within(map, new)
  /\ \A h \in DOMAIN new \ DOMAIN map : ObjectVerifies(b, Len(b), next, new, h)

RowsGrow(b, new, rows, more) ==
  \A k \in DOMAIN more : \/ k \in DOMAIN rows /\ more[k] = rows[k]
                         \/ RowVerifies(b, Len(b), new, more[k])

(* A number and the next. *)
LEMMA Successor ==
  \A n \in Nat : /\ n + 1 \in Nat /\ n <= n + 1 /\ n + 1 \in 1..n + 1
                 /\ n # 0 => n \in 1..(n + 1) - 1
                 /\ \A i \in 1..n : i # n + 1 /\ i \in 1..n + 1
OBVIOUS

(* The sequence b is a with x at its end. *)
Longer(a, x, b) ==
  /\ b \in Seq(Records) /\ Len(a) \in Nat /\ Len(b) \in Nat
  /\ Len(b) = Len(a) + 1 /\ Len(a) <= Len(b) /\ Len(b) <= Len(b)
  /\ b[Len(b)] = x /\ \A i \in 1..Len(a) : b[i] = a[i]
  /\ Len(b) \in 1..Len(b) /\ \A i \in 1..Len(a) : i < Len(b)

(* Appending makes it so. *)
LEMMA Lengthened ==
  ASSUME NEW a \in Seq(Records), NEW x \in Records, NEW b, b = Append(a, x)
  PROVE  Longer(a, x, b)
BY DEF Longer

(* A record is appended, and with it at most the objects and rows that the   *)
(* indexes then name.                                                        *)
LEMMA ScrubAppend ==
  ASSUME NEW a \in Seq(Records), NEW x \in Records, NEW ids \in Nat, NEW next \in Nat,
         Numbered(x, ids, next),
         NEW map, NEW rows, NEW journal, NEW n \in Nat,
         Scrub(a, Len(a), ids, map, rows, journal, n),
         NEW b, b = Append(a, x),
         NEW new, ObjectsGrow(b, next, map, new),
         NEW more, RowsGrow(b, new, rows, more)
  PROVE  Scrub(b, Len(b), next, new, more, journal, n)
<1> USE DEF Numbered
<1>0. /\ b \in Seq(Records) /\ Len(a) \in Nat /\ Len(b) \in Nat
      /\ Len(b) = Len(a) + 1 /\ Len(a) <= Len(b) /\ Len(b) <= Len(b)
      /\ b[Len(b)] = x /\ \A i \in 1..Len(a) : b[i] = a[i]
  <2>1. Longer(a, x, b)
    BY Zenon, Lengthened
  <2> QED BY Zenon, <2>1 DEF Longer
<1>1. Carries(a, b, Len(a), Len(b), ids, next) /\ Within(map, new)
  BY Zenon, <1>0 DEF Kept, Carries, ObjectsGrow
<1>2. \A i \in 1..Len(b) : i \in 1..Len(a) \/ i = Len(b)
  BY <1>0
<1>3. RecordsIntact(b, Len(b), next)
  <2>1. /\ \A i \in 1..Len(a) : a[i].type # "junk"
        /\ \A i \in 1..Len(a) : a[i].type = "object" => a[i].id \in 1..ids - 1
        /\ \A i, j \in 1..Len(a) : /\ a[i].type = "object" /\ a[j].type = "object"
                                   /\ a[i].id = a[j].id
                                   => i = j
    BY Zenon DEF Scrub, RecordsIntact
  <2>2. \A i \in 1..Len(b) : b[i].type # "junk"
    BY Zenon, <1>0, <1>2, <2>1
  <2>3. \A i \in 1..Len(b) : b[i].type = "object" => b[i].id \in 1..next - 1
    <3>1. \A i \in 1..Len(a) : b[i].type = "object" => b[i].id \in 1..next - 1
      <4>1. \A k \in 1..ids - 1 : k \in 1..next - 1
        BY <1>1 DEF Carries
      <4> QED BY Zenon, <1>0, <2>1, <4>1
    <3>2. b[Len(b)].type = "object" => b[Len(b)].id \in 1..next - 1
      BY <1>0
    <3> QED
      BY Zenon, <1>2, <3>1, <3>2
  <2>4. \A i, j \in 1..Len(b) : /\ b[i].type = "object" /\ b[j].type = "object"
                                /\ b[i].id = b[j].id
                                => i = j
    <3>1. \A i \in 1..Len(a) : x.type = "object" /\ a[i].type = "object" => a[i].id # x.id
      BY <2>1
    <3> SUFFICES ASSUME NEW i \in 1..Len(b), NEW j \in 1..Len(b),
                        b[i].type = "object", b[j].type = "object", b[i].id = b[j].id
                 PROVE  i = j
      BY Zenon
    <3>2. CASE i \in 1..Len(a) /\ j \in 1..Len(a)
      <4>1. b[i] = a[i] /\ b[j] = a[j]
        BY Zenon, <1>0, <3>2
      <4> QED
        BY <2>1, <3>2, <4>1
    <3>3. CASE i \in 1..Len(a) /\ j = Len(b)
      <4>1. b[i] = a[i] /\ b[j] = x
        BY Zenon, <1>0, <3>3
      <4> QED
        BY <3>1, <3>3, <4>1
    <3>4. CASE j \in 1..Len(a) /\ i = Len(b)
      <4>1. b[j] = a[j] /\ b[i] = x
        BY Zenon, <1>0, <3>4
      <4> QED
        BY <3>1, <3>4, <4>1
    <3> QED
      BY Zenon, <1>2, <3>2, <3>3, <3>4
  <2> QED
    BY Zenon, <2>2, <2>3, <2>4 DEF RecordsIntact
<1>4. \A h \in DOMAIN map : ObjectVerifies(a, Len(a), ids, map, h)
  BY Zenon DEF Scrub
<1>5. \A h \in DOMAIN new : ObjectVerifies(b, Len(b), next, new, h)
  <2>1. ASSUME NEW h \in DOMAIN map
        PROVE  ObjectVerifies(b, Len(b), next, new, h)
    BY Zenon, <1>1, <1>4, ObjectKept
  <2> QED
    BY Zenon, <2>1 DEF ObjectsGrow
<1>6. \A k \in DOMAIN more : RowVerifies(b, Len(b), new, more[k])
  <2>1. ASSUME NEW k \in DOMAIN rows
        PROVE  RowVerifies(b, Len(b), new, rows[k])
    <3>1. RowVerifies(a, Len(a), map, rows[k])
      BY Zenon DEF Scrub
    <3> QED
      BY Zenon, <1>1, <3>1, RowKept
  <2> QED
    BY Zenon, <2>1 DEF RowsGrow
<1>7. ChainVerifies(b, Len(b), next, new, journal, n)
  <2>1. ChainVerifies(a, Len(a), ids, map, journal, n)
    BY Zenon DEF Scrub
  <2> QED
    BY Zenon, <1>1, <1>4, <2>1, ChainKept
<1> QED
  BY Zenon, <1>3, <1>5, <1>6, <1>7 DEF Scrub

(* Any other record leaves the indexes and the journal as they were.         *)
LEMMA ScrubOther ==
  ASSUME NEW a \in Seq(Records), NEW x \in Records, x.type # "junk", x.type # "object",
         NEW ids \in Nat, NEW map, NEW rows, NEW journal, NEW n \in Nat,
         Scrub(a, Len(a), ids, map, rows, journal, n),
         NEW b, b = Append(a, x)
  PROVE  Scrub(b, Len(b), ids, map, rows, journal, n)
<1>1. Numbered(x, ids, ids)
  BY DEF Numbered
<1>2. ObjectsGrow(b, ids, map, map) /\ RowsGrow(b, map, rows, rows)
  BY Zenon DEF ObjectsGrow, RowsGrow, Within
<1> QED
  BY Zenon, <1>1, <1>2, ScrubAppend

(* A journal record that names its predecessor and an indexed root makes     *)
(* the chain one entry longer.                                               *)
LEMMA ScrubJournal ==
  ASSUME NEW a \in Seq(Records), NEW ids \in Nat, NEW map, NEW rows,
         NEW journal, NEW n \in Nat,
         Scrub(a, Len(a), ids, map, rows, journal, n),
         NEW entries \in Seq(Hashes), entries = EntriesAt(a, journal),
         NEW h \in DOMAIN map,
         NEW x \in Records,
         x = Journal(journal, Append(entries, h), map[h], Len(a) + 1),
         h \in Hashes, NEW b, b = Append(a, x)
  PROVE  Scrub(b, Len(b), ids, map, rows, Len(b), n + 1)
<1>0. /\ b \in Seq(Records) /\ Len(a) \in Nat /\ Len(b) \in Nat
      /\ Len(b) = Len(a) + 1 /\ Len(a) <= Len(b) /\ Len(b) \in 1..Len(b)
      /\ b[Len(b)] = x /\ \A i \in 1..Len(a) : b[i] = a[i]
  <2>1. Longer(a, x, b)
    BY Zenon, Lengthened
  <2> QED BY Zenon, <2>1 DEF Longer
<1>1. /\ x.type = "journal" /\ x.previous = journal /\ x.entries = Append(entries, h)
      /\ x.root = map[h] /\ x.end = Len(b)
  BY Zenon, <1>0 DEF Journal
<1>2. Scrub(b, Len(b), ids, map, rows, journal, n)
  <2>1. x.type # "junk" /\ x.type # "object"
    BY <1>1
  <2> QED
    BY Zenon, <2>1, ScrubOther
<1>3. PICK trail \in [1..n -> 1..Len(a)] :
        /\ journal = (IF n = 0 THEN 0 ELSE trail[n])
        /\ \A i \in 1..n : EntryVerifies(a, Len(a), ids, map, trail, n, i)
  BY Zenon DEF Scrub, ChainVerifies
<1>4. /\ \A i \in 1..n : trail[i] \in 1..Len(a) /\ b[trail[i]] = a[trail[i]]
      /\ n # 0 => n \in 1..n
      /\ \A i \in 1..n + 1 : i \in 1..n \/ i = n + 1
  BY <1>0
<1>5. Len(entries) = n
  <2>1. CASE n = 0
    BY <1>3, <2>1 DEF EntriesAt
  <2>2. CASE n # 0
    <3>1. Len(a[trail[n]].entries) = n /\ journal = trail[n] /\ trail[n] \in 1..Len(a)
      BY Zenon, <1>3, <1>4, <2>2 DEF EntryVerifies
    <3>2. journal # 0
      BY <1>0, <3>1
    <3> QED
      BY Zenon, <3>1, <3>2 DEF EntriesAt
  <2> QED
    BY Zenon, <2>1, <2>2
<1>6. /\ Len(x.entries) = n + 1 /\ x.entries[n + 1] = h
      /\ \A i \in 1..n : x.entries[i] = entries[i]
  <2> DEFINE longer == Append(entries, h)
  <2>1. /\ Len(longer) = n + 1 /\ longer[n + 1] = h
        /\ \A i \in 1..n : longer[i] = entries[i]
    BY <1>5
  <2> HIDE DEF longer
  <2>2. x.entries = longer
    BY Zenon, <1>1 DEF longer
  <2> QED
    BY Zenon, <2>1, <2>2
<1>7. n # 0 => entries = a[trail[n]].entries /\ journal = trail[n]
  <2>1. n # 0 => journal = trail[n] /\ trail[n] # 0
    BY <1>0, <1>3, <1>4
  <2> QED
    BY Zenon, <2>1 DEF EntriesAt
<1> DEFINE path == [i \in 1..n + 1 |-> IF i = n + 1 THEN Len(b) ELSE trail[i]]
<1>8. /\ path \in [1..n + 1 -> 1..Len(b)] /\ path[n + 1] = Len(b)
      /\ \A i \in 1..n : path[i] = trail[i]
  <2>1. /\ n + 1 \in 1..n + 1 /\ Len(b) \in 1..Len(b)
        /\ \A i \in 1..n : i # n + 1 /\ i \in 1..n + 1
    BY Zenon, <1>0, Successor
  <2>2. \A k \in 1..Len(a) : k \in 1..Len(b)
    BY <1>0
  <2>3. \A i \in 1..n + 1 : (IF i = n + 1 THEN Len(b) ELSE trail[i]) \in 1..Len(b)
    BY Zenon, <1>4, <2>1, <2>2
  <2> QED BY Zenon, <2>1, <2>3
<1>9. \A k \in DOMAIN map : IsPin(b, map[k], Len(b), ids)
  BY Zenon, <1>2 DEF Scrub, ObjectVerifies
<1> HIDE DEF path
<1>10. EntryVerifies(b, Len(b), ids, map, path, n + 1, n + 1)
  <2>1. IsRecord(b, Len(b), Len(b), "journal") /\ x.end \in Len(b)..Len(b)
    BY <1>0, <1>1 DEF IsRecord
  <2>2. x.previous < Len(b) /\ x.previous = (IF n + 1 = 1 THEN 0 ELSE path[n])
    <3>1. \A k \in 1..Len(a) : k < Len(b)
      BY <1>0
    <3>2. 0 < Len(b) /\ (n + 1 = 1 <=> n = 0)
      BY <1>0
    <3> QED BY Zenon, <1>1, <1>3, <1>4, <1>8, <3>1, <3>2
  <2>3. IsPin(b, x.root, x.end, ids)
    BY Zenon, <1>1, <1>9
  <2>4. (n + 1) - 1 = n
    OBVIOUS
  <2> QED
    BY Zenon, <1>0, <1>1, <1>6, <1>8, <2>1, <2>2, <2>3, <2>4 DEF EntryVerifies
<1>11. ASSUME NEW i \in 1..n
       PROVE  EntryVerifies(b, Len(b), ids, map, path, n + 1, i)
  <2> DEFINE j == a[trail[i]]
             late == b[path[i + 1]].end
  <2>1. /\ IsRecord(a, trail[i], Len(a), "journal")
        /\ Len(j.entries) = i
        /\ j.end \in trail[i]..(IF i = n THEN Len(a) ELSE a[trail[i + 1]].end)
        /\ j.previous < trail[i] /\ j.previous = (IF i = 1 THEN 0 ELSE trail[i - 1])
        /\ j.entries[i] \in DOMAIN map /\ j.root = map[j.entries[i]]
        /\ IsPin(a, j.root, j.end, ids)
        /\ j.entries[i] = a[trail[n]].entries[i]
    BY Zenon, <1>3 DEF EntryVerifies
  <2>2. b[path[i]] = j /\ path[i] = trail[i] /\ trail[i] \in 1..Len(a) /\ i # n + 1
    <3>1. i # n + 1
      OBVIOUS
    <3> QED
      BY Zenon, <1>4, <1>8, <3>1
  <2>3. IsRecord(b, path[i], Len(b), "journal")
    <3>1. j.type = "journal"
      BY Zenon, <2>1 DEF IsRecord
    <3>2. path[i] \in 1..Len(b) /\ path[i] <= Len(b)
      <4>1. \A k \in 1..Len(a) : k \in 1..Len(b) /\ k <= Len(b)
        BY <1>0
      <4> QED BY Zenon, <2>2, <4>1
    <3> QED BY Zenon, <2>2, <3>1, <3>2 DEF IsRecord
  <2>4. j.end \in trail[i]..late
    <3>1. CASE i = n
      <4>1. late = Len(b)
        BY Zenon, <1>0, <1>1, <1>8, <3>1
      <4>2. j.end \in trail[i]..Len(a) /\ trail[i] \in 1..Len(a)
        BY Zenon, <2>1, <2>2, <3>1
      <4> HIDE DEF j, late
      <4> QED BY <1>0, <4>1, <4>2
    <3>2. CASE i # n
      <4>1. i + 1 \in 1..n
        BY <3>2
      <4>2. late = a[trail[i + 1]].end
        BY Zenon, <1>4, <1>8, <4>1
      <4> HIDE DEF j, late
      <4> QED
        BY Zenon, <2>1, <3>2, <4>2
    <3> QED
      BY Zenon, <3>1, <3>2
  <2>5. j.previous = (IF i = 1 THEN 0 ELSE path[i - 1])
    <3>1. i # 1 => i - 1 \in 1..n
      OBVIOUS
    <3> HIDE DEF j
    <3> QED
      BY Zenon, <1>8, <2>1, <3>1
  <2>6. IsPin(b, j.root, j.end, ids)
    <3>1. IsPin(b, j.root, Len(b), ids)
      BY Zenon, <1>9, <2>1
    <3>2. j.root \in 1..j.end
      BY Zenon, <2>1 DEF IsPin, IsRecord
    <3> QED
      BY Zenon, <3>1, <3>2 DEF IsPin, IsRecord
  <2>7. j.entries[i] = b[path[n + 1]].entries[i]
    <3>1. n # 0
      OBVIOUS
    <3>2. x.entries[i] = a[trail[n]].entries[i]
      BY Zenon, <1>6, <1>7, <3>1
    <3> QED
      BY Zenon, <1>0, <1>8, <2>1, <3>2
  <2> HIDE DEF j, late
  <2>8. /\ IsRecord(b, path[i], Len(b), "journal")
        /\ Len(j.entries) = i /\ j.end \in path[i]..late
        /\ j.previous < path[i] /\ j.previous = (IF i = 1 THEN 0 ELSE path[i - 1])
        /\ j.entries[i] \in DOMAIN map /\ j.root = map[j.entries[i]]
        /\ IsPin(b, j.root, j.end, ids)
        /\ j.entries[i] = b[path[n + 1]].entries[i]
    BY Zenon, <2>1, <2>2, <2>3, <2>4, <2>5, <2>6, <2>7
  <2>9. i # n + 1 /\ j = b[path[i]] /\ late = b[path[i + 1]].end
    BY Zenon, <2>2 DEF late
  <2> QED
    BY Zenon, <2>8, <2>9 DEF EntryVerifies
<1>12. ChainVerifies(b, Len(b), ids, map, Len(b), n + 1)
  <2>1. n + 1 # 0
    OBVIOUS
  <2>2. \A i \in 1..n + 1 : EntryVerifies(b, Len(b), ids, map, path, n + 1, i)
    BY Zenon, <1>4, <1>10, <1>11
  <2>3. Len(b) = (IF n + 1 = 0 THEN 0 ELSE path[n + 1])
    BY <1>8, <2>1
  <2> QED
    BY Zenon, <1>8, <2>2, <2>3 DEF ChainVerifies
<1> QED
  BY Zenon, <1>2, <1>12 DEF Scrub

--------------------------------------------------------------------------------
(* What the store keeps verified: every superblock, in the page cache and on *)
(* disk; the writer's working indexes, with the journal they continue; and   *)
(* the checkpoint that is about to be published.                             *)

WorkScrub(journal, n) ==
  Scrub(arena, Len(arena), nextId, objects.map, cache.map, journal, n)

FileVerified ==
  \A s \in Slots : /\ super[s] # Bad => Verify(arena, super[s])
                   /\ disk[s] # Bad => Verify(arena, disk[s])

WorkVerified ==
  pc \in Working =>
    /\ WorkScrub(committed.journal, committed.sequence)
    /\ cache.ref # 0 => arena[cache.ref].map = cache.map

CandidateVerified ==
  /\ pc = "journal" => ~Unserialised(cache)
  /\ pc \in Publishing \cup {"sync"} =>
       /\ Verify(arena, candidate)
       /\ WorkScrub(candidate.journal, candidate.sequence)

Verified == FileVerified /\ WorkVerified /\ CandidateVerified

(* A checkpoint verifies in every arena that keeps its records. *)
LEMMA VerifyKept ==
  ASSUME NEW a \in Seq(Records), NEW b \in Seq(Records), NEW sb, Sound(a, sb),
         Kept(a, b, sb.end), Verify(a, sb)
  PROVE  Verify(b, sb)
<1>1. sb.end \in Nat /\ sb.next_id \in Nat /\ sb.sequence \in Nat
  BY StoreAssumption DEF Sound, Superblocks, Refs
<1>2. /\ sb.objects # 0 => b[sb.objects] = a[sb.objects]
      /\ sb.cache # 0 => b[sb.cache] = a[sb.cache]
  <2>1. /\ sb.objects # 0 => sb.objects \in 1..sb.end
        /\ sb.cache # 0 => sb.cache \in 1..sb.end
    BY Zenon DEF Sound, Valid, IsRecord
  <2> QED
    BY Zenon, <2>1 DEF Kept
<1>3. /\ IndexAt(b, sb.objects).map = IndexAt(a, sb.objects).map
      /\ IndexAt(b, sb.cache).map = IndexAt(a, sb.cache).map
  BY Zenon, <1>2 DEF IndexAt
<1> DEFINE map == IndexAt(a, sb.objects).map
           rows == IndexAt(a, sb.cache).map
<1>4. Scrub(a, sb.end, sb.next_id, map, rows, sb.journal, sb.sequence)
  BY Zenon DEF Verify
<1>5. Verify(b, sb) <=> Scrub(b, sb.end, sb.next_id, map, rows, sb.journal, sb.sequence)
  BY Zenon, <1>3 DEF Verify
<1> HIDE DEF map, rows
<1>6. Scrub(b, sb.end, sb.next_id, map, rows, sb.journal, sb.sequence)
  BY Zenon, <1>1, <1>4, ScrubKept
<1> QED
  BY Zenon, <1>5, <1>6

(* The first superblock verifies. *)
LEMMA FirstVerifies == Verify(<<>>, FirstSuper)
<1>1. /\ FirstSuper.end = 0 /\ FirstSuper.next_id = 1 /\ FirstSuper.objects = 0
      /\ FirstSuper.cache = 0 /\ FirstSuper.journal = 0 /\ FirstSuper.sequence = 0
  BY Zenon DEF FirstSuper, Superblock
<1>2. IndexAt(<<>>, 0).map = Empty /\ DOMAIN Empty = {}
  BY Zenon DEF IndexAt, NoIndex, Empty
<1>3. 1..0 = {}
  OBVIOUS
<1>4. RecordsIntact(<<>>, 0, 1)
  BY <1>3 DEF RecordsIntact
<1>5. ChainVerifies(<<>>, 0, 1, Empty, 0, 0)
  <2> DEFINE t == [i \in 1..0 |-> i]
  <2>1. t \in [1..0 -> 1..0]
    BY Zenon
  <2>2. \A i \in 1..0 : EntryVerifies(<<>>, 0, 1, Empty, t, 0, i)
    BY Zenon, <1>3
  <2> HIDE DEF t
  <2> QED
    BY Zenon, <2>1, <2>2 DEF ChainVerifies
<1>6. Scrub(<<>>, 0, 1, Empty, Empty, 0, 0)
  BY Zenon, <1>2, <1>4, <1>5 DEF Scrub
<1> QED
  BY Zenon, <1>1, <1>2, <1>6 DEF Verify

(* No step changes a record that both arenas have. *)
LEMMA RecordsShared ==
  ASSUME IInv, IInv', [Next]_vars, NEW i \in 1..Len(arena), i <= Len(arena')
  PROVE  arena'[i] = arena[i]
<1>0. /\ TypeOK /\ arena \in Seq(Records) /\ Len(arena) \in Nat
      /\ arena' \in Seq(Records) /\ Len(arena') \in Nat
  <2>1. TypeOK /\ arena \in Seq(Records) /\ arena' \in Seq(Records)
    BY Zenon DEF IInv, TypeOK
  <2>2. Len(arena) \in Nat /\ Len(arena') \in Nat
    BY <2>1
  <2> QED
    BY Zenon, <2>1, <2>2
<1>1. CASE arena' = arena
  BY Zenon, <1>1
<1>2. CASE \E x : arena' = Append(arena, x)
  BY <1>0, <1>2
<1>3. CASE Settle
  <2>1. pc = "settle" /\ arena' = SubSeq(arena, 1, committed.end)
    BY Zenon, <1>3 DEF Settle
  <2>2. Sound(arena, committed)
    BY Zenon, <2>1, FileTypes DEF IInv, Writer, FileInv, Supers
  <2>3. committed.end \in Nat /\ committed.end <= Len(arena)
    BY Zenon, <2>2, Numbers
  <2> QED
    BY <1>0, <2>1, <2>3, CutOff
<1>4. CASE PowerLoss
  <2>1. CASE Vanished
    BY <1>0, <2>1 DEF Vanished
  <2>2. ASSUME NEW a \in Survivors(0), NEW b \in Survivors(1), NEW size \in Nat,
               Remains(a, b, size)
        PROVE  arena'[i] = arena[i]
    <3>1. Len(arena') = size /\ Kept(arena, arena', size)
      BY <2>2, FileSurvives
    <3>2. i \in 1..size
      BY <1>0, <3>1
    <3> QED
      BY Zenon, <3>1, <3>2 DEF Kept
  <2> QED
    BY Zenon, <1>4, <2>1, <2>2, PowerLossLeaves
<1>5. CASE InitSuper \/ WriteSuper
  BY Zenon, <1>1, <1>5 DEF InitSuper, WriteSuper
<1> QED
  BY Zenon, <1>1, <1>2, <1>3, <1>4, <1>5, StepsOnSupers

(* Where the superblocks after a step come from. *)
FromFile(sb) == \E t \in Slots : sb = super[t] \/ sb = disk[t]

(* Nothing else becomes a superblock, in the file or on disk. *)
LEMMA SupersFrom ==
  ASSUME IInv, [Next]_vars, NEW s \in Slots, NEW sb \in {super'[s], disk'[s]}, sb # Bad
  PROVE  \/ FromFile(sb)
         \/ InitSuper /\ sb = FirstSuper
         \/ WriteSuper /\ sb = candidate
<1>0. /\ super \in [Slots -> Superblocks \cup {Bad}] /\ slot \in Slots
      /\ 1 - slot \in Slots /\ 0 \in Slots /\ 1 \in Slots /\ s \in {0, 1}
  BY Zenon, FileTypes DEF IInv, Slots
<1>1. CASE super' = super /\ (disk' = disk \/ disk' = super)
  BY Zenon, <1>1 DEF FromFile
<1>2. CASE InitSuper
  <2>1. /\ disk' = disk
        /\ super' = [super EXCEPT ![0] = FirstSuper] \/ super' = [super EXCEPT ![0] = Bad]
    BY Zenon, <1>2 DEF InitSuper
  <2>2. super'[s] \in {super[s], FirstSuper, Bad}
    BY Zenon, <1>0, <2>1
  <2> QED
    BY Zenon, <1>2, <2>1, <2>2 DEF FromFile
<1>3. CASE WriteSuper
  <2>1. /\ disk' = disk
        /\ \/ super' = [super EXCEPT ![1 - slot] = candidate]
           \/ super' = [super EXCEPT ![1 - slot] = Bad]
           \/ super' = super
    BY Zenon, <1>3 DEF WriteSuper
  <2>2. super'[s] \in {super[s], candidate, Bad}
    BY Zenon, <1>0, <2>1
  <2> QED
    BY Zenon, <1>3, <2>1, <2>2 DEF FromFile
<1>4. CASE PowerLoss
  <2>1. ASSUME Vanished PROVE FALSE
    BY Zenon, <2>1 DEF Vanished
  <2>2. ASSUME NEW a \in Survivors(0), NEW b \in Survivors(1), NEW size \in Nat,
               Remains(a, b, size)
        PROVE  FromFile(sb)
    <3>1. super'[0] = a /\ super'[1] = b /\ disk' = super'
      <4>1. super'[0] = a /\ super'[1] = b
        BY Zenon, <2>2, FileSurvives
      <4>2. disk' = super'
        BY Zenon, <2>2 DEF Remains
      <4> QED BY Zenon, <4>1, <4>2
    <3>2. a \in {super[0], disk[0], Bad} /\ b \in {super[1], disk[1], Bad}
      BY Zenon DEF Survivors
    <3> QED
      BY Zenon, <1>0, <3>1, <3>2 DEF FromFile
  <2> QED
    BY Zenon, <1>4, <2>1, <2>2, PowerLossLeaves
<1> QED
  BY Zenon, <1>1, <1>2, <1>3, <1>4, StepsOnSupers

(* Whatever is in the file verifies after the step. *)
LEMMA FileStaysVerified ==
  ASSUME IInv, IInv', [Next]_vars, Verified
  PROVE  FileVerified'
<1>0. /\ arena \in Seq(Records) /\ Len(arena) \in Nat
      /\ arena' \in Seq(Records) /\ Len(arena') \in Nat
  <2>1. TypeOK /\ arena \in Seq(Records) /\ arena' \in Seq(Records)
    BY Zenon DEF IInv, TypeOK
  <2>2. Len(arena) \in Nat /\ Len(arena') \in Nat
    BY <2>1
  <2> QED
    BY Zenon, <2>1, <2>2
<1> SUFFICES ASSUME NEW s \in Slots, NEW sb \in {super'[s], disk'[s]}, sb # Bad
             PROVE  Verify(arena', sb)
  BY Zenon DEF FileVerified
<1>1. Sound(arena', sb)
  BY Zenon DEF IInv, FileInv, Supers
<1>2. CASE InitSuper /\ sb = FirstSuper
  <2>1. arena' = <<>>
    BY Zenon, <1>2 DEF InitSuper, IInv, NoFile, Blank
  <2> QED
    BY Zenon, <1>2, <2>1, FirstVerifies
<1>3. ASSUME Sound(arena, sb), Verify(arena, sb)
      PROVE  Verify(arena', sb)
  <2>1. sb.end \in Nat /\ sb.end <= Len(arena) /\ sb.end <= Len(arena')
    BY Zenon, <1>1, <1>3, Numbers
  <2>2. \A i \in 1..sb.end : i \in 1..Len(arena) /\ i <= Len(arena')
    BY <1>0, <2>1
  <2>3. Kept(arena, arena', sb.end)
    BY Zenon, <2>1, <2>2, RecordsShared DEF Kept
  <2> QED
    BY Zenon, <1>0, <1>3, <2>3, VerifyKept
<1>4. CASE FromFile(sb)
  BY Zenon, <1>3, <1>4 DEF FromFile, IInv, FileInv, Supers, Verified, FileVerified
<1>5. CASE WriteSuper /\ sb = candidate
  <2>1. pc = "publish"
    BY Zenon, <1>5 DEF WriteSuper
  <2>2. pc \in Publishing
    BY Zenon, <2>1 DEF Publishing
  <2>3. Sound(arena, candidate) /\ Verify(arena, candidate)
    BY Zenon, <2>2, PublishingFacts DEF Verified, CandidateVerified
  <2> QED
    BY Zenon, <1>3, <1>5, <2>3
<1> QED
  BY Zenon, <1>2, <1>4, <1>5, SupersFrom

(* A record that takes no part in an index leaves the working state          *)
(* verified, whichever of the two indexes nemit serialises.                  *)
LEMMA EmitScrubs ==
  ASSUME TypeOK, NEW index \in [map : Maps, ref : Refs], Emit(index),
         NEW ids \in Nat, NEW map, NEW rows, NEW journal, NEW n \in Nat,
         Scrub(arena, Len(arena), ids, map, rows, journal, n)
  PROVE  Scrub(arena', Len(arena'), ids, map, rows, journal, n)
<1>1. CASE Unserialised(index)
  <2> DEFINE x == Index(index.map)
  <2>1. arena' = Append(arena, x) /\ arena \in Seq(Records)
    BY Zenon, <1>1 DEF Emit, Allocate, TypeOK
  <2>2. x \in Records /\ x.type = "index"
    BY Zenon DEF Index, Records
  <2> HIDE DEF x
  <2>3. x.type # "junk" /\ x.type # "object"
    BY <2>2
  <2> QED
    BY Zenon, <2>1, <2>2, <2>3, ScrubOther
<1>2. CASE ~Unserialised(index)
  BY Zenon, <1>2 DEF Emit
<1> QED
  BY Zenon, <1>1, <1>2

(* The working state of a writer that verifies. *)
LEMMA WorkFacts ==
  ASSUME IInv, Verified, pc \in Working
  PROVE  /\ Scrub(arena, Len(arena), nextId, objects.map, cache.map, committed.journal,
                  committed.sequence)
         /\ cache.ref # 0 => IsRecord(arena, cache.ref, Len(arena), "index")
                             /\ arena[cache.ref].map = cache.map
         /\ committed.sequence \in Nat /\ nextId \in Nat /\ nextId # 0
         /\ TypeOK /\ arena \in Seq(Records)
<1>1. committed.sequence \in Nat
  BY WorkingFacts DEF Sound, Superblocks
<1> QED
  BY Zenon, <1>1, WorkingFacts DEF Verified, WorkVerified, WorkScrub, IInv, Indexes

(* What nverify_object asks of the object h at off, and of what it refers to. *)
Refers(b, end, ids, new, h, off, subs) ==
  /\ IsPin(b, off, end, ids) /\ b[off].hash = h /\ b[off].subs = subs
  /\ \A d \in Deps[h] : \E s \in subs : b[s].hash = d
  /\ \A s \in subs : /\ b[s].hash \in Deps[h] /\ s < off /\ IsPin(b, s, end, ids)
                     /\ b[s].hash \in DOMAIN new /\ new[b[s].hash] = s

(* An object whose record refers to its dependencies this way verifies. *)
LEMMA ObjectFrom ==
  ASSUME NEW b, NEW end, NEW ids, NEW new, NEW h, NEW subs,
         Refers(b, end, ids, new, h, new[h], subs)
  PROVE  ObjectVerifies(b, end, ids, new, h)
<1>1. {b[s].hash : s \in subs} = Deps[h]
  <2>1. /\ \A d \in Deps[h] : \E s \in subs : b[s].hash = d
        /\ \A s \in subs : b[s].hash \in Deps[h]
    BY Zenon DEF Refers
  <2> QED BY Zenon, <2>1
<1> QED
  BY Zenon, <1>1 DEF ObjectVerifies, Refers

(* The record x of a new object h, and the index new with h at off. *)
Staged(x, h, ids, map) ==
  /\ x.type = "object" /\ x.hash = h /\ x.id = ids
  /\ x.subs = {map[d] : d \in Deps[h]}
Named(map, new, h, off) ==
  /\ DOMAIN new = DOMAIN map \cup {h} /\ new[h] = off
  /\ \A k \in DOMAIN map : new[k] = map[k]

(* An object staged with the PINs it refers to verifies. *)
LEMMA StagedVerifies ==
  ASSUME NEW a \in Seq(Records), NEW ids \in Nat, ids # 0, NEW map,
         \A k \in DOMAIN map : ObjectVerifies(a, Len(a), ids, map, k),
         NEW h \in Hashes, Deps[h] \subseteq DOMAIN map,
         NEW x, Staged(x, h, ids, map), NEW b, Longer(a, x, b),
         NEW new, Named(map, new, h, Len(b))
  PROVE  ObjectVerifies(b, Len(b), ids + 1, new, h)
<1>0. /\ b \in Seq(Records) /\ Len(a) \in Nat /\ Len(b) \in Nat
      /\ Len(b) = Len(a) + 1 /\ Len(a) <= Len(b) /\ Len(b) <= Len(b)
      /\ b[Len(b)] = x /\ \A i \in 1..Len(a) : b[i] = a[i]
      /\ ids + 1 \in Nat /\ ids <= ids + 1 /\ ids \in 1..(ids + 1) - 1
      /\ Len(b) \in 1..Len(b) /\ \A i \in 1..Len(a) : i < Len(b)
  BY Zenon, Successor DEF Longer
<1>1. /\ x.type = "object" /\ x.hash = h /\ x.id = ids
      /\ x.subs = {map[d] : d \in Deps[h]}
  BY Zenon DEF Staged
<1>2. Carries(a, b, Len(a), Len(b), ids, ids + 1)
  BY Zenon, <1>0 DEF Kept, Carries
<1>3. ASSUME NEW d \in Deps[h]
      PROVE  /\ map[d] \in 1..Len(a) /\ IsPin(b, map[d], Len(b), ids + 1)
             /\ b[map[d]].hash = d /\ d \in DOMAIN new /\ new[d] = map[d]
  <2>1. IsPin(a, map[d], Len(a), ids) /\ a[map[d]].hash = d /\ d \in DOMAIN map
    BY Zenon DEF ObjectVerifies
  <2>2. /\ map[d] \in 1..Len(a) /\ IsPin(b, map[d], Len(b), ids + 1)
        /\ b[map[d]] = a[map[d]]
    <3>1. IsPin(b, map[d], Len(b), ids + 1)
      BY Zenon, <1>2, <2>1, PinKept
    <3>2. map[d] \in 1..Len(a)
      BY Zenon, <2>1 DEF IsPin, IsRecord
    <3> QED
      BY Zenon, <1>2, <3>1, <3>2 DEF Carries, Kept
  <2>3. d \in DOMAIN new /\ new[d] = map[d]
    BY Zenon, <2>1 DEF Named
  <2> QED
    BY Zenon, <2>1, <2>2, <2>3
<1>4. IsPin(b, Len(b), Len(b), ids + 1) /\ b[Len(b)].hash = h /\ new[h] = Len(b)
  <2>1. new[h] = Len(b)
    BY Zenon DEF Named
  <2> QED BY Zenon, <1>0, <1>1, <2>1 DEF IsPin, IsRecord
<1>5. \A d \in Deps[h] : \E s \in x.subs : b[s].hash = d
  <2>1. \A d \in Deps[h] : map[d] \in x.subs /\ b[map[d]].hash = d
    BY Zenon, <1>1, <1>3
  <2> QED
    BY Zenon, <2>1
<1>6. ASSUME NEW s \in x.subs
      PROVE  /\ b[s].hash \in Deps[h] /\ s < Len(b) /\ IsPin(b, s, Len(b), ids + 1)
             /\ b[s].hash \in DOMAIN new /\ new[b[s].hash] = s
  <2>1. PICK d \in Deps[h] : s = map[d]
    BY Zenon, <1>1
  <2>2. map[d] < Len(b)
    BY Zenon, <1>0, <1>3
  <2>3. /\ b[map[d]].hash \in Deps[h] /\ IsPin(b, map[d], Len(b), ids + 1)
        /\ b[map[d]].hash \in DOMAIN new /\ new[b[map[d]].hash] = map[d]
    BY Zenon, <1>3
  <2> QED
    BY Zenon, <2>1, <2>2, <2>3
<1>7. b[Len(b)].subs = x.subs
  BY Zenon, <1>0
<1>8. \A s \in x.subs :
        /\ b[s].hash \in Deps[h] /\ s < Len(b) /\ IsPin(b, s, Len(b), ids + 1)
        /\ b[s].hash \in DOMAIN new /\ new[b[s].hash] = s
  BY Zenon, <1>6
<1>9. Refers(b, Len(b), ids + 1, new, h, Len(b), x.subs)
  BY Zenon, <1>4, <1>5, <1>7, <1>8 DEF Refers
<1>10. Refers(b, Len(b), ids + 1, new, h, new[h], x.subs)
  BY Zenon, <1>4, <1>9
<1> QED
  BY Zenon, <1>10, ObjectFrom

(* Staging leaves the working state verified: an object whose insertion is   *)
(* prevented is a record no index names.                                     *)
LEMMA StageVerified ==
  ASSUME IInv, Verified, NEW h \in Hashes, Stage(h)
  PROVE  WorkVerified' /\ CandidateVerified'
<1> DEFINE x == Object(h, nextId, {objects.map[d] : d \in Deps[h]})
<1>0. /\ pc = "idle" /\ pc' = "idle"
      /\ h \notin DOMAIN objects.map /\ Deps[h] \subseteq DOMAIN objects.map
      /\ arena' = Append(arena, x) /\ nextId' = nextId + 1
      /\ objects' = Insert(objects, h, Len(arena) + 1) \/ objects' = objects
      /\ cache' = cache /\ committed' = committed
  BY Zenon DEF Stage, Writable, Allocate, Here
<1>1. pc \in Working
  BY Zenon, <1>0 DEF Working
<1>2. /\ Scrub(arena, Len(arena), nextId, objects.map, cache.map, committed.journal,
               committed.sequence)
      /\ cache.ref # 0 => IsRecord(arena, cache.ref, Len(arena), "index")
                          /\ arena[cache.ref].map = cache.map
      /\ committed.sequence \in Nat /\ nextId \in Nat /\ nextId # 0
      /\ TypeOK /\ arena \in Seq(Records)
  BY Zenon, <1>1, WorkFacts
<1>3. x \in Records /\ x.type = "object" /\ x.id = nextId
  <2>1. objects.map \in Maps
    BY Zenon, <1>2 DEF TypeOK
  <2>2. {objects.map[d] : d \in Deps[h]} \in SUBSET Refs
    BY Zenon, <1>0, <2>1, MapsAre
  <2> QED
    BY Zenon, <1>2, <2>2 DEF Object, Records
<1>4. Numbered(x, nextId, nextId + 1) /\ nextId + 1 \in Nat
  <2> HIDE DEF x
  <2> QED
    BY <1>2, <1>3 DEF Numbered
<1>5. RowsGrow(arena', objects'.map, cache.map, cache.map)
  BY Zenon DEF RowsGrow
<1>6. ObjectsGrow(arena', nextId + 1, objects.map, objects'.map)
  <2>1. CASE objects' = objects
    BY Zenon, <2>1 DEF ObjectsGrow, Within
  <2>2. CASE objects' = Insert(objects, h, Len(arena) + 1)
    <3>1. Named(objects.map, objects'.map, h, Len(arena) + 1)
      BY Zenon, <1>0, <2>2 DEF Insert, Named
    <3>2. \A k \in DOMAIN objects.map :
            ObjectVerifies(arena, Len(arena), nextId, objects.map, k)
      BY Zenon, <1>2 DEF Scrub
    <3>3. Staged(x, h, nextId, objects.map)
      BY Zenon DEF Object, Staged
    <3> HIDE DEF x
    <3>4. Longer(arena, x, arena') /\ Len(arena') = Len(arena) + 1
      <4>1. Longer(arena, x, arena')
        BY Zenon, <1>0, <1>2, <1>3, Lengthened
      <4> QED BY Zenon, <4>1 DEF Longer
    <3>5. Named(objects.map, objects'.map, h, Len(arena'))
      BY Zenon, <3>1, <3>4
    <3>6. ObjectVerifies(arena', Len(arena'), nextId + 1, objects'.map, h)
      BY Zenon, <1>0, <1>2, <3>2, <3>3, <3>4, <3>5, StagedVerifies
    <3> QED
      BY Zenon, <3>1, <3>6 DEF ObjectsGrow, Within, Named
  <2> QED
    BY Zenon, <1>0, <2>1, <2>2
<1>7. Scrub(arena', Len(arena'), nextId', objects'.map, cache'.map, committed'.journal,
            committed'.sequence)
  <2> HIDE DEF x
  <2>1. Scrub(arena', Len(arena'), nextId + 1, objects'.map, cache.map,
              committed.journal, committed.sequence)
    BY Zenon, <1>0, <1>2, <1>3, <1>4, <1>5, <1>6, ScrubAppend
  <2> QED
    BY Zenon, <1>0, <2>1
<1>8. cache'.ref # 0 => arena'[cache'.ref].map = cache'.map
  <2> HIDE DEF x
  <2>1. Kept(arena, arena', Len(arena)) /\ Len(arena) \in Nat /\ arena' \in Seq(Records)
    BY <1>0, <1>2, <1>3 DEF Kept
  <2> QED
    <3>1. ASSUME cache.ref # 0
          PROVE  arena'[cache.ref] = arena[cache.ref]
      <4>1. cache.ref \in 1..Len(arena)
        BY Zenon, <1>2, <3>1 DEF IsRecord
      <4> QED
        BY Zenon, <2>1, <4>1 DEF Kept
    <3> QED
      BY Zenon, <1>0, <1>2, <3>1
<1> QED
  BY Zenon, <1>0, <1>7, <1>8 DEF WorkVerified, WorkScrub, CandidateVerified, Publishing

(* A cache row names an object of the working index. *)
LEMMA PutCacheVerified ==
  ASSUME IInv, Verified, NEW c \in Keys, NEW h \in Hashes, PutCache(c, h)
  PROVE  WorkVerified' /\ CandidateVerified'
<1> DEFINE x == CacheRow(h)
<1>0. /\ pc = "idle" /\ pc' = "idle" /\ h \in DOMAIN objects.map
      /\ arena' = Append(arena, x) /\ nextId' = nextId /\ objects' = objects
      /\ cache' = Insert(cache, c, Len(arena) + 1) /\ committed' = committed
  BY Zenon DEF PutCache, Writable, Allocate, Here
<1>1. pc \in Working
  BY Zenon, <1>0 DEF Working
<1>2. /\ Scrub(arena, Len(arena), nextId, objects.map, cache.map, committed.journal,
               committed.sequence)
      /\ committed.sequence \in Nat /\ nextId \in Nat /\ arena \in Seq(Records)
  BY Zenon, <1>1, WorkFacts
<1>3. x \in Records /\ x.type = "cache" /\ x.hash = h
  BY Zenon DEF CacheRow, Records
<1> HIDE DEF x
<1>4. Numbered(x, nextId, nextId)
  BY <1>2, <1>3 DEF Numbered
<1>5. /\ cache'.ref = 0 /\ DOMAIN cache'.map = DOMAIN cache.map \cup {c}
      /\ cache'.map[c] = Len(arena) + 1
      /\ \A k \in DOMAIN cache.map : k # c => cache'.map[k] = cache.map[k]
  BY Zenon, <1>0 DEF Insert
<1>6. RowVerifies(arena', Len(arena'), objects.map, Len(arena) + 1)
  <2>1. /\ Len(arena) + 1 \in 1..Len(arena') /\ Len(arena) + 1 <= Len(arena')
        /\ arena'[Len(arena) + 1] = x
    <3>1. Longer(arena, x, arena')
      BY Zenon, <1>0, <1>2, <1>3, Lengthened
    <3> QED BY Zenon, <3>1 DEF Longer
  <2> QED
    BY Zenon, <1>0, <1>3, <2>1 DEF RowVerifies, IsRecord
<1>7. /\ RowsGrow(arena', objects.map, cache.map, cache'.map)
      /\ ObjectsGrow(arena', nextId, objects.map, objects.map)
  BY Zenon, <1>5, <1>6 DEF RowsGrow, ObjectsGrow, Within
<1>8. Scrub(arena', Len(arena'), nextId, objects.map, cache'.map, committed.journal,
            committed.sequence)
  BY Zenon, <1>0, <1>2, <1>3, <1>4, <1>7, ScrubAppend
<1> QED
  BY Zenon, <1>0, <1>5, <1>8 DEF WorkVerified, WorkScrub, CandidateVerified, Publishing

(* Serialising an index leaves the working state verified, and the cache     *)
(* index has a record before the journal is written.                         *)
LEMMA EmitVerified ==
  ASSUME IInv, IInv', Verified, (\E h \in Hashes : BeginSave(h)) \/ EmitCache
  PROVE  WorkVerified' /\ CandidateVerified'
<1>0. /\ pc \in {"idle", "cache"} /\ pc' \in {"cache", "journal"}
      /\ nextId' = nextId /\ committed' = committed
      /\ \/ Emit(objects) /\ objects' = Emitted(objects) /\ cache' = cache /\ pc' = "cache"
         \/ Emit(cache) /\ cache' = Emitted(cache) /\ objects' = objects
  BY Zenon DEF BeginSave, EmitCache, Writable
<1>1. pc \in Working /\ objects \in [map : Maps, ref : Refs]
      /\ cache \in [map : Maps, ref : Refs]
  BY Zenon, <1>0 DEF Working, Saving, IInv, TypeOK
<1>2. /\ Scrub(arena, Len(arena), nextId, objects.map, cache.map, committed.journal,
               committed.sequence)
      /\ cache.ref # 0 => IsRecord(arena, cache.ref, Len(arena), "index")
                          /\ arena[cache.ref].map = cache.map
      /\ committed.sequence \in Nat /\ nextId \in Nat /\ TypeOK /\ arena \in Seq(Records)
  BY Zenon, <1>1, WorkFacts
<1>3. Scrub(arena', Len(arena'), nextId, objects.map, cache.map, committed.journal,
            committed.sequence)
  BY Zenon, <1>0, <1>1, <1>2, EmitScrubs
<1>4. objects.ref # 0 => IsRecord(arena, objects.ref, Len(arena), "index")
  BY Zenon, <1>1 DEF IInv, Indexes
<1>5. CASE Emit(objects) /\ objects' = Emitted(objects) /\ cache' = cache /\ pc' = "cache"
  <2>1. objects'.map = objects.map /\ Kept(arena, arena', Len(arena))
    BY Zenon, <1>1, <1>2, <1>4, <1>5, Emitting
  <2>2. cache.ref # 0 => arena'[cache.ref].map = cache.map
    <3>1. cache.ref # 0 => cache.ref \in 1..Len(arena)
      BY Zenon, <1>2 DEF IsRecord
    <3> QED
      BY Zenon, <1>2, <2>1, <3>1 DEF Kept
  <2>3. WorkVerified'
    BY Zenon, <1>0, <1>3, <1>5, <2>1, <2>2 DEF WorkVerified, WorkScrub
  <2> QED
    BY Zenon, <1>5, <2>3 DEF CandidateVerified, Publishing
<1>6. CASE Emit(cache) /\ cache' = Emitted(cache) /\ objects' = objects
  <2>1. /\ cache'.map = cache.map
        /\ cache'.ref # 0 => arena'[cache'.ref].map = cache'.map
        /\ cache.map # Empty => cache'.ref # 0
    BY Zenon, <1>1, <1>2, <1>6, Emitting
  <2>2. WorkVerified'
    BY Zenon, <1>0, <1>3, <1>6, <2>1 DEF WorkVerified, WorkScrub
  <2>3. ~Unserialised(cache')
    BY Zenon, <2>1 DEF Unserialised
  <2> QED
    BY Zenon, <1>0, <2>2, <2>3 DEF CandidateVerified, Publishing
<1> QED
  BY Zenon, <1>0, <1>5, <1>6

(* A checkpoint without a journal record of its own keeps the other fields. *)
LEMMA EndFields ==
  ASSUME NEW c \in Superblocks, NEW last, NEW d, d = [c EXCEPT !.end = last]
  PROVE  /\ d.journal = c.journal /\ d.sequence = c.sequence /\ d.end = last
         /\ d.objects = c.objects /\ d.cache = c.cache /\ d.next_id = c.next_id
  BY DEF Superblocks

(* A checkpoint made of the working indexes verifies when they do.           *)
LEMMA BuiltVerifies ==
  ASSUME NEW a, NEW sb, NEW ids, NEW objs, NEW rows,
         sb.end = Len(a), sb.next_id = ids, sb.objects = objs.ref, sb.cache = rows.ref,
         objs.ref # 0, a[objs.ref].map = objs.map,
         rows.ref # 0 => a[rows.ref].map = rows.map,
         ~Unserialised(rows),
         Scrub(a, Len(a), ids, objs.map, rows.map, sb.journal, sb.sequence)
  PROVE  Verify(a, sb)
<1>1. IndexAt(a, sb.objects).map = objs.map
  BY Zenon DEF IndexAt
<1>2. IndexAt(a, sb.cache).map = rows.map
  <2>1. CASE rows.ref = 0
    BY Zenon, <2>1 DEF IndexAt, NoIndex, Unserialised
  <2>2. CASE rows.ref # 0
    BY Zenon, <2>2 DEF IndexAt
  <2> QED
    BY Zenon, <2>1, <2>2
<1> QED
  BY Zenon, <1>1, <1>2 DEF Verify

(* The journal record completes a checkpoint that verifies.                  *)
LEMMA JournalVerified ==
  ASSUME IInv, IInv', Verified, AppendJournal
  PROVE  WorkVerified' /\ CandidateVerified'
<1>0. /\ pc = "journal" /\ pc' = "sync"
      /\ UNCHANGED <<committed, nextId, objects, cache>>
  BY Zenon DEF AppendJournal
<1>1. pc \in Working /\ pc \in Saving
  BY Zenon, <1>0 DEF Working, Saving
<1>2. /\ Scrub(arena, Len(arena), nextId, objects.map, cache.map, committed.journal,
               committed.sequence)
      /\ cache.ref # 0 => IsRecord(arena, cache.ref, Len(arena), "index")
                          /\ arena[cache.ref].map = cache.map
      /\ committed.sequence \in Nat /\ nextId \in Nat /\ TypeOK /\ arena \in Seq(Records)
      /\ ~Unserialised(cache)
  BY Zenon, <1>0, <1>1, WorkFacts DEF Verified, CandidateVerified
<1>3. /\ candidate \in Superblocks /\ candidate.next_id = nextId
      /\ candidate.root_hash \in DOMAIN objects.map
      /\ candidate.root = objects.map[candidate.root_hash]
      /\ candidate.objects = objects.ref /\ objects.ref # 0
      /\ candidate.journal = committed.journal
      /\ candidate.sequence = committed.sequence
      /\ candidate.cache = cache.ref
      /\ IsRecord(arena, objects.ref, Len(arena), "index")
      /\ arena[objects.ref].map = objects.map
  BY Zenon, <1>0, <1>1, <1>2 DEF IInv, Candidate, TypeOK, Indexes
<1>4. /\ Kept(arena, arena', Len(arena))
      /\ WorkScrub(committed.journal, committed.sequence)'
      /\ Scrub(arena', Len(arena'), nextId, objects.map, cache.map, candidate'.journal,
               candidate'.sequence)
      /\ candidate'.end = Len(arena') /\ candidate'.next_id = nextId
      /\ candidate'.objects = objects.ref /\ candidate'.cache = cache.ref
  <2>1. CASE RootChanged(candidate.root_hash)
    <3> DEFINE h == candidate.root_hash
               old == History(arena, committed)
               x == Journal(committed.journal, Append(old, h), candidate.root,
                            Len(arena) + 1)
    <3>1. /\ arena' = Append(arena, x) /\ Len(arena) < Capacity
          /\ candidate' = [candidate EXCEPT !.journal = Len(arena) + 1, !.sequence = @ + 1,
                                            !.end = Len(arena) + 1]
      BY Zenon, <2>1 DEF AppendJournal, Allocate, Room, Here
    <3>2. /\ h \in Hashes /\ committed \in Superblocks /\ committed # Bad
          /\ old \in Seq(Hashes) /\ Sound(arena, committed)
          /\ Indexed(arena, objects.map, Len(arena), nextId)
      <4>1. /\ Sound(arena, committed) /\ committed # Bad
            /\ Indexed(arena, objects.map, Len(arena), nextId)
        BY Zenon, <1>1, WorkingFacts
      <4>2. h \in Hashes
        BY Zenon, <1>2, <1>3, <4>1, IndexedDomain
      <4> QED
        BY Zenon, <1>2, <4>1, <4>2, HistoryType DEF Sound
    <3>3. old = EntriesAt(arena, committed.journal)
      BY Zenon, <3>2 DEF History
    <3>4. Append(old, h) \in Seq(Hashes)
      BY <3>2
    <3>5. Len(arena) + 1 \in Refs /\ committed.journal \in Refs /\ candidate.root \in Refs
      <4>1. committed.journal \in Refs /\ candidate.root \in Refs
        BY Zenon, <1>3, <3>2 DEF Superblocks
      <4>2. Len(arena) + 1 \in Refs
        BY <1>2, <3>1, StoreAssumption DEF Refs
      <4> QED
        BY Zenon, <4>1, <4>2
    <3>6. x \in Records /\ x.type = "journal"
      BY Zenon, <3>4, <3>5 DEF Journal, Records
    <3>7. x = Journal(committed.journal, Append(old, h), objects.map[h], Len(arena) + 1)
      BY Zenon, <1>3
    <3>8. h \in DOMAIN objects.map
      BY Zenon, <1>3
    <3> HIDE DEF x, old, h
    <3>9. x.type # "junk" /\ x.type # "object"
      BY <3>6
    <3>10. Scrub(arena', Len(arena'), nextId, objects.map, cache.map, committed.journal,
                 committed.sequence)
      BY Zenon, <1>2, <3>1, <3>6, <3>9, ScrubOther
    <3>11. Scrub(arena', Len(arena'), nextId, objects.map, cache.map, Len(arena'),
                 committed.sequence + 1)
      BY Zenon, <1>2, <3>1, <3>2, <3>3, <3>6, <3>7, <3>8, ScrubJournal
    <3>12. Len(arena') = Len(arena) + 1 /\ Kept(arena, arena', Len(arena))
      BY <1>2, <3>1, <3>6 DEF Kept
    <3>13. /\ candidate'.journal = Len(arena') /\ candidate'.end = Len(arena')
           /\ candidate'.sequence = committed.sequence + 1
           /\ candidate'.next_id = nextId
           /\ candidate'.objects = objects.ref /\ candidate'.cache = cache.ref
      <4>1. /\ candidate'.journal = Len(arena) + 1 /\ candidate'.end = Len(arena) + 1
            /\ candidate'.sequence = candidate.sequence + 1
            /\ candidate'.next_id = candidate.next_id
            /\ candidate'.objects = candidate.objects
            /\ candidate'.cache = candidate.cache
        <5>1. candidate \in Superblocks
          BY Zenon, <1>3
        <5>2. candidate' = [candidate EXCEPT !.journal = Len(arena) + 1,
                                             !.sequence = @ + 1, !.end = Len(arena) + 1]
          BY Zenon, <3>1
        <5> QED
          BY <5>1, <5>2 DEF Superblocks
      <4> QED
        BY Zenon, <1>3, <3>12, <4>1
    <3>14. WorkScrub(committed.journal, committed.sequence)'
      BY Zenon, <1>0, <3>10 DEF WorkScrub
    <3> QED
      BY Zenon, <3>11, <3>12, <3>13, <3>14
  <2>2. CASE ~RootChanged(candidate.root_hash)
    <3>1. arena' = arena /\ candidate' = [candidate EXCEPT !.end = Len(arena)]
      BY Zenon, <2>2 DEF AppendJournal
    <3>2. /\ candidate'.journal = committed.journal /\ candidate'.end = Len(arena')
          /\ candidate'.sequence = committed.sequence
          /\ candidate'.next_id = nextId
          /\ candidate'.objects = objects.ref /\ candidate'.cache = cache.ref
      <4>1. /\ candidate'.journal = candidate.journal /\ candidate'.end = Len(arena)
            /\ candidate'.sequence = candidate.sequence
            /\ candidate'.next_id = candidate.next_id
            /\ candidate'.objects = candidate.objects
            /\ candidate'.cache = candidate.cache
        BY <1>3, <3>1, EndFields
      <4> QED
        BY Zenon, <1>3, <3>1, <4>1
    <3>3. Kept(arena, arena', Len(arena))
      BY <1>2, <3>1 DEF Kept
    <3>4. WorkScrub(committed.journal, committed.sequence)'
      BY Zenon, <1>0, <1>2, <3>1 DEF WorkScrub
    <3> QED
      BY Zenon, <1>2, <3>1, <3>2, <3>3, <3>4
  <2> QED
    BY Zenon, <2>1, <2>2
<1>5. /\ arena'[objects.ref] = arena[objects.ref]
      /\ cache.ref # 0 => arena'[cache.ref] = arena[cache.ref]
  <2>1. objects.ref \in 1..Len(arena) /\ (cache.ref # 0 => cache.ref \in 1..Len(arena))
    BY Zenon, <1>2, <1>3 DEF IsRecord
  <2> QED
    BY Zenon, <1>4, <2>1 DEF Kept
<1>6. /\ arena'[objects.ref].map = objects.map
      /\ cache.ref # 0 => arena'[cache.ref].map = cache.map
  BY Zenon, <1>2, <1>3, <1>5
<1>7. Verify(arena', candidate')
  BY Zenon, <1>2, <1>3, <1>4, <1>6, BuiltVerifies
<1>8. WorkVerified'
  BY Zenon, <1>0, <1>4, <1>6 DEF WorkVerified
<1>9. WorkScrub(candidate.journal, candidate.sequence)'
  BY Zenon, <1>0, <1>4 DEF WorkScrub
<1> QED
  BY Zenon, <1>0, <1>7, <1>8, <1>9 DEF CandidateVerified

(* Opening continues a checkpoint that verifies; the records cut off were    *)
(* not part of it.                                                           *)
LEMMA SettleVerified ==
  ASSUME IInv, Verified, Settle
  PROVE  WorkVerified' /\ CandidateVerified'
<1>0. /\ pc = "settle" /\ pc' = "dirsync" /\ committed' = committed
      /\ arena' = SubSeq(arena, 1, committed.end) /\ nextId' = committed.next_id
      /\ objects' = IndexAt(arena, committed.objects)
      /\ cache' = IndexAt(arena, committed.cache)
  BY Zenon DEF Settle
<1>1. /\ committed # Bad /\ committed = super[slot] /\ slot \in Slots
      /\ arena \in Seq(Records)
  BY Zenon, <1>0, FileTypes DEF IInv, Writer
<1>2. Sound(arena, committed) /\ Verify(arena, committed)
  <2>1. super[slot] # Bad => Sound(arena, super[slot]) /\ Verify(arena, super[slot])
    BY Zenon, <1>1 DEF IInv, FileInv, Supers, Verified, FileVerified
  <2> QED BY Zenon, <1>1, <2>1
<1>3. /\ committed.end \in Nat /\ committed.end <= Len(arena)
      /\ committed.next_id \in Nat /\ committed.sequence \in Nat
  BY Zenon, <1>2, Numbers
<1>4. /\ arena' \in Seq(Records) /\ Len(arena') = committed.end
      /\ \A i \in 1..committed.end : arena'[i] = arena[i]
  BY Zenon, <1>0, <1>1, <1>3, CutOff
<1>5. committed.end <= Len(arena')
  BY <1>3, <1>4
<1>6. Kept(arena, arena', committed.end)
  BY Zenon, <1>4, <1>5 DEF Kept
<1>7. Scrub(arena', committed.end, committed.next_id, IndexAt(arena, committed.objects).map,
            IndexAt(arena, committed.cache).map, committed.journal, committed.sequence)
  <2>1. Scrub(arena, committed.end, committed.next_id, IndexAt(arena, committed.objects).map,
              IndexAt(arena, committed.cache).map, committed.journal, committed.sequence)
    BY Zenon, <1>2 DEF Verify
  <2> DEFINE map == IndexAt(arena, committed.objects).map
             rows == IndexAt(arena, committed.cache).map
  <2>2. Scrub(arena, committed.end, committed.next_id, map, rows, committed.journal,
              committed.sequence)
    BY Zenon, <2>1
  <2> HIDE DEF map, rows
  <2>3. Scrub(arena', committed.end, committed.next_id, map, rows, committed.journal,
              committed.sequence)
    BY Zenon, <1>3, <1>4, <1>6, <2>2, ScrubKept
  <2> QED
    BY Zenon, <2>3 DEF map, rows
<1>8. WorkScrub(committed.journal, committed.sequence)'
  BY Zenon, <1>0, <1>4, <1>7 DEF WorkScrub
<1>9. cache'.ref # 0 => arena'[cache'.ref].map = cache'.map
  <2> SUFFICES ASSUME cache'.ref # 0
               PROVE  arena'[cache'.ref].map = cache'.map
    BY Zenon
  <2>1. committed.cache # 0
    BY Zenon, <1>0 DEF IndexAt, NoIndex
  <2>2. cache'.ref = committed.cache /\ cache'.map = arena[committed.cache].map
    BY Zenon, <1>0, <2>1 DEF IndexAt
  <2>3. arena'[committed.cache] = arena[committed.cache]
    BY Zenon, <1>2, <1>4, <2>1 DEF Sound, Valid, IsRecord
  <2> QED
    BY Zenon, <2>2, <2>3
<1> QED
  BY Zenon, <1>0, <1>8, <1>9 DEF WorkVerified, CandidateVerified, Publishing

(* The remaining steps change neither a record nor an index.                 *)
LEMMA OthersVerified ==
  ASSUME IInv, Verified, [Next]_vars, ~Settle, ~Staging, ~AppendJournal, ~EmitCache,
         ~\E h \in Hashes : BeginSave(h)
  PROVE  WorkVerified' /\ CandidateVerified'
<1> USE DEF Publishing, Saving, Working
<1>1. CASE pc' \in {"down", "opening", "created", "failed", "written", "settle"}
  BY Zenon, <1>1 DEF WorkVerified, CandidateVerified
<1>2. CASE Finish
  <2>1. /\ pc = "synced" /\ pc' = "idle" /\ committed' = candidate
        /\ UNCHANGED <<arena, nextId, objects, cache>>
    BY Zenon, <1>2 DEF Finish, fileVars
  <2> QED
    BY Zenon, <2>1 DEF Verified, WorkVerified, CandidateVerified, WorkScrub
<1>3. CASE OpenReady \/ SaveFails
  <2>1. /\ pc \in Working /\ pc' = "idle"
        /\ UNCHANGED <<arena, nextId, objects, cache, committed>>
    BY Zenon, <1>3 DEF OpenReady, SaveFails, fileVars, workVars
  <2> QED
    BY Zenon, <2>1 DEF Verified, WorkVerified, CandidateVerified, WorkScrub
<1>4. CASE DataSync \/ LockCommit \/ WriteSuper \/ SuperSync
  <2>1. /\ pc \in Publishing \cup {"sync"} /\ pc' \in Publishing
        /\ UNCHANGED <<arena, nextId, objects, cache, committed, candidate>>
    BY Zenon, <1>4 DEF DataSync, LockCommit, WriteSuper, SuperSync, fileVars, workVars
  <2> QED
    BY Zenon, <2>1 DEF Verified, WorkVerified, CandidateVerified, WorkScrub
<1>5. CASE Inspect \/ UNCHANGED vars
  <2>1. UNCHANGED <<pc, arena, nextId, objects, cache, committed, candidate>>
    BY Zenon, <1>5 DEF Inspect, ReadFirst, ReadSecond, ReaderStops, vars, fileVars, workVars
  <2> QED
    BY Zenon, <2>1 DEF Verified, WorkVerified, CandidateVerified, WorkScrub
<1>6. CASE OpenLock \/ OpenCreate \/ InitSuper \/ InitSync \/ OpenExisting \/ Stop
             \/ PowerLoss
  BY Zenon, <1>1, <1>6 DEF OpenLock, OpenCreate, InitSuper, InitSync, OpenExisting, Stop,
                           PowerLoss
<1> QED
  BY Zenon, <1>2, <1>3, <1>4, <1>5, <1>6 DEF Next, Open, Save

(* Every step leaves verified what was. *)
LEMMA NextVerified == IInv /\ IInv' /\ Verified /\ [Next]_vars => Verified'
<1> SUFFICES ASSUME IInv, IInv', Verified, [Next]_vars
             PROVE  Verified'
  BY Zenon
<1>1. FileVerified'
  BY Zenon, FileStaysVerified
<1>2. WorkVerified' /\ CandidateVerified'
  BY Zenon, SettleVerified, StageVerified, PutCacheVerified, EmitVerified, JournalVerified,
     OthersVerified DEF Staging
<1> QED
  BY Zenon, <1>1, <1>2 DEF Verified

(* The checks made on opening a superblock are enough: every checkpoint that *)
(* passes them passes pl_store_verify, after any failed, retried or          *)
(* abandoned Save and any loss of power.                                     *)
THEOREM CheckpointsAlwaysVerify == Spec => []CheckpointsVerify
<1>1. Init => Verified
  BY Zenon DEF Init, Verified, FileVerified, WorkVerified, CandidateVerified, Publishing,
               Saving, Working
<1>2. Verified => CheckpointsVerify
  BY Zenon DEF Verified, FileVerified, CheckpointsVerify, Valid
<1> QED
  BY <1>1, <1>2, NextVerified, StoreInvariant, PTL DEF Spec
================================================================================
