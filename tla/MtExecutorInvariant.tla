------------------------ MODULE MtExecutorInvariant ------------------------
(***************************************************************************)
(* The invariant of the multithreaded executor, for any sets of actors and *)
(* workers and any width of the pool.                                      *)
(*                                                                         *)
(* None of the executor's properties is inductive: a counter is exact only *)
(* if every worker that is counted is where the counter says, an actor is  *)
(* in one place only if its worker is bound to it alone, and a run that    *)
(* stops is quiet only if all of this holds.  MtInv says it in parts:      *)
(* where the controller and the root are (CtlGood), where each worker is   *)
(* and what it may hold (WorkerGood), where each actor is (Placed) and to  *)
(* whom it is bound (Owned), what it waits for (Waits), which request a    *)
(* thread serves (Serves), who pumps (Pumps), and the counters (Counts).   *)
(* There is one lemma per action; the actions that share a shape go        *)
(* through a lemma about the shape: EnqueueStep for those that make actors *)
(* runnable, LeaveStep and StayStep for the slices that end otherwise or   *)
(* go on, RunStep and BindStep for those that take an actor up.            *)
(*                                                                         *)
(* This module has the workers, the slices and the calls of the controller *)
(* that leave the actors alone; MtExecutorProofs has the other calls, the  *)
(* initial states and the theorems.  Counts carries Sizes, the facts on    *)
(* finite sets that the steps need, which SizesHold proves there.          *)
(***************************************************************************)
EXTENDS MtExecutor, TLAPS

(* The values of the variables.                                             *)
Statuses == {"new", "runnable", "blocked", "halted", "crashed"}
Roles == {"none", "general", "bound", "spare"}
CtlPCs == {"out", "run", "drive", "slice", "service", "settle", "deadlock", "finish",
           "drain", "join", "free"}
DrivePCs == {"drive", "slice", "service", "settle", "deadlock", "finish", "drain"}

TypeInv ==
    /\ status \in [Everyone -> Statuses] /\ mbox \in [Everyone -> Nat]
    /\ http \in [Everyone -> BOOLEAN] /\ effectful \in [Actors -> BOOLEAN]
    /\ owner \in [Everyone -> Workers \cup {None}]
    /\ queue \in Seq(Actors)
    /\ pumping \in BOOLEAN
    /\ role \in [Workers -> Roles] /\ ready \in [Workers -> BOOLEAN]
    /\ general \in Nat /\ readyBound \in Nat /\ busy \in Nat
    /\ running \in BOOLEAN /\ rooted \in BOOLEAN /\ shutdown \in BOOLEAN
    /\ pc \in [Threads -> WorkerPCs \cup CtlPCs]
    /\ job \in [Threads -> Everyone \cup {None}]
    /\ op \in [Threads -> Ops]

(* Where an actor is: in the run queue q, ready on its worker, executed.    *)
In(q, a) == \E i \in DOMAIN q : q[i] = a
Once(q, a) == \A i, j \in DOMAIN q : q[i] = a /\ q[j] = a => i = j
Runs(x, a) == pc[x] \in Executing /\ job[x] = a
IsRun(a) == \E x \in Threads : Runs(x, a)
IsReady(a) == \E w \in Workers : owner[a] = w /\ ready[w]

Placed(a) ==
    /\ status[a] = "runnable" <=> In(queue, a) \/ IsReady(a) \/ IsRun(a)
    /\ In(queue, a) => owner[a] = None /\ ~IsRun(a)
    /\ IsReady(a) => ~IsRun(a)
    /\ Once(queue, a)
    /\ \A x, y \in Threads : Runs(x, a) /\ Runs(y, a) => x = y

(* A bound actor: it is effectful, its worker is bound to it alone, and     *)
(* holds on to it once it is terminated only until it is back at its loop.  *)
Owned(a) ==
    owner[a] # None =>
      /\ role[owner[a]] = "bound" /\ effectful[a]
      /\ \A b \in Actors : owner[b] = owner[a] => b = a
      /\ status[a] \in Terminated => pc[owner[a]] = "after" /\ job[owner[a]] = a

(* A worker: its role and its place, its job, the actor it is bound to.     *)
WorkerGood(w) ==
    /\ pc[w] \in WorkerPCs
    /\ role[w] = "none" <=> pc[w] = "none"
    /\ role[w] = "spare" => pc[w] \in {"loop", "exit"}
    /\ pc[w] = "exit" => shutdown
    /\ pc[w] \in BusyPCs => ~shutdown
    /\ pc[w] \in Executing \cup {"after"} => job[w] \in Actors
    /\ pc[w] \in Executing /\ (role[w] = "bound" \/ effectful[job[w]])
         => owner[job[w]] = w
    /\ role[w] = "bound" => \E a \in Actors : owner[a] = w
    /\ ready[w] => role[w] = "bound"

(* The controller and the root.                                             *)
CtlGood ==
    /\ pc[Ctl] \in CtlPCs
    /\ rooted <=> pc[Ctl] \in DrivePCs
    /\ rooted => job[Ctl] = Root
    /\ shutdown <=> pc[Ctl] \in {"join", "free"}
    /\ running => pc[Ctl] \in {"run"} \cup (DrivePCs \ {"drain"})
    /\ status[Root] \in {"runnable", "blocked"}
    /\ status[Root] = "blocked" => pc[Ctl] \in {"drive", "deadlock"}
    /\ owner[Root] = None
    /\ pc[Ctl] = "free" => \A w \in Workers : pc[w] = "none"

(* An actor that waits for a transfer, or for a message.                    *)
Waits(a) ==
    /\ http[a] => status[a] = "blocked"
    /\ Parked(a) => mbox[a] = 0

(* A request that is being served; the actor to be spawned is nobody else's. *)
Serves(x) ==
    /\ op[x] # None <=> pc[x] = "service"
    /\ op[x] # None /\ op[x].kind = "spawn" =>
         /\ status[op[x].to] = "new"
         /\ \A y \in Threads : op[y] # None /\ op[y].kind = "spawn" /\ op[y].to = op[x].to
                                  => y = x

(* One worker at most polls, and pumping says whether one does.             *)
Pumps ==
    /\ pumping <=> \E w \in Workers : pc[w] = "pump"
    /\ \A v, w \in Workers : pc[v] = "pump" /\ pc[w] = "pump" => v = w

(* The counters are the sizes of these sets.                                *)
Pool == {w \in Workers : role[w] = "general"}
ReadyOnes == {w \in Workers : ready[w]}
BusyOnes == {w \in Workers : pc[w] \in BusyPCs}

(* What counting workers and listing actors comes to.  These facts about    *)
(* finite sets hold in any state (SizesHold); the invariant carries them.   *)
Sizes ==
    /\ Cardinality({}) = 0
    /\ \A S \in SUBSET Workers :
         /\ Cardinality(S) \in Nat
         /\ \A w \in Workers \ S : Cardinality(S \cup {w}) = Cardinality(S) + 1
         /\ \A w \in S : Cardinality(S \ {w}) = Cardinality(S) - 1 /\ Cardinality(S) > 0
         /\ \A T \in SUBSET (Workers \ S) :
              Cardinality(S \cup T) = Cardinality(S) + Cardinality(T)
    /\ \A S \in SUBSET Actors :
         /\ Cardinality(S) \in Nat
         /\ \A es \in Orders(S) : \A c \in S : \E i \in 1..Cardinality(S) : es[i] = c

Counts ==
    /\ Sizes
    /\ general = Cardinality(Pool) /\ (pc[Ctl] # "free" => general = Width)
    /\ readyBound = Cardinality(ReadyOnes)
    /\ busy = Cardinality(BusyOnes)

(* The inductive invariant.                                                 *)
MtInv ==
    /\ TypeInv
    /\ CtlGood
    /\ \A a \in Everyone : Waits(a)
    /\ \A a \in Actors : Placed(a) /\ Owned(a)
    /\ \A w \in Workers : WorkerGood(w)
    /\ \A x \in Threads : Serves(x)
    /\ Pumps
    /\ Counts

-----------------------------------------------------------------------------
(* Lemmas on the run queue and on counting.                                 *)

(* What er_enqueue makes of the run queue: membership, and members that     *)
(* occur once.                                                              *)
LEMMA AppendQueue ==
  ASSUME NEW q \in Seq(Actors), NEW s \in Seq(Actors), NEW a
  PROVE  /\ q \o s \in Seq(Actors)
         /\ In(q \o s, a) <=> In(q, a) \/ In(s, a)
         /\ Once(q, a) /\ Once(s, a) /\ ~(In(q, a) /\ In(s, a)) => Once(q \o s, a)
<1> DEFINE n == Len(q)
           m == Len(s)
<1>1. /\ n \in Nat /\ m \in Nat /\ DOMAIN q = 1..n /\ DOMAIN s = 1..m
      /\ DOMAIN (q \o s) = 1..(n + m) /\ q \o s \in Seq(Actors)
  BY DEF n, m
<1>2. /\ \A i \in 1..n : (q \o s)[i] = q[i]
      /\ \A i \in (n + 1)..(n + m) : (q \o s)[i] = s[i - n]
  BY DEF n, m
<1>3. \A i \in 1..m : i + n \in 1..(n + m) /\ (q \o s)[i + n] = s[i]
  BY <1>1, <1>2
<1> HIDE DEF n, m
<1>4. In(q \o s, a) => In(q, a) \/ In(s, a)
  BY <1>1, <1>2 DEF In
<1>5. In(q, a) => In(q \o s, a)
  BY <1>1, <1>2 DEF In
<1>6. In(s, a) => In(q \o s, a)
  BY Zenon, <1>1, <1>3 DEF In
<1>7. ASSUME Once(q, a), Once(s, a), ~(In(q, a) /\ In(s, a)),
             NEW i \in 1..(n + m), NEW j \in 1..(n + m), (q \o s)[i] = a, (q \o s)[j] = a
      PROVE  i = j
  <2>1. CASE i \in 1..n /\ j \in 1..n
    BY Zenon, <1>1, <1>2, <1>7, <2>1 DEF Once
  <2>2. CASE i \in (n + 1)..(n + m) /\ j \in (n + 1)..(n + m)
    <3>1. /\ i - n \in 1..m /\ j - n \in 1..m
      BY <1>1, <2>2
    <3>2. i - n = j - n
      BY Zenon, <1>1, <1>2, <1>7, <2>2, <3>1 DEF Once
    <3> QED
      BY <1>1, <3>2
  <2>3. ASSUME NEW k \in 1..n, NEW l \in (n + 1)..(n + m), (q \o s)[k] = a, (q \o s)[l] = a
        PROVE  FALSE
    <3>1. l - n \in 1..m
      BY <1>1
    <3> QED
      BY Zenon, <1>1, <1>2, <1>7, <2>3, <3>1 DEF In
  <2>4. /\ i \in 1..n \/ i \in (n + 1)..(n + m)
        /\ j \in 1..n \/ j \in (n + 1)..(n + m)
    BY <1>1
  <2> QED
    BY Zenon, <1>7, <2>1, <2>2, <2>3, <2>4
<1> QED
  BY Zenon, <1>1, <1>4, <1>5, <1>6, <1>7 DEF Once

(* What taking the head makes of the run queue. *)
LEMMA TailQueue ==
  ASSUME NEW q \in Seq(Actors), q # <<>>, NEW a, Once(q, a), Once(q, Head(q))
  PROVE  /\ Tail(q) \in Seq(Actors) /\ Head(q) \in Actors /\ In(q, Head(q))
         /\ In(Tail(q), a) <=> In(q, a) /\ a # Head(q)
         /\ Once(Tail(q), a)
<1> DEFINE n == Len(q)
           t == Tail(q)
<1>1. /\ n \in Nat /\ n >= 1 /\ DOMAIN q = 1..n /\ t \in Seq(Actors) /\ DOMAIN t = 1..(n - 1)
      /\ Head(q) = q[1] /\ Head(q) \in Actors
  BY DEF n, t
<1>2. \A i \in 1..(n - 1) : t[i] = q[i + 1] /\ i + 1 \in 1..n /\ i + 1 # 1
  BY DEF n, t
<1>3. 1 \in 1..n /\ \A i \in 1..n : i # 1 => i - 1 \in 1..(n - 1) /\ t[i - 1] = q[i]
  BY <1>1, <1>2
<1> HIDE DEF n, t
<1>4. In(q, Head(q))
  BY Zenon, <1>1, <1>3 DEF In
<1>5. In(t, a) => In(q, a) /\ a # Head(q)
  <2> SUFFICES ASSUME NEW i \in 1..(n - 1), t[i] = a
               PROVE  In(q, a) /\ a # Head(q)
    BY Zenon, <1>1 DEF In
  <2>1. q[i + 1] = a /\ i + 1 \in 1..n /\ i + 1 # 1
    BY Zenon, <1>2
  <2> QED
    BY Zenon, <1>1, <1>3, <2>1 DEF In, Once
<1>6. In(q, a) /\ a # Head(q) => In(t, a)
  BY Zenon, <1>1, <1>3 DEF In
<1>7. Once(t, a)
  <2> SUFFICES ASSUME NEW i \in 1..(n - 1), NEW j \in 1..(n - 1), t[i] = a, t[j] = a
               PROVE  i = j
    BY Zenon, <1>1 DEF Once
  <2>1. i + 1 = j + 1
    BY Zenon, <1>1, <1>2 DEF Once
  <2> QED
    BY <1>1, <2>1
<1> QED
  BY Zenon, <1>1, <1>4, <1>5, <1>6, <1>7 DEF t

(* A queue of one actor, and of none. *)
LEMMA ShortQueues ==
  ASSUME NEW a \in Actors, NEW b
  PROVE  /\ <<a>> \in Seq(Actors) /\ <<>> \in Seq(Actors)
         /\ In(<<a>>, b) <=> b = a
         /\ ~In(<<>>, b) /\ Once(<<a>>, b) /\ Once(<<>>, b)
BY DEF In, Once

(* A sequence that lists a set of actors has its members, each once. *)
LEMMA OrdersFacts ==
  ASSUME MtInv, NEW S, S \subseteq Actors, NEW es \in Orders(S), NEW b
  PROVE  /\ es \in Seq(Actors)
         /\ In(es, b) <=> b \in S
         /\ Once(es, b)
<1> DEFINE n == Cardinality(S)
<1>1. n \in Nat /\ \A c \in S : \E i \in 1..n : es[i] = c
  BY Zenon DEF MtInv, Counts, Sizes
<1>2. /\ es \in [1..n -> S] /\ DOMAIN es = 1..n
      /\ \A i, j \in 1..n : es[i] = es[j] => i = j
  BY Zenon DEF Orders
<1> HIDE DEF n
<1>3. es \in Seq(Actors)
  BY <1>1, <1>2
<1>4. In(es, b) <=> b \in S
  <2>1. \A i \in 1..n : es[i] \in S
    BY Zenon, <1>2
  <2> QED
    BY <1>1, <1>2, <2>1 DEF In
<1>5. Once(es, b)
  BY Zenon, <1>2 DEF Once
<1> QED
  BY Zenon, <1>3, <1>4, <1>5

(* One worker joins or leaves a counted set. *)
LEMMA CountOne ==
  ASSUME MtInv, NEW S, S \subseteq Workers, NEW w \in Workers
  PROVE  /\ Cardinality(S) \in Nat
         /\ w \notin S => Cardinality(S \cup {w}) = Cardinality(S) + 1
         /\ w \in S => Cardinality(S \ {w}) = Cardinality(S) - 1 /\ Cardinality(S) > 0
BY Zenon DEF MtInv, Counts, Sizes

-----------------------------------------------------------------------------
(* What one step of a thread leaves alone.                                  *)

(* The threads, the actors, the root and the controller are apart. *)
LEMMA Names ==
  /\ Ctl \in Threads /\ Ctl \notin Workers /\ Root \in Everyone /\ Root \notin Actors
  /\ \A w \in Workers : w \in Threads /\ w # Ctl /\ w # None
  /\ \A a \in Actors : a \in Everyone /\ a # Root /\ a # None
  /\ \A x \in Threads : x # Ctl => x \in Workers
  /\ \A a \in Everyone : a # Root => a \in Actors
  /\ Root # None /\ IsFiniteSet(Workers)
BY Zenon, ExecutorAssumption DEF Threads, Everyone

(* A thread that moves leaves the others where they are. *)
LEMMA MoveFacts ==
  ASSUME TypeInv, NEW x \in Threads, NEW l, pc' = [pc EXCEPT ![x] = l]
  PROVE  pc'[x] = l /\ \A y \in Threads \ {x} : pc'[y] = pc[y]
BY Zenon DEF TypeInv

(* A thread that moves to a place of the model keeps pc well typed. *)
LEMMA MoveType ==
  ASSUME TypeInv, NEW x \in Threads, NEW l \in WorkerPCs \cup CtlPCs, pc' = [pc EXCEPT ![x] = l]
  PROVE  pc' \in [Threads -> WorkerPCs \cup CtlPCs]
BY Zenon DEF TypeInv

(* A thread that takes a job leaves the other jobs alone. *)
LEMMA JobMove ==
  ASSUME TypeInv, NEW x \in Threads, NEW a \in Everyone \cup {None},
         job' = [job EXCEPT ![x] = a]
  PROVE  /\ job' \in [Threads -> Everyone \cup {None}] /\ job'[x] = a
         /\ \A y \in Threads \ {x} : job'[y] = job[y]
BY Zenon DEF TypeInv

(* The number of busy workers when one of them moves. *)
LEMMA BusyMove ==
  ASSUME MtInv, NEW w \in Workers, NEW l, pc' = [pc EXCEPT ![w] = l]
  PROVE  /\ busy \in Nat /\ Cardinality(BusyOnes') \in Nat
         /\ (pc[w] \in BusyPCs <=> l \in BusyPCs) => Cardinality(BusyOnes') = busy
         /\ pc[w] \notin BusyPCs /\ l \in BusyPCs => Cardinality(BusyOnes') = busy + 1
         /\ pc[w] \in BusyPCs /\ l \notin BusyPCs => Cardinality(BusyOnes') = busy - 1 /\ busy > 0
<1>1. pc'[w] = l /\ \A v \in Workers \ {w} : pc'[v] = pc[v]
  BY Zenon, MoveFacts, Names DEF MtInv
<1>2. BusyOnes' = IF l \in BusyPCs THEN BusyOnes \cup {w} ELSE BusyOnes \ {w}
  BY Zenon, <1>1 DEF BusyOnes
<1>3. w \in BusyOnes <=> pc[w] \in BusyPCs
  BY Zenon DEF BusyOnes
<1>4. BusyOnes \subseteq Workers /\ BusyOnes' \subseteq Workers
  BY Zenon DEF BusyOnes
<1>5. busy = Cardinality(BusyOnes)
  BY Zenon DEF MtInv, Counts
<1>6. /\ (pc[w] \in BusyPCs <=> l \in BusyPCs) => BusyOnes' = BusyOnes
  BY Zenon, <1>2, <1>3
<1> QED
  BY Zenon, <1>2, <1>3, <1>4, <1>5, <1>6, CountOne

(* The actor a stays where it is. *)
LEMMA PlacedFrame ==
  ASSUME NEW a \in Actors, Placed(a), status'[a] = status[a], owner'[a] = owner[a],
         In(queue', a) <=> In(queue, a), Once(queue', a),
         \A w \in Workers : owner[a] = w => (ready'[w] <=> ready[w]),
         \A x \in Threads : Runs(x, a)' <=> Runs(x, a)
  PROVE  Placed(a)'
<1>1. IsReady(a)' <=> IsReady(a)
  BY Zenon DEF IsReady
<1>2. IsRun(a)' <=> IsRun(a)
  BY Zenon DEF IsRun
<1> QED
  BY Zenon, <1>1, <1>2 DEF Placed

(* A thread that is not executing goes to another place where it is not.    *)
LEMMA RunsFrame ==
  ASSUME NEW x \in Threads, pc[x] \notin Executing, pc'[x] \notin Executing,
         \A y \in Threads \ {x} : pc'[y] = pc[y] /\ job'[y] = job[y],
         NEW a, NEW y \in Threads
  PROVE  Runs(y, a)' <=> Runs(y, a)
BY Zenon DEF Runs

(* A worker moves to l, and its job to b, outside a slice. *)
IdleMove(w, l, b) ==
    /\ pc' = [pc EXCEPT ![w] = l] /\ pc[w] \notin Executing \cup {"none"}
    /\ l \notin Executing \cup {"none", "after"}
    /\ role[w] = "spare" => l \in {"loop", "exit"}
    /\ \A a \in Actors : owner[a] = w => status[a] \notin Terminated
    /\ l = "exit" => shutdown
    /\ l \in BusyPCs => ~shutdown
    /\ Pumps' /\ pumping' \in BOOLEAN /\ busy' = Cardinality(BusyOnes')
    /\ job' = [job EXCEPT ![w] = b] /\ status' = status /\ mbox' = mbox /\ http' = http
    /\ effectful' = effectful /\ owner' = owner /\ queue' = queue /\ role' = role
    /\ ready' = ready /\ general' = general /\ readyBound' = readyBound /\ op' = op
    /\ rooted' = rooted /\ shutdown' = shutdown /\ running' \in BOOLEAN
    /\ running' => running

(* A worker moves between two places outside a slice; nothing else changes. *)
LEMMA IdleStep ==
  ASSUME MtInv, NEW w \in Workers, NEW l \in WorkerPCs, NEW b \in Everyone \cup {None},
         IdleMove(w, l, b)
  PROVE  MtInv'
<1> USE DEF IdleMove
<1>1. TypeInv
  BY Zenon DEF MtInv
<1>2. w \in Threads /\ w # Ctl /\ Ctl \in Threads
  BY Zenon, Names
<1>3. /\ pc'[w] = l /\ \A y \in Threads \ {w} : pc'[y] = pc[y] /\ job'[y] = job[y]
      /\ pc' \in [Threads -> WorkerPCs \cup CtlPCs] /\ job' \in [Threads -> Everyone \cup {None}]
  BY Zenon, <1>1, <1>2, MoveFacts, MoveType, JobMove
<1>4. TypeInv'
  BY Zenon, <1>1, <1>3, BusyMove DEF TypeInv
<1>5. CtlGood'
  BY Zenon, <1>2, <1>3 DEF MtInv, CtlGood
<1>6. \A a \in Everyone : Waits(a)'
  BY Zenon DEF MtInv, Waits, Parked
<1>7. ASSUME NEW a \in Actors PROVE Placed(a)'
  <2>1. \A x \in Threads : Runs(x, a)' <=> Runs(x, a)
    BY Zenon, <1>2, <1>3, RunsFrame
  <2>2. Placed(a) /\ Once(queue, a)
    BY Zenon DEF MtInv, Placed
  <2> QED
    BY Zenon, <2>1, <2>2, PlacedFrame
<1>8. ASSUME NEW a \in Actors PROVE Owned(a)'
  <2>1. Owned(a) /\ owner[a] \in Workers \cup {None}
    BY Zenon, <1>1, Names DEF MtInv, TypeInv
  <2> QED
    BY Zenon, <1>2, <1>3, <2>1, Names DEF Owned
<1>9. ASSUME NEW v \in Workers PROVE WorkerGood(v)'
  <2>1. WorkerGood(v) /\ v \in Threads
    BY Zenon, Names DEF MtInv
  <2>2. CASE v # w
    BY Zenon, <1>3, <2>1, <2>2 DEF WorkerGood
  <2>3. CASE v = w
    BY Zenon, <1>3, <2>1, <2>3 DEF WorkerGood
  <2> QED
    BY Zenon, <2>2, <2>3
<1>10. ASSUME NEW x \in Threads PROVE Serves(x)'
  <2>1. Serves(x)
    BY Zenon DEF MtInv
  <2>2. pc[x] = "service" <=> pc'[x] = "service"
    BY Zenon, <1>3 DEF Executing
  <2> QED
    BY Zenon, <2>1, <2>2 DEF Serves
<1>11. Counts'
  BY Zenon, <1>2, <1>3 DEF MtInv, Counts, Pool, ReadyOnes
<1> QED
  BY Zenon, <1>4, <1>5, <1>6, <1>7, <1>8, <1>9, <1>10, <1>11 DEF MtInv

(* Nothing but the wait sets and running changes. *)
Stutters ==
    /\ status' = status /\ mbox' = mbox /\ http' = http /\ effectful' = effectful
    /\ owner' = owner /\ queue' = queue /\ pumping' = pumping /\ role' = role
    /\ ready' = ready /\ general' = general /\ readyBound' = readyBound /\ busy' = busy
    /\ pc' = pc /\ job' = job /\ op' = op /\ rooted' = rooted /\ shutdown' = shutdown
    /\ running' \in BOOLEAN
    /\ running' => running

(* Only the wait sets change, or a run ends. *)
LEMMA StutterStep ==
  ASSUME MtInv, Stutters
  PROVE  MtInv'
<1> USE DEF Stutters
<1>1. TypeInv' /\ CtlGood' /\ Pumps' /\ Counts'
  BY Zenon DEF MtInv, TypeInv, CtlGood, Pumps, Counts, Pool, ReadyOnes, BusyOnes
<1>2. \A a \in Everyone : Waits(a)'
  BY Zenon DEF MtInv, Waits, Parked
<1>3. ASSUME NEW a \in Actors PROVE Placed(a)'
  <2>1. \A x \in Threads : Runs(x, a)' <=> Runs(x, a)
    BY Zenon DEF Runs
  <2>2. Placed(a) /\ Once(queue, a)
    BY Zenon DEF MtInv, Placed
  <2> QED
    BY Zenon, <2>1, <2>2, PlacedFrame
<1>4. \A a \in Actors : Owned(a)'
  BY Zenon DEF MtInv, Owned
<1>5. \A w \in Workers : WorkerGood(w)'
  BY Zenon DEF MtInv, WorkerGood
<1>6. \A x \in Threads : Serves(x)'
  BY Zenon DEF MtInv, Serves
<1> QED
  BY Zenon, <1>1, <1>2, <1>3, <1>4, <1>5, <1>6 DEF MtInv

(* A thread that does not move, as an assignment. *)
LEMMA SameJob ==
  ASSUME TypeInv, NEW x \in Threads
  PROVE  job[x] \in Everyone \cup {None} /\ job = [job EXCEPT ![x] = job[x]]
         /\ pc = [pc EXCEPT ![x] = pc[x]]
BY Zenon DEF TypeInv

(* Only the actor of a worker that is about to release it is terminated.    *)
LEMMA NotTerminated ==
  ASSUME MtInv, NEW w \in Workers, pc[w] # "after", NEW a \in Actors, owner[a] = w
  PROVE  status[a] \notin Terminated
BY Zenon, Names DEF MtInv, Owned

(* No worker starts or ends a poll. *)
LEMMA PumpsFrame ==
  ASSUME MtInv, NEW x \in Threads, NEW l, pc' = [pc EXCEPT ![x] = l],
         x = Ctl \/ (pc[x] # "pump" /\ l # "pump"), pumping' = pumping
  PROVE  Pumps' /\ pumping' \in BOOLEAN
<1>1. pc'[x] = l /\ \A v \in Threads \ {x} : pc'[v] = pc[v]
  BY Zenon, MoveFacts DEF MtInv
<1>2. \A v \in Workers : pc'[v] = "pump" <=> pc[v] = "pump"
  BY Zenon, <1>1, Names
<1> QED
  BY Zenon, <1>2 DEF MtInv, TypeInv, Pumps

(* A worker that goes to sleep, or ends the run before it does, keeps the   *)
(* invariant.                                                               *)
LEMMA RestSteps ==
  ASSUME MtInv, NEW w \in Workers, WorkerRest(w) \/ BoundIdle(w)
  PROVE  MtInv'
<1>1. running \in BOOLEAN
  BY Zenon DEF MtInv, TypeInv
<1>2. CASE running' = running
  BY Zenon, <1>1, <1>2, StutterStep
     DEF WorkerRest, BoundIdle, actors, pool, counters, flags, Stutters
<1>3. CASE running' = FALSE
  BY Zenon, <1>3, StutterStep
     DEF WorkerRest, BoundIdle, actors, pool, counters, flags, Stutters
<1>4. running' = running \/ running' = FALSE
  <2>1. CASE WorkerRest(w)
    BY Zenon, <2>1 DEF WorkerRest, flags
  <2>2. CASE BoundIdle(w)
    BY Zenon, <2>2 DEF BoundIdle
  <2> QED
    BY Zenon, <2>1, <2>2
<1> QED
  BY Zenon, <1>2, <1>3, <1>4

(* A worker that leaves its loop at shutdown keeps the invariant. *)
LEMMA ExitStep ==
  ASSUME MtInv, NEW w \in Workers, WorkerExit(w)
  PROVE  MtInv'
<1>1. /\ pc' = [pc EXCEPT ![w] = "exit"] /\ pc[w] = "loop" /\ shutdown
      /\ status' = status /\ mbox' = mbox /\ http' = http /\ effectful' = effectful
      /\ owner' = owner /\ queue' = queue /\ role' = role /\ ready' = ready
      /\ general' = general /\ readyBound' = readyBound /\ op' = op /\ rooted' = rooted
      /\ shutdown' = shutdown /\ running' = running /\ pumping' = pumping /\ job' = job
      /\ busy' = busy
  BY Zenon DEF WorkerExit, AtLoop, Goto, actors, pool, counters, flags
<1>2. w \in Threads /\ TypeInv /\ Pumps
  BY Zenon, Names DEF MtInv
<1>3. Pumps'
  BY <1>1, <1>2, PumpsFrame
<1>4. "exit" \in WorkerPCs /\ "exit" \notin Executing /\ "loop" \notin Executing
      /\ "exit" \notin BusyPCs /\ "loop" \notin BusyPCs
  BY DEF WorkerPCs, Executing, BusyPCs
<1>5. busy' = Cardinality(BusyOnes')
  BY Zenon, <1>1, <1>4, BusyMove
<1>6. \A a \in Actors : owner[a] = w => status[a] \notin Terminated
  BY <1>1, NotTerminated
<1>7. job[w] \in Everyone \cup {None} /\ job = [job EXCEPT ![w] = job[w]]
  BY Zenon, <1>2, SameJob
<1>8. pumping \in BOOLEAN /\ running \in BOOLEAN
  BY Zenon, <1>2 DEF TypeInv
<1>9. IdleMove(w, "exit", job[w])
  BY Zenon, <1>1, <1>3, <1>4, <1>5, <1>6, <1>7, <1>8 DEF IdleMove
<1> QED
  BY Zenon, <1>1, <1>4, <1>7, <1>9, IdleStep

(* How the places of a worker are divided: executing, busy, and at rest. *)
LEMMA Places ==
  /\ WorkerPCs \subseteq WorkerPCs \cup CtlPCs
  /\ {"loop", "probe", "pump", "pumped", "idle", "after", "exit", "slice"} \subseteq WorkerPCs
  /\ \A l \in {"none", "loop", "probe", "pump", "pumped", "idle", "after", "exit"} :
        l \notin Executing
  /\ {"none", "loop", "exit"} \cap BusyPCs = {}
  /\ {"probe", "pump", "pumped", "idle", "after", "slice", "service", "settle"} \subseteq BusyPCs
  /\ Executing \subseteq BusyPCs /\ "pump" \notin Executing
BY DEF WorkerPCs, CtlPCs, Executing, BusyPCs

(* A worker that goes to look at the transfers keeps the invariant. *)
LEMMA ProbeStep ==
  ASSUME MtInv, NEW w \in Workers, GeneralProbe(w)
  PROVE  MtInv'
<1>1. /\ pc' = [pc EXCEPT ![w] = "probe"] /\ pc[w] = "loop" /\ ~shutdown
      /\ role[w] = "general" /\ busy' = busy + 1
      /\ status' = status /\ mbox' = mbox /\ http' = http /\ effectful' = effectful
      /\ owner' = owner /\ queue' = queue /\ role' = role /\ ready' = ready
      /\ general' = general /\ readyBound' = readyBound /\ op' = op /\ rooted' = rooted
      /\ shutdown' = shutdown /\ running' = running /\ pumping' = pumping /\ job' = job
  BY Zenon DEF GeneralProbe, AtLoop, Goto, actors, pool, flags
<1>2. w \in Threads /\ TypeInv
  BY Zenon, Names DEF MtInv
<1>3. Pumps' /\ pumping' \in BOOLEAN
  BY <1>1, <1>2, PumpsFrame
<1>4. "probe" \in WorkerPCs /\ "probe" \notin Executing /\ "loop" \notin Executing
      /\ "probe" \in BusyPCs /\ "loop" \notin BusyPCs
  BY Places
<1>5. busy' = Cardinality(BusyOnes')
  BY Zenon, <1>1, <1>4, BusyMove
<1>6. \A a \in Actors : owner[a] = w => status[a] \notin Terminated
  BY <1>1, NotTerminated
<1>7. job[w] \in Everyone \cup {None} /\ job = [job EXCEPT ![w] = job[w]]
  BY Zenon, <1>2, SameJob
<1>8. running \in BOOLEAN
  BY Zenon, <1>2 DEF TypeInv
<1>9. IdleMove(w, "probe", job[w])
  BY Zenon, <1>1, <1>3, <1>4, <1>5, <1>6, <1>7, <1>8 DEF IdleMove
<1> QED
  BY Zenon, <1>1, <1>4, <1>7, <1>9, IdleStep

(* er_http_mt_pump: becoming the one pump, or not, keeps the invariant. *)
LEMMA PumpStep ==
  ASSUME MtInv, NEW w \in Workers, Pump(w)
  PROVE  MtInv'
<1> DEFINE l == IF ~pumping /\ HttpOutstanding THEN "pump" ELSE "idle"
<1>1. /\ pc' = [pc EXCEPT ![w] = l] /\ pc[w] = "probe" /\ busy' = busy
      /\ pumping' = (pumping \/ l = "pump")
      /\ status' = status /\ mbox' = mbox /\ http' = http /\ effectful' = effectful
      /\ owner' = owner /\ queue' = queue /\ role' = role /\ ready' = ready
      /\ general' = general /\ readyBound' = readyBound /\ op' = op /\ rooted' = rooted
      /\ shutdown' = shutdown /\ running' = running /\ job' = job
  <2>1. /\ pc[w] = "probe" /\ busy' = busy
        /\ status' = status /\ mbox' = mbox /\ http' = http /\ effectful' = effectful
        /\ owner' = owner /\ queue' = queue /\ role' = role /\ ready' = ready
        /\ general' = general /\ readyBound' = readyBound /\ op' = op /\ rooted' = rooted
        /\ shutdown' = shutdown /\ running' = running /\ job' = job
    BY Zenon DEF Pump, actors, pool, flags, counters
  <2>2. pumping \in BOOLEAN
    BY Zenon DEF MtInv, TypeInv
  <2>3. CASE ~pumping /\ HttpOutstanding
    <3>1. pc' = [pc EXCEPT ![w] = "pump"] /\ pumping' = TRUE /\ l = "pump"
      BY Zenon, <2>3 DEF Pump, Goto
    <3> QED
      BY Zenon, <2>1, <3>1
  <2>4. CASE ~(~pumping /\ HttpOutstanding)
    <3>1. pc' = [pc EXCEPT ![w] = "idle"] /\ pumping' = pumping /\ l = "idle"
      BY Zenon, <2>4 DEF Pump, Goto
    <3>2. pumping' = (pumping \/ l = "pump")
      BY <2>2, <3>1
    <3> QED
      BY Zenon, <2>1, <3>1, <3>2
  <2> QED
    BY Zenon, <2>3, <2>4
<1>2. w \in Threads /\ TypeInv /\ WorkerGood(w) /\ Pumps
  BY Zenon, Names DEF MtInv
<1>3. l \in {"pump", "idle"} /\ (l = "pump" => ~pumping)
  BY Zenon
<1> HIDE DEF l
<1>4. /\ l \in WorkerPCs /\ l \notin Executing \cup {"none", "after", "exit"} /\ l \in BusyPCs
      /\ "probe" \notin Executing \cup {"none", "after"} /\ "probe" \in BusyPCs
  BY <1>3, Places
<1>5. Pumps' /\ pumping' \in BOOLEAN
  <2>1. pc'[w] = l /\ \A v \in Workers \ {w} : pc'[v] = pc[v]
    BY Zenon, <1>1, <1>2, MoveFacts, Names
  <2>2. pumping \in BOOLEAN
    BY Zenon, <1>2 DEF TypeInv
  <2>3. CASE l = "pump"
    <3>1. \A v \in Workers : pc'[v] = "pump" <=> v = w
      BY Zenon, <1>2, <1>3, <2>1, <2>3 DEF Pumps
    <3>2. pumping' = TRUE
      BY <1>1, <2>3
    <3> QED
      BY Zenon, <3>1, <3>2 DEF Pumps
  <2>4. CASE l # "pump"
    <3>1. pumping' = pumping
      BY <1>1, <2>2, <2>4
    <3> QED
      BY <1>1, <1>2, <2>4, <3>1, PumpsFrame
  <2> QED
    BY Zenon, <2>3, <2>4
<1>6. busy' = Cardinality(BusyOnes')
  BY Zenon, <1>1, <1>4, BusyMove
<1>7. \A a \in Actors : owner[a] = w => status[a] \notin Terminated
  BY <1>1, NotTerminated
<1>8. /\ job[w] \in Everyone \cup {None} /\ job = [job EXCEPT ![w] = job[w]]
      /\ running \in BOOLEAN
  BY Zenon, <1>2, SameJob DEF TypeInv
<1>9. ~shutdown /\ role[w] # "spare"
  BY <1>1, <1>2, <1>4 DEF WorkerGood
<1>10. IdleMove(w, l, job[w])
  BY Zenon, <1>1, <1>4, <1>5, <1>6, <1>7, <1>8, <1>9 DEF IdleMove
<1> QED
  BY Zenon, <1>1, <1>4, <1>8, <1>10, IdleStep

(* A worker that is back from the transfers keeps the invariant. *)
LEMMA ProbeEndStep ==
  ASSUME MtInv, NEW w \in Workers, ProbeEnd(w)
  PROVE  MtInv'
<1>1. /\ pc' = [pc EXCEPT ![w] = "loop"] /\ pc[w] \in {"pumped", "idle"} /\ busy' = busy - 1
      /\ status' = status /\ mbox' = mbox /\ http' = http /\ effectful' = effectful
      /\ owner' = owner /\ queue' = queue /\ role' = role /\ ready' = ready
      /\ general' = general /\ readyBound' = readyBound /\ op' = op /\ rooted' = rooted
      /\ shutdown' = shutdown /\ pumping' = pumping /\ job' = job
      /\ running' = running \/ running' = FALSE
  BY Zenon DEF ProbeEnd, Goto, actors, pool
<1>2. w \in Threads /\ TypeInv
  BY Zenon, Names DEF MtInv
<1>3. Pumps' /\ pumping' \in BOOLEAN
  BY <1>1, <1>2, PumpsFrame
<1>4. /\ pc[w] \notin Executing \cup {"none"} /\ pc[w] \in BusyPCs /\ pc[w] # "after"
      /\ "loop" \in WorkerPCs /\ "loop" \notin Executing /\ "loop" \notin BusyPCs
  BY <1>1, Places
<1>5. busy' = Cardinality(BusyOnes')
  BY Zenon, <1>1, <1>4, BusyMove
<1>6. \A a \in Actors : owner[a] = w => status[a] \notin Terminated
  BY <1>4, NotTerminated
<1>7. job[w] \in Everyone \cup {None} /\ job = [job EXCEPT ![w] = job[w]]
  BY Zenon, <1>2, SameJob
<1>8. running' \in BOOLEAN /\ (running' => running)
  <2>1. running \in BOOLEAN
    BY Zenon, <1>2 DEF TypeInv
  <2>2. CASE running' = running
    BY Zenon, <2>1, <2>2
  <2>3. CASE running' = FALSE
    BY Zenon, <2>3
  <2> QED
    BY Zenon, <1>1, <2>2, <2>3
<1>9. IdleMove(w, "loop", job[w])
  BY Zenon, <1>1, <1>3, <1>4, <1>5, <1>6, <1>7, <1>8 DEF IdleMove
<1> QED
  BY Zenon, <1>4, <1>7, <1>9, IdleStep

(* The actor a stays bound as it is. *)
LEMMA OwnedFrame ==
  ASSUME NEW a \in Actors, Owned(a), NEW w, owner[a] = w, owner'[a] = w,
         w # None => /\ role'[w] = role[w] /\ pc'[w] = pc[w] /\ job'[w] = job[w]
                     /\ \A c \in Actors : owner'[c] = w => owner[c] = w,
         effectful[a] => effectful'[a], status'[a] \in Terminated => status[a] \in Terminated
  PROVE  Owned(a)'
<1> SUFFICES ASSUME w # None
             PROVE  /\ role'[w] = "bound" /\ effectful'[a]
                    /\ \A c \in Actors : owner'[c] = w => c = a
                    /\ status'[a] \in Terminated => pc'[w] = "after" /\ job'[w] = a
  BY Zenon DEF Owned
<1>1. /\ role[w] = "bound" /\ effectful[a]
      /\ \A c \in Actors : owner[c] = w => c = a
      /\ status[a] \in Terminated => pc[w] = "after" /\ job[w] = a
  BY Zenon DEF Owned
<1> QED
  BY Zenon, <1>1

(* The worker w gives its actor b up and becomes a spare. *)
Releases(w, b) ==
    /\ pc[w] = "after" /\ b = job[w] /\ owner[b] = w /\ status[b] \in Terminated
    /\ owner' = [owner EXCEPT ![b] = None] /\ role' = [role EXCEPT ![w] = "spare"]
    /\ pc' = [pc EXCEPT ![w] = "loop"] /\ job' = [job EXCEPT ![w] = None]
    /\ busy' = busy - 1 /\ status' = status /\ mbox' = mbox /\ http' = http
    /\ effectful' = effectful /\ queue' = queue /\ pumping' = pumping /\ ready' = ready
    /\ general' = general /\ readyBound' = readyBound /\ op' = op /\ rooted' = rooted
    /\ shutdown' = shutdown /\ running' \in BOOLEAN
    /\ running' => running

(* A worker lets go of its terminated actor. *)
LEMMA ReleaseStep ==
  ASSUME MtInv, NEW w \in Workers, NEW b \in Actors, Releases(w, b)
  PROVE  MtInv'
<1> USE DEF Releases
<1>1. TypeInv /\ w \in Threads /\ w # Ctl /\ Ctl \in Threads /\ WorkerGood(w)
  BY Zenon, Names DEF MtInv
<1>2. /\ pc'[w] = "loop" /\ \A y \in Threads \ {w} : pc'[y] = pc[y] /\ job'[y] = job[y]
      /\ job' \in [Threads -> Everyone \cup {None}]
  BY Zenon, <1>1, MoveFacts, JobMove
<1>3. /\ "loop" \in WorkerPCs \cup CtlPCs /\ "loop" \in WorkerPCs /\ "loop" \notin Executing
      /\ "loop" \notin BusyPCs /\ "after" \in BusyPCs /\ "after" \notin Executing
      /\ "spare" \in Roles /\ "runnable" \notin Terminated
  BY Places DEF Roles, Terminated
<1>4. pc' \in [Threads -> WorkerPCs \cup CtlPCs]
  BY Zenon, <1>1, <1>3, MoveType
<1>5. /\ owner' \in [Everyone -> Workers \cup {None}] /\ owner'[b] = None
      /\ \A a \in Everyone \ {b} : owner'[a] = owner[a]
      /\ role' \in [Workers -> Roles] /\ role'[w] = "spare"
      /\ \A v \in Workers \ {w} : role'[v] = role[v]
  BY Zenon, <1>1, <1>3, Names DEF TypeInv
<1>6. Placed(b) /\ Owned(b) /\ ~In(queue, b) /\ ~IsReady(b) /\ ~IsRun(b)
  BY Zenon, <1>3 DEF MtInv, Placed
<1>7. ~ready[w]
  BY Zenon, <1>6 DEF IsReady
<1>8. \A a \in Actors : owner[a] = w => a = b
  BY Zenon, <1>6, Names DEF Owned
<1>9. role[w] = "bound"
  BY Zenon, <1>6, Names DEF Owned
<1>10. busy' = Cardinality(BusyOnes') /\ busy' \in Nat
  BY Zenon, <1>3, BusyMove
<1>11. TypeInv'
  BY Zenon, <1>1, <1>2, <1>4, <1>5, <1>10 DEF TypeInv
<1>12. CtlGood'
  <2>1. owner'[Root] = owner[Root]
    BY Zenon, <1>5, Names
  <2> QED
    BY Zenon, <1>1, <1>2, <2>1 DEF MtInv, CtlGood
<1>13. \A a \in Everyone : Waits(a)'
  BY Zenon DEF MtInv, Waits, Parked
<1>14. ASSUME NEW a \in Actors PROVE Placed(a)'
  <2>1. \A x \in Threads : Runs(x, a)' <=> Runs(x, a)
    BY Zenon, <1>1, <1>2, <1>3, RunsFrame
  <2>2. Placed(a) /\ Once(queue, a) /\ a \in Everyone
    BY Zenon, Names DEF MtInv, Placed
  <2>3. CASE a = b
    <3>1. ~IsReady(a)'
      BY Zenon, <1>5, <2>3, Names DEF IsReady
    <3>2. ~IsRun(a)'
      BY Zenon, <1>6, <2>1, <2>3 DEF IsRun
    <3>3. status'[a] # "runnable"
      BY Zenon, <1>3, <2>3
    <3>4. \A x \in Threads : ~Runs(x, a)'
      BY Zenon, <3>2 DEF IsRun
    <3> QED
      BY Zenon, <1>6, <2>2, <2>3, <3>1, <3>2, <3>3, <3>4 DEF Placed
  <2>4. CASE a # b
    BY Zenon, <1>5, <2>1, <2>2, <2>4, PlacedFrame
  <2> QED
    BY Zenon, <2>3, <2>4
<1>15. ASSUME NEW a \in Actors PROVE Owned(a)'
  <2>1. CASE a = b
    BY Zenon, <1>5, <2>1 DEF Owned
  <2>2. CASE a # b
    <3>1. /\ Owned(a) /\ owner'[a] = owner[a] /\ owner[a] # w /\ owner[a] \in Workers \cup {None}
          /\ \A c \in Actors : owner'[c] = owner[c] \/ owner'[c] = None
      BY Zenon, <1>1, <1>5, <1>8, <2>2, Names DEF MtInv, TypeInv
    <3>2. owner[a] # None => role'[owner[a]] = role[owner[a]] /\ owner[a] \in Threads \ {w}
      BY Zenon, <1>5, <3>1, Names
    <3>3. owner[a] # None => /\ role'[owner[a]] = role[owner[a]] /\ pc'[owner[a]] = pc[owner[a]]
                             /\ job'[owner[a]] = job[owner[a]]
                             /\ \A c \in Actors : owner'[c] = owner[a] => owner[c] = owner[a]
      BY Zenon, <1>2, <3>1, <3>2
    <3> QED
      BY Zenon, <3>1, <3>3, OwnedFrame
  <2> QED
    BY Zenon, <2>1, <2>2
<1>16. ASSUME NEW v \in Workers PROVE WorkerGood(v)'
  <2>1. WorkerGood(v) /\ v \in Threads
    BY Zenon, Names DEF MtInv
  <2>2. CASE v = w
    BY <1>2, <1>3, <1>5, <1>7, <2>2 DEF WorkerGood
  <2>3. CASE v # w
    <3>1. pc'[v] = pc[v] /\ job'[v] = job[v] /\ role'[v] = role[v]
      BY Zenon, <1>2, <1>5, <2>1, <2>3
    <3>2. \A a \in Actors : owner[a] = v => owner'[a] = v
      BY Zenon, <1>5, <2>3, Names
    <3>3. \A a \in Everyone : owner[a] = v => owner'[a] = v
      BY Zenon, <1>5, <2>3
    <3>4. pc[v] \in Executing => job[v] \in Everyone
      BY Zenon, <2>1, Names DEF WorkerGood
    <3> QED
      BY Zenon, <2>1, <3>1, <3>2, <3>3, <3>4 DEF WorkerGood
  <2> QED
    BY Zenon, <2>2, <2>3
<1>17. ASSUME NEW x \in Threads PROVE Serves(x)'
  <2>1. Serves(x)
    BY Zenon DEF MtInv
  <2>2. pc[x] = "service" <=> pc'[x] = "service"
    BY Zenon, <1>2
  <2> QED
    BY Zenon, <2>1, <2>2 DEF Serves
<1>18. Pumps'
  BY Zenon, <1>1, PumpsFrame
<1>19. Counts'
  <2>1. Pool' = Pool
    <3>1. \A v \in Workers : role'[v] = "general" <=> role[v] = "general"
      BY Zenon, <1>5, <1>9
    <3> QED
      BY Zenon, <3>1 DEF Pool
  <2>2. ReadyOnes' = ReadyOnes
    BY Zenon DEF ReadyOnes
  <2>3. pc'[Ctl] = pc[Ctl]
    BY Zenon, <1>1, <1>2
  <2> QED
    BY Zenon, <1>10, <2>1, <2>2, <2>3 DEF MtInv, Counts
<1> QED
  BY Zenon, <1>11, <1>12, <1>13, <1>14, <1>15, <1>16, <1>17, <1>18, <1>19 DEF MtInv

(* The end of a slice under the mutex, with or without a release, keeps the *)
(* invariant.                                                               *)
LEMMA AfterSliceStep ==
  ASSUME MtInv, NEW w \in Workers, AfterSlice(w)
  PROVE  MtInv'
<1> DEFINE b == job[w]
<1>1. /\ pc' = [pc EXCEPT ![w] = "loop"] /\ pc[w] = "after" /\ busy' = busy - 1
      /\ status' = status /\ mbox' = mbox /\ http' = http /\ effectful' = effectful
      /\ queue' = queue /\ ready' = ready
      /\ general' = general /\ readyBound' = readyBound /\ op' = op /\ rooted' = rooted
      /\ shutdown' = shutdown /\ pumping' = pumping /\ job' = [job EXCEPT ![w] = None]
      /\ running' = running \/ running' = FALSE
  BY Zenon DEF AfterSlice, Goto, MaybeComplete
<1>2. w \in Threads /\ TypeInv /\ WorkerGood(w) /\ running \in BOOLEAN
  BY Zenon, Names DEF MtInv, TypeInv
<1>3. b \in Actors
  BY Zenon, <1>1, <1>2 DEF WorkerGood
<1>4. CASE owner[b] = w /\ status[b] \in Terminated
  <2>1. owner' = [owner EXCEPT ![b] = None] /\ role' = [role EXCEPT ![w] = "spare"]
    BY Zenon, <1>4 DEF AfterSlice
  <2>2. CASE running' = running
    BY Zenon, <1>1, <1>2, <1>3, <1>4, <2>1, <2>2, ReleaseStep DEF Releases
  <2>3. CASE running' = FALSE
    BY Zenon, <1>1, <1>3, <1>4, <2>1, <2>3, ReleaseStep DEF Releases
  <2> QED
    BY Zenon, <1>1, <2>2, <2>3
<1>5. CASE ~(owner[b] = w /\ status[b] \in Terminated)
  <2>1. owner' = owner /\ role' = role
    BY Zenon, <1>5 DEF AfterSlice
  <2>2. Pumps' /\ pumping' \in BOOLEAN
    BY <1>1, <1>2, PumpsFrame
  <2>3. /\ "after" \notin Executing \cup {"none"} /\ "after" \in BusyPCs
        /\ "loop" \in WorkerPCs /\ "loop" \notin Executing /\ "loop" \notin BusyPCs
    BY Places
  <2>4. busy' = Cardinality(BusyOnes')
    BY Zenon, <1>1, <2>3, BusyMove
  <2>5. \A a \in Actors : owner[a] = w => status[a] \notin Terminated
    <3> SUFFICES ASSUME NEW a \in Actors, owner[a] = w, status[a] \in Terminated
                 PROVE  FALSE
      BY Zenon
    <3>1. Owned(a) /\ w # None
      BY Zenon, Names DEF MtInv
    <3>2. job[w] = a
      BY Zenon, <3>1 DEF Owned
    <3> QED
      BY Zenon, <1>5, <3>2
  <2>6. CASE running' = running
    BY Zenon, <1>1, <1>2, <2>1, <2>2, <2>3, <2>4, <2>5, <2>6, IdleStep DEF IdleMove
  <2>7. CASE running' = FALSE
    BY Zenon, <1>1, <2>1, <2>2, <2>3, <2>4, <2>5, <2>7, IdleStep DEF IdleMove
  <2> QED
    BY Zenon, <1>1, <2>6, <2>7
<1> QED
  BY Zenon, <1>4, <1>5

-----------------------------------------------------------------------------
(* The start of a slice, and binding.                                       *)

(* The worker w starts a slice of a, which it has from the queue or its flag. *)
TakesUp(w, a) ==
    /\ pc[w] = "loop" /\ ~shutdown /\ role[w] \in {"general", "bound"}
    /\ status[a] = "runnable" /\ ~IsRun(a)
    /\ role[w] = "bound" \/ effectful[a] => owner[a] = w
    /\ pc' = [pc EXCEPT ![w] = "slice"] /\ job' = [job EXCEPT ![w] = a]
    /\ busy' = busy + 1 /\ queue' \in Seq(Actors)
    /\ \A b \in Actors : (In(queue', b) <=> In(queue, b) /\ b # a) /\ Once(queue', b)
    /\ ready' \in [Workers -> BOOLEAN]
    /\ \A v \in Workers : ready'[v] <=> ready[v] /\ owner[a] # v
    /\ readyBound' = Cardinality(ReadyOnes') /\ status' = status /\ mbox' = mbox
    /\ http' = http /\ effectful' = effectful /\ owner' = owner /\ pumping' = pumping
    /\ role' = role /\ general' = general /\ op' = op /\ rooted' = rooted
    /\ shutdown' = shutdown /\ running' = running

(* A worker takes the runnable actor a from the queue or off its ready flag. *)
LEMMA RunStep ==
  ASSUME MtInv, NEW w \in Workers, NEW a \in Actors, TakesUp(w, a)
  PROVE  MtInv'
<1> USE DEF TakesUp
<1>1. TypeInv /\ w \in Threads /\ w # Ctl /\ Ctl \in Threads /\ WorkerGood(w) /\ a \in Everyone
  BY Zenon, Names DEF MtInv
<1>2. /\ pc'[w] = "slice" /\ job'[w] = a
      /\ \A y \in Threads \ {w} : pc'[y] = pc[y] /\ job'[y] = job[y]
      /\ job' \in [Threads -> Everyone \cup {None}]
  <2>1. pc'[w] = "slice" /\ \A y \in Threads \ {w} : pc'[y] = pc[y]
    BY Zenon, <1>1, MoveFacts
  <2>2. a \in Everyone \cup {None}
    BY Zenon, <1>1
  <2> QED
    BY Zenon, <1>1, <2>1, <2>2, JobMove
<1>3. /\ "slice" \in WorkerPCs \cup CtlPCs /\ "slice" \in WorkerPCs /\ "slice" \in Executing
      /\ "loop" \notin BusyPCs /\ "slice" \in BusyPCs /\ "loop" \notin Executing
  BY Places DEF Executing
<1>4. pc' \in [Threads -> WorkerPCs \cup CtlPCs]
  BY Zenon, <1>1, <1>3, MoveType
<1>5. busy' = Cardinality(BusyOnes') /\ busy' \in Nat
  BY Zenon, <1>3, BusyMove
<1>6. ReadyOnes' \subseteq Workers
  BY Zenon DEF ReadyOnes
<1>7. TypeInv'
  BY Zenon, <1>1, <1>2, <1>4, <1>5, <1>6, CountOne DEF TypeInv
<1>8. CtlGood'
  BY Zenon, <1>1, <1>2 DEF MtInv, CtlGood
<1>9. \A b \in Everyone : Waits(b)'
  BY Zenon DEF MtInv, Waits, Parked
<1>10. ASSUME NEW b \in Actors PROVE Placed(b)'
  <2>1. Placed(b)
    BY Zenon DEF MtInv
  <2>2. CASE b = a
    <3>1. \A x \in Threads : Runs(x, b)' <=> x = w
      <4> SUFFICES ASSUME NEW x \in Threads
                   PROVE  Runs(x, b)' <=> x = w
        BY Zenon
      <4>1. CASE x = w
        <5>1. pc'[x] \in Executing /\ job'[x] = b
          BY <1>2, <1>3, <2>2, <4>1
        <5> QED
          BY Zenon, <4>1, <5>1 DEF Runs
      <4>2. CASE x # w
        <5>1. pc'[x] = pc[x] /\ job'[x] = job[x] /\ ~Runs(x, a)
          BY Zenon, <1>2, <4>2 DEF IsRun
        <5> QED
          BY Zenon, <2>2, <4>2, <5>1 DEF Runs
      <4> QED
        BY Zenon, <4>1, <4>2
    <3>2. IsRun(b)'
      BY Zenon, <1>1, <3>1 DEF IsRun
    <3>3. ~In(queue', b) /\ ~IsReady(b)'
      BY Zenon, <2>2 DEF IsReady
    <3> QED
      BY Zenon, <2>2, <3>1, <3>2, <3>3 DEF Placed
  <2>3. CASE b # a
    <3>1. \A x \in Threads : Runs(x, b)' <=> Runs(x, b)
      <4> SUFFICES ASSUME NEW x \in Threads
                   PROVE  Runs(x, b)' <=> Runs(x, b)
        BY Zenon
      <4>1. CASE x = w
        BY Zenon, <1>2, <1>3, <2>3, <4>1 DEF Runs
      <4>2. CASE x # w
        BY Zenon, <1>2, <4>2 DEF Runs
      <4> QED
        BY Zenon, <4>1, <4>2
    <3>2. \A v \in Workers : owner[b] = v => (ready'[v] <=> ready[v])
      <4> SUFFICES ASSUME NEW v \in Workers, owner[b] = v, owner[a] = v
                   PROVE  FALSE
        BY Zenon
      <4>1. Owned(b) /\ v # None
        BY Zenon, Names DEF MtInv
      <4> QED
        BY Zenon, <2>3, <4>1 DEF Owned
    <3> QED
      BY Zenon, <2>1, <2>3, <3>1, <3>2, PlacedFrame
  <2> QED
    BY Zenon, <2>2, <2>3
<1>11. ASSUME NEW b \in Actors PROVE Owned(b)'
  <2>1. Owned(b) /\ owner[b] \in Workers \cup {None} /\ b \in Everyone
    BY Zenon, <1>1, Names DEF MtInv, TypeInv
  <2>2. CASE owner[b] = w
    <3>1. status[b] \notin Terminated
      BY <2>2, NotTerminated
    <3> QED
      BY Zenon, <2>1, <2>2, <3>1 DEF Owned
  <2>3. CASE owner[b] # w
    <3>1. owner[b] # None => /\ role'[owner[b]] = role[owner[b]] /\ pc'[owner[b]] = pc[owner[b]]
                             /\ job'[owner[b]] = job[owner[b]]
                             /\ \A c \in Actors : owner'[c] = owner[b] => owner[c] = owner[b]
      BY Zenon, <1>2, <2>1, <2>3, Names
    <3> QED
      BY Zenon, <2>1, <3>1, OwnedFrame
  <2> QED
    BY Zenon, <2>2, <2>3
<1>12. ASSUME NEW v \in Workers PROVE WorkerGood(v)'
  <2>1. WorkerGood(v) /\ v \in Threads
    BY Zenon, Names DEF MtInv
  <2>2. CASE v # w
    BY Zenon, <1>2, <2>1, <2>2 DEF WorkerGood
  <2>3. CASE v = w
    <3>1. role[w] # "none" /\ role[w] # "spare"
      BY Zenon
    <3> QED
      BY <1>2, <1>3, <2>1, <2>3, <3>1 DEF WorkerGood
  <2> QED
    BY Zenon, <2>2, <2>3
<1>13. ASSUME NEW x \in Threads PROVE Serves(x)'
  <2>1. Serves(x)
    BY Zenon DEF MtInv
  <2>2. pc[x] = "service" <=> pc'[x] = "service"
    BY Zenon, <1>2
  <2> QED
    BY Zenon, <2>1, <2>2 DEF Serves
<1>14. Pumps'
  BY Zenon, <1>1, PumpsFrame
<1>15. Counts'
  BY Zenon, <1>1, <1>2, <1>5 DEF MtInv, Counts, Pool
<1> QED
  BY Zenon, <1>7, <1>8, <1>9, <1>10, <1>11, <1>12, <1>13, <1>14, <1>15 DEF MtInv

(* A bound worker that takes up its own actor keeps the invariant. *)
LEMMA BoundRunStep ==
  ASSUME MtInv, NEW w \in Workers, BoundRun(w)
  PROVE  MtInv'
<1>1. /\ pc' = [pc EXCEPT ![w] = "slice"] /\ pc[w] = "loop" /\ ~shutdown /\ role[w] = "bound"
      /\ ready[w] /\ ready' = [ready EXCEPT ![w] = FALSE] /\ readyBound' = readyBound - 1
      /\ busy' = busy + 1 /\ queue' = queue
      /\ status' = status /\ mbox' = mbox /\ http' = http /\ effectful' = effectful
      /\ owner' = owner /\ role' = role /\ general' = general /\ op' = op /\ rooted' = rooted
      /\ shutdown' = shutdown /\ running' = running /\ pumping' = pumping
  BY Zenon DEF BoundRun, AtLoop, Goto, actors, flags
<1>2. PICK a \in Actors : owner[a] = w /\ status[a] = "runnable" /\ job' = [job EXCEPT ![w] = a]
  BY Zenon DEF BoundRun, BoundTo
<1>3. IsReady(a)
  BY Zenon, <1>1, <1>2 DEF IsReady
<1>4. Placed(a) /\ ~IsRun(a) /\ ~In(queue, a)
  BY Zenon, <1>2, <1>3, Names DEF MtInv, Placed
<1>5. \A b \in Actors : (In(queue, b) <=> In(queue, b) /\ b # a) /\ Once(queue, b)
  BY Zenon, <1>4 DEF MtInv, Placed
<1>6. ready \in [Workers -> BOOLEAN] /\ queue \in Seq(Actors)
  BY Zenon DEF MtInv, TypeInv
<1>7. /\ ready' \in [Workers -> BOOLEAN]
      /\ \A v \in Workers : ready'[v] <=> ready[v] /\ owner[a] # v
  BY Zenon, <1>1, <1>2, <1>6
<1>8. readyBound' = Cardinality(ReadyOnes')
  <2>1. ReadyOnes' = ReadyOnes \ {w} /\ w \in ReadyOnes /\ ReadyOnes \subseteq Workers
    BY Zenon, <1>1, <1>2, <1>7 DEF ReadyOnes
  <2>2. readyBound = Cardinality(ReadyOnes)
    BY Zenon DEF MtInv, Counts
  <2> QED
    BY Zenon, <1>1, <2>1, <2>2, CountOne
<1> QED
  BY Zenon, <1>1, <1>2, <1>4, <1>5, <1>6, <1>7, <1>8, RunStep DEF TakesUp

(* The worker w starts or goes on with a slice of a, bound to it from now on. *)
Binds(w, a, v, pcs) ==
    /\ role[w] = "general" /\ role[v] \in {"spare", "none"} /\ ~shutdown
    /\ pc[w] = "loop" \/ (pc[w] = "slice" /\ job[w] = a)
    /\ status[a] = "runnable" /\ owner[a] = None
    /\ \A y \in Threads : Runs(y, a) => y = w
    /\ owner' = [owner EXCEPT ![a] = w]
    /\ role' = [role EXCEPT ![w] = "bound", ![v] = "general"]
    /\ pcs = [pc EXCEPT ![w] = "slice"] /\ pc' = [pcs EXCEPT ![v] = "loop"]
    /\ job' = [job EXCEPT ![w] = a]
    /\ busy' = IF pc[w] = "slice" THEN busy ELSE busy + 1
    /\ queue' \in Seq(Actors)
    /\ \A b \in Actors : (In(queue', b) <=> In(queue, b) /\ b # a) /\ Once(queue', b)
    /\ effectful' \in [Actors -> BOOLEAN] /\ effectful'[a]
    /\ \A b \in Actors \ {a} : effectful'[b] = effectful[b]
    /\ status' = status /\ mbox' = mbox /\ http' = http /\ pumping' = pumping
    /\ ready' = ready /\ readyBound' = readyBound /\ general' = general /\ op' = op
    /\ rooted' = rooted /\ shutdown' = shutdown /\ running' = running

(* er_mt_bind_locked: w keeps a, and v takes its place in the pool. *)
LEMMA BindStep ==
  ASSUME MtInv, NEW w \in Workers, NEW a \in Actors, NEW v \in Workers, NEW pcs,
         Binds(w, a, v, pcs)
  PROVE  MtInv'
<1> USE DEF Binds
<1>1. /\ TypeInv /\ w \in Threads /\ w # Ctl /\ Ctl \in Threads /\ WorkerGood(w)
      /\ a \in Everyone /\ v \in Threads /\ v # Ctl /\ w # None
      /\ a \in Everyone \cup {None}
  BY Zenon, Names DEF MtInv
<1>2. v # w /\ role[v] # "general" /\ role[v] # "bound"
  BY Zenon
<1>3. pc[v] \in {"loop", "none"}
  <2>1. WorkerGood(v)
    BY Zenon DEF MtInv
  <2> QED
    BY Zenon, <2>1 DEF WorkerGood
<1>4. /\ {"slice", "loop"} \subseteq WorkerPCs /\ "slice" \in Executing
      /\ {"loop", "none"} \cap BusyPCs = {} /\ "slice" \in BusyPCs
      /\ {"loop", "none"} \cap Executing = {} /\ {"bound", "general"} \subseteq Roles
  BY Places DEF Executing, Roles
<1>5. /\ pc' \in [Threads -> WorkerPCs \cup CtlPCs] /\ pc'[w] = "slice" /\ pc'[v] = "loop"
      /\ \A y \in Threads : y # w /\ y # v => pc'[y] = pc[y]
  <2>1. /\ pcs \in [Threads -> WorkerPCs \cup CtlPCs] /\ pcs[w] = "slice"
        /\ \A y \in Threads : y # w => pcs[y] = pc[y]
    BY Zenon, <1>1, <1>4 DEF TypeInv
  <2> QED
    BY Zenon, <1>1, <1>2, <1>4, <2>1
<1>6. /\ job' \in [Threads -> Everyone \cup {None}] /\ job'[w] = a
      /\ \A y \in Threads \ {w} : job'[y] = job[y]
  BY Zenon, <1>1, JobMove
<1>7. /\ owner' \in [Everyone -> Workers \cup {None}] /\ owner'[a] = w
      /\ \A b \in Everyone : b # a => owner'[b] = owner[b]
  BY Zenon, <1>1 DEF TypeInv
<1>8. /\ role' \in [Workers -> Roles] /\ role'[w] = "bound" /\ role'[v] = "general"
      /\ \A u \in Workers : u # w /\ u # v => role'[u] = role[u]
  BY <1>1, <1>2, <1>4 DEF TypeInv
<1>9. ~ready[w] /\ ~ready[v] /\ \A b \in Actors : owner[b] # w /\ owner[b] # v
  <2>1. WorkerGood(v) /\ \A b \in Actors : Owned(b)
    BY Zenon DEF MtInv
  <2>2. ~ready[w] /\ ~ready[v]
    BY Zenon, <1>1, <1>2, <2>1 DEF WorkerGood
  <2>3. ASSUME NEW b \in Actors PROVE owner[b] # w /\ owner[b] # v
    <3>1. Owned(b) /\ w # None /\ v # None
      BY Zenon, <2>1, Names
    <3> QED
      BY Zenon, <1>2, <3>1 DEF Owned
  <2> QED
    BY Zenon, <2>2, <2>3
<1>10. busy' = Cardinality(BusyOnes') /\ busy' \in Nat
  <2>1. \A u \in Workers : pc'[u] \in BusyPCs <=> u = w \/ pc[u] \in BusyPCs
    <3> SUFFICES ASSUME NEW u \in Workers
                 PROVE  pc'[u] \in BusyPCs <=> u = w \/ pc[u] \in BusyPCs
      BY Zenon
    <3>1. CASE u = w
      BY <1>4, <1>5, <3>1
    <3>2. CASE u = v
      BY <1>2, <1>3, <1>4, <1>5, <3>2
    <3>3. CASE u # w /\ u # v
      BY Zenon, <1>5, <3>3, Names
    <3> QED
      BY Zenon, <3>1, <3>2, <3>3
  <2>2. BusyOnes' = BusyOnes \cup {w} /\ BusyOnes \subseteq Workers /\ BusyOnes' \subseteq Workers
    BY Zenon, <2>1 DEF BusyOnes
  <2>3. busy = Cardinality(BusyOnes) /\ busy \in Nat
    BY Zenon, <1>1 DEF MtInv, Counts, TypeInv
  <2>4. CASE pc[w] = "slice"
    <3>1. w \in BusyOnes
      BY Zenon, <1>4, <2>4 DEF BusyOnes
    <3>2. BusyOnes' = BusyOnes
      BY Zenon, <2>2, <3>1
    <3> QED
      BY Zenon, <2>3, <2>4, <3>2
  <2>5. CASE pc[w] # "slice"
    <3>1. w \notin BusyOnes
      BY <1>4, <2>5 DEF BusyOnes
    <3>2. Cardinality(BusyOnes \cup {w}) = busy + 1
      BY Zenon, <2>2, <2>3, <3>1, CountOne
    <3>3. busy + 1 \in Nat
      BY <2>3
    <3> QED
      BY Zenon, <2>2, <2>5, <3>2, <3>3
  <2> QED
    BY Zenon, <2>4, <2>5
<1>11. TypeInv'
  BY Zenon, <1>1, <1>5, <1>6, <1>7, <1>8, <1>10 DEF TypeInv
<1>12. CtlGood'
  <2>1. /\ pc'[Ctl] = pc[Ctl] /\ job'[Ctl] = job[Ctl] /\ owner'[Root] = owner[Root]
    BY Zenon, <1>1, <1>5, <1>6, <1>7, Names
  <2>2. pc[Ctl] # "free"
    BY Zenon DEF MtInv, CtlGood
  <2> QED
    BY Zenon, <2>1, <2>2 DEF MtInv, CtlGood
<1>13. \A b \in Everyone : Waits(b)'
  BY Zenon DEF MtInv, Waits, Parked
<1>14. ASSUME NEW x \in Threads, NEW b PROVE Runs(x, b)' <=> (IF x = w THEN b = a ELSE Runs(x, b))
  <2>1. CASE x = w
    BY <1>4, <1>5, <1>6, <2>1 DEF Runs
  <2>2. CASE x = v
    <3>1. ~Runs(x, b)' /\ ~Runs(x, b)
      BY <1>3, <1>4, <1>5, <2>2 DEF Runs
    <3> QED
      BY Zenon, <1>2, <2>2, <3>1
  <2>3. CASE x # w /\ x # v
    <3>1. pc'[x] = pc[x] /\ job'[x] = job[x]
      BY Zenon, <1>5, <1>6, <2>3
    <3> QED
      BY Zenon, <2>3, <3>1 DEF Runs
  <2> QED
    BY Zenon, <2>1, <2>2, <2>3
<1>15. ASSUME NEW b \in Actors PROVE Placed(b)'
  <2>1. Placed(b) /\ b \in Everyone
    BY Zenon, Names DEF MtInv
  <2>2. CASE b = a
    <3>1. \A x \in Threads : Runs(x, b)' <=> x = w
      BY Zenon, <1>14, <2>2
    <3>2. IsRun(b)'
      BY Zenon, <1>1, <3>1 DEF IsRun
    <3>3. ~In(queue', b)
      BY Zenon, <2>2
    <3>4. ~IsReady(b)'
      <4>1. owner'[b] = w
        BY Zenon, <1>7, <2>2
      <4> QED
        BY Zenon, <1>9, <4>1 DEF IsReady
    <3> QED
      BY Zenon, <2>2, <3>1, <3>2, <3>3, <3>4 DEF Placed
  <2>3. CASE b # a
    <3>1. \A x \in Threads : Runs(x, b)' <=> Runs(x, b)
      <4>1. ~Runs(w, b)
        BY <1>4, <2>3 DEF Runs
      <4> QED
        BY Zenon, <1>14, <2>3, <4>1
    <3> QED
      BY Zenon, <1>7, <2>1, <2>3, <3>1, PlacedFrame
  <2> QED
    BY Zenon, <2>2, <2>3
<1>16. ASSUME NEW b \in Actors PROVE Owned(b)'
  <2>1. Owned(b) /\ owner[b] \in Workers \cup {None} /\ b \in Everyone
    BY Zenon, <1>1, Names DEF MtInv, TypeInv
  <2>2. CASE b = a
    <3>1. \A c \in Actors : owner'[c] = w => c = a
      BY Zenon, <1>7, <1>9, Names
    <3>2. "runnable" \notin Terminated
      BY DEF Terminated
    <3> QED
      <4>1. owner'[b] = w /\ status'[b] \notin Terminated /\ effectful'[b]
        BY Zenon, <1>7, <2>2, <3>2
      <4> QED
        BY Zenon, <1>8, <2>2, <3>1, <4>1 DEF Owned
  <2>3. CASE b # a
    <3>1. owner'[b] = owner[b] /\ owner[b] # w /\ owner[b] # v
      BY Zenon, <1>7, <1>9, <2>1, <2>3
    <3>2. owner[b] # None => /\ role'[owner[b]] = role[owner[b]] /\ pc'[owner[b]] = pc[owner[b]]
                             /\ job'[owner[b]] = job[owner[b]]
      BY Zenon, <1>5, <1>6, <1>8, <2>1, <3>1, Names
    <3>3. \A c \in Actors : owner'[c] = owner[b] => owner[c] = owner[b]
      BY Zenon, <1>7, <3>1, Names
    <3> QED
      BY Zenon, <2>1, <2>3, <3>1, <3>2, <3>3, OwnedFrame
  <2> QED
    BY Zenon, <2>2, <2>3
<1>17. ASSUME NEW u \in Workers PROVE WorkerGood(u)'
  <2>1. WorkerGood(u) /\ u \in Threads
    BY Zenon, Names DEF MtInv
  <2>2. CASE u = w
    BY <1>4, <1>5, <1>6, <1>7, <1>8, <2>2 DEF WorkerGood
  <2>3. CASE u = v
    BY <1>4, <1>5, <1>8, <1>9, <2>3 DEF WorkerGood
  <2>4. CASE u # w /\ u # v
    <3>1. pc'[u] = pc[u] /\ job'[u] = job[u] /\ role'[u] = role[u]
      BY Zenon, <1>5, <1>6, <1>8, <2>1, <2>4
    <3>2. pc[u] \in Executing => job[u] # a /\ job[u] \in Actors
      BY Zenon, <2>1, <2>4 DEF Runs, WorkerGood
    <3>3. pc[u] \in Executing => effectful'[job[u]] = effectful[job[u]] /\ owner'[job[u]] = owner[job[u]]
      BY Zenon, <1>7, <3>2, Names
    <3>4. \A b \in Actors : owner[b] = u => owner'[b] = u
      BY Zenon, <1>7, Names
    <3> QED
      BY Zenon, <2>1, <3>1, <3>3, <3>4 DEF WorkerGood
  <2> QED
    BY Zenon, <2>2, <2>3, <2>4
<1>18. ASSUME NEW x \in Threads PROVE Serves(x)'
  <2>1. Serves(x)
    BY Zenon DEF MtInv
  <2>2. pc[x] = "service" <=> pc'[x] = "service"
    BY Zenon, <1>3, <1>5
  <2> QED
    BY Zenon, <2>1, <2>2 DEF Serves
<1>19. Pumps'
  <2>1. \A u \in Workers : pc'[u] = "pump" <=> pc[u] = "pump"
    BY Zenon, <1>3, <1>5, Names
  <2> QED
    BY Zenon, <2>1 DEF MtInv, Pumps
<1>20. Counts'
  <2>1. \A u \in Workers : role'[u] = "general" <=> (u = v \/ (role[u] = "general" /\ u # w))
    BY Zenon, <1>2, <1>8
  <2>2. /\ Pool' = (Pool \ {w}) \cup {v} /\ w \in Pool /\ v \notin Pool \ {w}
        /\ Pool \subseteq Workers /\ Pool \ {w} \subseteq Workers
    BY Zenon, <1>2, <2>1 DEF Pool
  <2>3. /\ Cardinality(Pool) \in Nat /\ Cardinality(Pool \ {w}) = Cardinality(Pool) - 1
        /\ Cardinality(Pool') = Cardinality(Pool \ {w}) + 1
    BY Zenon, <2>2, CountOne
  <2>4. Cardinality(Pool') = Cardinality(Pool)
    BY <2>3
  <2>5. pc'[Ctl] = pc[Ctl]
    BY Zenon, <1>1, <1>5
  <2>6. ReadyOnes' = ReadyOnes
    BY Zenon DEF ReadyOnes
  <2> QED
    BY Zenon, <1>10, <2>4, <2>5, <2>6 DEF MtInv, Counts
<1> QED
  BY Zenon, <1>11, <1>12, <1>13, <1>15, <1>16, <1>17, <1>18, <1>19, <1>20 DEF MtInv

(* The head of the run queue is an actor that the rest no longer holds. *)
LEMMA QueueHead ==
  ASSUME MtInv, queue # <<>>
  PROVE  /\ Tail(queue) \in Seq(Actors) /\ Head(queue) \in Actors /\ In(queue, Head(queue))
         /\ \A b \in Actors : /\ In(Tail(queue), b) <=> In(queue, b) /\ b # Head(queue)
                              /\ Once(Tail(queue), b)
<1>1. queue \in Seq(Actors) /\ \A b \in Actors : Once(queue, b)
  BY Zenon DEF MtInv, TypeInv, Placed
<1>2. Head(queue) \in Actors
  BY <1>1
<1> QED
  BY Zenon, <1>1, <1>2, TailQueue

(* A general worker that draws an actor, and binds an effectful one, keeps  *)
(* the invariant.                                                           *)
LEMMA GeneralRunStep ==
  ASSUME MtInv, NEW w \in Workers, GeneralRun(w)
  PROVE  MtInv'
<1> DEFINE a == Head(queue)
<1>1. /\ pc[w] = "loop" /\ ~shutdown /\ role[w] = "general" /\ queue # <<>>
      /\ queue' = Tail(queue) /\ job' = [job EXCEPT ![w] = a] /\ busy' = busy + 1
      /\ status' = status /\ mbox' = mbox /\ http' = http /\ effectful' = effectful
      /\ pumping' = pumping /\ ready' = ready /\ readyBound' = readyBound /\ op' = op
      /\ rooted' = rooted /\ shutdown' = shutdown /\ running' = running
  BY Zenon DEF GeneralRun, AtLoop, flags
<1>2. /\ queue' \in Seq(Actors) /\ a \in Actors /\ In(queue, a)
      /\ \A b \in Actors : (In(queue', b) <=> In(queue, b) /\ b # a) /\ Once(queue', b)
  BY Zenon, <1>1, QueueHead
<1> HIDE DEF a
<1>3. status[a] = "runnable" /\ owner[a] = None /\ ~IsRun(a)
  BY Zenon, <1>2 DEF MtInv, Placed
<1>4. TypeInv /\ w # None /\ readyBound = Cardinality(ReadyOnes)
  BY Zenon, Names DEF MtInv, Counts
<1>5. CASE effectful[a]
  <2>1. Bind(w, a, [pc EXCEPT ![w] = "slice"])
    BY Zenon, <1>5 DEF GeneralRun, a
  <2>2. owner' = [owner EXCEPT ![a] = w] /\ general' = (general - 1) + 1
    BY Zenon, <2>1 DEF Bind
  <2>3. PICK v \in Replacements :
           /\ role' = [role EXCEPT ![w] = "bound", ![v] = "general"]
           /\ pc' = [[pc EXCEPT ![w] = "slice"] EXCEPT ![v] = "loop"]
    BY Zenon, <2>1 DEF Bind
  <2>4. v \in Workers /\ role[v] \in {"spare", "none"}
    BY Zenon DEF Replacements, Spares, Unborn
  <2>5. general' = general
    BY <1>4, <2>2 DEF TypeInv
  <2>6. busy' = IF pc[w] = "slice" THEN busy ELSE busy + 1
    BY Zenon, <1>1
  <2>7. \A y \in Threads : Runs(y, a) => y = w
    BY Zenon, <1>3 DEF IsRun
  <2>8. effectful' \in [Actors -> BOOLEAN] /\ effectful'[a]
    BY Zenon, <1>1, <1>4, <1>5 DEF TypeInv
  <2> DEFINE pcs == [pc EXCEPT ![w] = "slice"]
  <2>9. pc' = [pcs EXCEPT ![v] = "loop"] /\ pcs = [pc EXCEPT ![w] = "slice"]
    BY Zenon, <2>3
  <2> HIDE DEF pcs
  <2> QED
    BY Zenon, <1>1, <1>2, <1>3, <2>2, <2>3, <2>4, <2>5, <2>6, <2>7, <2>8, <2>9, BindStep
       DEF Binds
<1>6. CASE ~effectful[a]
  <2>1. pc' = [pc EXCEPT ![w] = "slice"] /\ role' = role /\ owner' = owner /\ general' = general
    BY Zenon, <1>6 DEF GeneralRun, Goto, a
  <2>2. /\ ready' \in [Workers -> BOOLEAN]
        /\ \A v \in Workers : ready'[v] <=> ready[v] /\ owner[a] # v
    BY Zenon, <1>1, <1>3, <1>4, Names DEF TypeInv
  <2>3. readyBound' = Cardinality(ReadyOnes')
    BY Zenon, <1>1, <1>4 DEF ReadyOnes
  <2>4. role[w] = "bound" \/ effectful[a] => owner[a] = w
    BY Zenon, <1>1, <1>6
  <2>5. role[w] \in {"general", "bound"}
    BY Zenon, <1>1
  <2> QED
    BY Zenon, <1>1, <1>2, <1>3, <2>1, <2>2, <2>3, <2>4, <2>5, RunStep DEF TakesUp
<1> QED
  BY Zenon, <1>5, <1>6

(* er_actor_rplan_effect: the first host effect keeps the invariant. *)
LEMMA EffectStep ==
  ASSUME MtInv, NEW w \in Workers, Effect(w)
  PROVE  MtInv'
<1> DEFINE a == job[w]
<1>1. /\ pc[w] = "slice" /\ ~effectful[a] /\ effectful' = [effectful EXCEPT ![a] = TRUE]
      /\ Bind(w, a, pc)
      /\ queue' = queue /\ job' = job /\ busy' = busy
      /\ status' = status /\ mbox' = mbox /\ http' = http
      /\ pumping' = pumping /\ ready' = ready /\ readyBound' = readyBound /\ op' = op
      /\ rooted' = rooted /\ shutdown' = shutdown /\ running' = running
  BY Zenon DEF Effect, InSlice, flags
<1>2. TypeInv /\ WorkerGood(w) /\ w \in Threads
  BY Zenon, Names DEF MtInv
<1>3. a \in Actors /\ ~shutdown
  BY <1>1, <1>2, Places DEF WorkerGood, Executing
<1>4. Runs(w, a) /\ IsRun(a)
  BY <1>1, <1>2 DEF Runs, IsRun, Executing
<1>5. /\ Placed(a) /\ status[a] = "runnable" /\ ~In(queue, a) /\ ~IsReady(a)
      /\ \A y \in Threads : Runs(y, a) => y = w
  BY Zenon, <1>2, <1>3, <1>4 DEF MtInv, Placed
<1>6. owner[a] = None
  BY Zenon, <1>1, <1>3 DEF MtInv, Owned
<1>7. owner' = [owner EXCEPT ![a] = w] /\ general' = (general - 1) + 1 /\ role[w] = "general"
  BY Zenon, <1>1 DEF Bind
<1>8. PICK v \in Replacements :
         /\ role' = [role EXCEPT ![w] = "bound", ![v] = "general"]
         /\ pc' = [pc EXCEPT ![v] = "loop"]
  BY Zenon, <1>1 DEF Bind
<1>9. v \in Workers /\ role[v] \in {"spare", "none"}
  BY Zenon DEF Replacements, Spares, Unborn
<1>10. general' = general
  BY <1>2, <1>7 DEF TypeInv
<1>11. /\ pc = [pc EXCEPT ![w] = "slice"] /\ job' = [job EXCEPT ![w] = a]
       /\ busy' = IF pc[w] = "slice" THEN busy ELSE busy + 1
  BY Zenon, <1>1, <1>2, SameJob
<1>12. /\ queue' \in Seq(Actors)
       /\ \A b \in Actors : (In(queue', b) <=> In(queue, b) /\ b # a) /\ Once(queue', b)
  BY Zenon, <1>1, <1>2, <1>5 DEF MtInv, TypeInv, Placed
<1>13. /\ effectful' \in [Actors -> BOOLEAN] /\ effectful'[a]
       /\ \A b \in Actors \ {a} : effectful'[b] = effectful[b]
  BY Zenon, <1>1, <1>2, <1>3 DEF TypeInv
<1> HIDE DEF a
<1> QED
  BY Zenon, <1>1, <1>3, <1>5, <1>6, <1>7, <1>8, <1>9, <1>10, <1>11, <1>12, <1>13, BindStep
     DEF a, Binds

-----------------------------------------------------------------------------
(* Actors that become runnable (er_enqueue).                                *)

(* es lists the actors of S that go to the run queue. *)
Arrives(S, es) ==
    /\ es \in Seq(Actors)
    /\ \A b \in Actors : (In(es, b) <=> b \in S /\ Shared(b)) /\ Once(es, b)

(* What the thread x does meanwhile: it ends the slice of an actor of S, it *)
(* ends a poll, or nothing.                                                 *)
Ending(x, l, S) ==
    \/ pc[x] \in Executing /\ l = Onward(x) /\ job[x] \in S
    \/ x \in Workers /\ pc[x] = "pump" /\ l = "pumped"
    \/ l = pc[x]

(* No member of S is anywhere yet, but for the actor of the slice that ends. *)
Nowhere(x, l, S) ==
    \A b \in S : status[b] # "runnable" \/ (Runs(x, b) /\ l = Onward(x))

(* The places and the executed actors around an enqueue. *)
LEMMA EndingFacts ==
  ASSUME MtInv, NEW x \in Threads, NEW l, NEW S, Ending(x, l, S), pc' = [pc EXCEPT ![x] = l],
         job' = job
  PROVE  /\ pc' \in [Threads -> WorkerPCs \cup CtlPCs] /\ pc'[x] = l
         /\ \A y \in Threads \ {x} : pc'[y] = pc[y]
         /\ l # pc[x] => l \notin Executing
         /\ \A y \in Threads : \A b : Runs(y, b)' => Runs(y, b)
         /\ \A y \in Threads : \A b : b \notin S /\ Runs(y, b) => Runs(y, b)'
         /\ BusyOnes' = BusyOnes
         /\ \A w \in Workers : pc[w] \in {"after", "none", "loop", "exit"} => pc'[w] = pc[w]
         /\ \A w \in Workers : pc'[w] = pc[w] \/ (pc[w] \in BusyPCs /\ pc'[w] \in {"after", "pumped"})
         /\ \A w \in Workers : pc'[w] = "after" => pc[w] \in Executing \cup {"after"}
<1>1. /\ TypeInv /\ Ctl \in Threads /\ Ctl \notin Workers
      /\ \A w \in Workers : w \in Threads /\ w # Ctl
  BY Zenon, Names DEF MtInv
<1>2. pc'[x] = l /\ \A y \in Threads \ {x} : pc'[y] = pc[y]
  BY Zenon, <1>1, MoveFacts
<1>3. /\ {"drive", "after", "pumped"} \subseteq WorkerPCs \cup CtlPCs
      /\ {"drive", "after", "pumped", "pump", "none", "loop", "exit"} \cap Executing = {}
      /\ {"after", "pumped", "pump"} \subseteq BusyPCs /\ Executing \subseteq BusyPCs
      /\ "pump" \notin {"after", "none", "loop", "exit"}
  BY Places DEF CtlPCs, WorkerPCs, Executing
<1>4. /\ l = pc[x] \/ l \in {"drive", "after", "pumped"}
      /\ x \in Workers => l = pc[x] \/ l \in {"after", "pumped"}
      /\ l # pc[x] => pc[x] \in Executing \/ (x \in Workers /\ pc[x] = "pump" /\ l = "pumped")
      /\ pc[x] \in WorkerPCs \cup CtlPCs
  BY Zenon, <1>1 DEF Ending, Onward, TypeInv
<1>5. pc' \in [Threads -> WorkerPCs \cup CtlPCs]
  <2>1. l \in WorkerPCs \cup CtlPCs
    BY <1>3, <1>4
  <2> QED
    BY Zenon, <1>1, <2>1, MoveType
<1>6. l # pc[x] => l \notin Executing
  BY <1>3, <1>4
<1>7. ASSUME NEW y \in Threads, NEW b, Runs(y, b)' PROVE Runs(y, b)
  <2>1. pc'[y] \in Executing /\ job[y] = b
    BY Zenon, <1>7 DEF Runs
  <2>2. pc[y] = pc'[y]
    BY Zenon, <1>2, <1>6, <2>1
  <2> QED
    BY Zenon, <2>1, <2>2 DEF Runs
<1>8. ASSUME NEW y \in Threads, NEW b, b \notin S, Runs(y, b) PROVE Runs(y, b)'
  <2>1. pc[y] \in Executing /\ job[y] = b
    BY Zenon, <1>8 DEF Runs
  <2>2. pc'[y] = pc[y]
    <3>1. CASE y # x
      BY Zenon, <1>2, <3>1
    <3>2. CASE y = x
      <4>1. pc[x] # "pump" /\ job[x] \notin S
        BY <1>3, <1>8, <2>1, <3>2
      <4>2. l = pc[x]
        BY Zenon, <4>1 DEF Ending
      <4> QED
        BY Zenon, <1>2, <3>2, <4>2
    <3> QED
      BY Zenon, <3>1, <3>2
  <2> QED
    BY Zenon, <2>1, <2>2 DEF Runs
<1>9. ASSUME NEW w \in Workers
      PROVE  /\ pc'[w] = pc[w] \/ (pc[w] \in BusyPCs /\ pc'[w] \in {"after", "pumped"})
             /\ pc[w] \in {"after", "none", "loop", "exit"} => pc'[w] = pc[w]
             /\ pc'[w] = "after" => pc[w] \in Executing \cup {"after"}
  <2>1. CASE w = x
    <3>1. CASE l = pc[x]
      BY <1>2, <2>1, <3>1
    <3>2. CASE l # pc[x]
      <4>1. /\ pc[x] \in BusyPCs /\ l \in {"after", "pumped"}
            /\ pc[x] \notin {"after", "none", "loop", "exit"}
            /\ l = "after" => pc[x] \in Executing
        BY <1>3, <1>4, <2>1, <3>2
      <4> QED
        BY <1>2, <2>1, <4>1
    <3> QED
      BY Zenon, <3>1, <3>2
  <2>2. CASE w # x
    <3>1. pc'[w] = pc[w]
      BY Zenon, <1>1, <1>2, <2>2
    <3> QED
      BY <3>1
  <2> QED
    BY Zenon, <2>1, <2>2
<1>10. \A w \in Workers : pc'[w] \in BusyPCs <=> pc[w] \in BusyPCs
  BY <1>3, <1>9
<1>11. BusyOnes' = BusyOnes
  BY Zenon, <1>10 DEF BusyOnes
<1> QED
  BY Zenon, <1>2, <1>5, <1>6, <1>7, <1>8, <1>9, <1>11

(* The workers of the actors of S. *)
LEMMA OwnersFacts ==
  ASSUME MtInv, NEW S, S \subseteq Everyone, NEW es, Enqueue(S, es), owner' = owner
  PROVE  /\ OwnersOf(S) \subseteq Workers
         /\ ready' \in [Workers -> BOOLEAN]
         /\ \A w \in Workers : ready'[w] <=> ready[w] \/ \E b \in S \cap Actors : owner[b] = w
         /\ readyBound' = Cardinality(ReadyOnes') /\ readyBound' \in Nat
<1>1. /\ owner \in [Everyone -> Workers \cup {None}] /\ ready \in [Workers -> BOOLEAN]
      /\ owner[Root] = None /\ readyBound = Cardinality(ReadyOnes)
  BY Zenon DEF MtInv, TypeInv, CtlGood, Counts
<1>2. OwnersOf(S) \subseteq Workers
  BY Zenon, <1>1 DEF OwnersOf
<1>3. ready' = [w \in Workers |-> ready[w] \/ w \in OwnersOf(S)]
  BY Zenon DEF Enqueue
<1>4. \A w \in Workers : w \in OwnersOf(S) <=> \E b \in S \cap Actors : owner[b] = w
  BY Zenon, <1>1, Names DEF OwnersOf
<1>5. ready' \in [Workers -> BOOLEAN] /\ \A w \in Workers : ready'[w] <=> ready[w] \/ w \in OwnersOf(S)
  BY Zenon, <1>3
<1> DEFINE N == {w \in OwnersOf(S) : ~ready[w]}
<1>6. /\ ReadyOnes' = ReadyOnes \cup N /\ ReadyOnes \cap N = {} /\ N \subseteq Workers
      /\ ReadyOnes \subseteq Workers /\ ReadyOnes' \subseteq Workers
  BY Zenon, <1>2, <1>5 DEF ReadyOnes
<1>7. readyBound' = readyBound + Cardinality(N)
  BY Zenon DEF Enqueue
<1> HIDE DEF N
<1>8. Cardinality(ReadyOnes') \in Nat
  BY Zenon, <1>6 DEF MtInv, Counts, Sizes
<1>9. Cardinality(ReadyOnes \cup N) = Cardinality(ReadyOnes) + Cardinality(N)
  <2>1. ReadyOnes \in SUBSET Workers /\ N \in SUBSET (Workers \ ReadyOnes)
    BY Zenon, <1>6
  <2> QED
    BY Zenon, <2>1 DEF MtInv, Counts, Sizes
<1>10. readyBound' = Cardinality(ReadyOnes')
  BY Zenon, <1>1, <1>6, <1>7, <1>9
<1> QED
  BY Zenon, <1>2, <1>4, <1>5, <1>8, <1>10

(* The actors of S become runnable and x moves to l; the places that matter. *)
Arriving(x, l, S, es) ==
    /\ S \subseteq Everyone /\ Arrives(S, es) /\ Enqueue(S, es) /\ Ending(x, l, S)
    /\ Nowhere(x, l, S) /\ pc' = [pc EXCEPT ![x] = l] /\ job' = job /\ owner' = owner
    /\ \A b \in Everyone : status'[b] = IF b \in S THEN "runnable" ELSE status[b]

(* er_enqueue on the actors of S, which were nowhere. *)
LEMMA EnqueuePlaces ==
  ASSUME MtInv, NEW x \in Threads, NEW l, NEW S, NEW es, NEW a \in Actors,
         Arriving(x, l, S, es)
  PROVE  Placed(a)'
<1> USE DEF Arriving
<1>1. /\ queue' = queue \o es /\ queue \in Seq(Actors) /\ es \in Seq(Actors) /\ Placed(a)
      /\ a \in Everyone
  BY Zenon, Names DEF Enqueue, Arrives, MtInv, TypeInv
<1>2. /\ In(queue', a) <=> In(queue, a) \/ In(es, a)
      /\ Once(queue, a) /\ Once(es, a) /\ (In(es, a) <=> a \in S /\ Shared(a))
      /\ ~(In(queue, a) /\ In(es, a)) => Once(queue', a)
  BY Zenon, <1>1, AppendQueue DEF Arrives, Placed
<1>3. /\ \A y \in Threads : Runs(y, a)' => Runs(y, a)
      /\ a \notin S => \A y \in Threads : Runs(y, a) => Runs(y, a)'
      /\ pc'[x] = l /\ (l # pc[x] => l \notin Executing)
  BY Zenon, EndingFacts
<1>4. \A w \in Workers : ready'[w] <=> ready[w] \/ \E b \in S \cap Actors : owner[b] = w
  BY Zenon, OwnersFacts
<1>5. CASE a \in S
  <2>1. ~In(queue, a) /\ ~IsReady(a) /\ ~IsRun(a)'
    <3>1. CASE status[a] # "runnable"
      <4>1. ~In(queue, a) /\ ~IsReady(a) /\ ~IsRun(a)
        BY Zenon, <1>1, <3>1 DEF Placed
      <4> QED
        BY Zenon, <1>3, <4>1 DEF IsRun
    <3>2. CASE Runs(x, a) /\ l = Onward(x)
      <4>1. IsRun(a)
        BY Zenon, <3>2 DEF IsRun
      <4>2. ~In(queue, a) /\ ~IsReady(a) /\ \A y \in Threads : Runs(y, a) => y = x
        BY Zenon, <1>1, <3>2, <4>1 DEF Placed
      <4>3. pc'[x] \notin Executing
        BY <1>3, <3>2 DEF Onward, Executing
      <4> QED
        BY Zenon, <1>3, <4>2, <4>3 DEF IsRun, Runs
    <3> QED
      BY Zenon, <1>5, <3>1, <3>2 DEF Nowhere
  <2>2. In(queue', a) <=> owner[a] = None
    BY Zenon, <1>2, <1>5, <2>1, Names DEF Shared
  <2>3. IsReady(a)' <=> owner[a] # None
    <3>1. owner[a] \in Workers \cup {None} /\ None \notin Workers
      BY Zenon, <1>1, Names DEF MtInv, TypeInv
    <3>2. owner[a] # None => ready'[owner[a]]
      BY Zenon, <1>4, <1>5, <3>1
    <3> QED
      BY Zenon, <3>1, <3>2 DEF IsReady
  <2>4. \A y \in Threads : ~Runs(y, a)'
    BY Zenon, <2>1 DEF IsRun
  <2>5. Once(queue', a) /\ status'[a] = "runnable"
    BY Zenon, <1>1, <1>2, <1>5, <2>1
  <2> QED
    BY Zenon, <2>1, <2>2, <2>3, <2>4, <2>5 DEF Placed
<1>6. CASE a \notin S
  <2>1. \A y \in Threads : Runs(y, a)' <=> Runs(y, a)
    BY Zenon, <1>3, <1>6
  <2>2. (In(queue', a) <=> In(queue, a)) /\ Once(queue', a) /\ status'[a] = status[a]
    BY Zenon, <1>1, <1>2, <1>6
  <2>3. ASSUME NEW w \in Workers, owner[a] = w PROVE ready'[w] <=> ready[w]
    <3>1. Owned(a) /\ w # None
      BY Zenon, Names DEF MtInv
    <3>2. \A b \in Actors : owner[b] = w => b = a
      BY Zenon, <2>3, <3>1 DEF Owned
    <3>3. ~ \E b \in S \cap Actors : owner[b] = w
      BY Zenon, <1>6, <3>2
    <3>4. ready'[w] <=> ready[w] \/ \E b \in S \cap Actors : owner[b] = w
      BY Zenon, <1>4
    <3> QED
      BY Zenon, <3>3, <3>4
  <2>4. owner'[a] = owner[a] /\ \A w \in Workers : owner[a] = w => (ready'[w] <=> ready[w])
    BY Zenon, <2>3
  <2> QED
    BY Zenon, <1>1, <2>1, <2>2, <2>4, PlacedFrame
<1> QED
  BY Zenon, <1>5, <1>6

(* The actors of S become runnable while the thread x moves to l. *)
Enqueues(x, l, S, es) ==
    /\ S \subseteq Everyone /\ Arrives(S, es) /\ Enqueue(S, es) /\ Ending(x, l, S)
    /\ Nowhere(x, l, S) /\ pc' = [pc EXCEPT ![x] = l]
    /\ status' \in [Everyone -> Statuses]
    /\ \A b \in Everyone : status'[b] = IF b \in S THEN "runnable" ELSE status[b]
    /\ mbox' \in [Everyone -> Nat] /\ http' \in [Everyone -> BOOLEAN]
    /\ \A b \in Everyone : Waits(b)'
    /\ op' \in [Threads -> Ops]
    /\ \A y \in Threads \ {x} : op'[y] = op[y]
    /\ op'[x] = IF l = pc[x] THEN op[x] ELSE None
    /\ \A y \in Threads : op'[y] # None /\ op'[y].kind = "spawn" => op'[y].to \notin S
    /\ Pumps' /\ pumping' \in BOOLEAN /\ job' = job /\ owner' = owner
    /\ effectful' = effectful /\ role' = role /\ general' = general /\ busy' = busy
    /\ rooted' = rooted /\ shutdown' = shutdown /\ running' = running

(* er_enqueue, with what its caller does meanwhile, keeps the invariant. *)
LEMMA EnqueueStep ==
  ASSUME MtInv, NEW x \in Threads, NEW l, NEW S, NEW es, Enqueues(x, l, S, es)
  PROVE  MtInv'
<1> USE DEF Enqueues
<1>1. TypeInv /\ Ctl \in Threads /\ Root \in Everyone
  BY Zenon, Names DEF MtInv
<1>2. /\ pc' \in [Threads -> WorkerPCs \cup CtlPCs] /\ pc'[x] = l
      /\ \A y \in Threads \ {x} : pc'[y] = pc[y]
      /\ l # pc[x] => l \notin Executing
      /\ BusyOnes' = BusyOnes
      /\ \A w \in Workers : pc[w] \in {"after", "none", "loop", "exit"} => pc'[w] = pc[w]
      /\ \A w \in Workers : pc'[w] = pc[w] \/ (pc[w] \in BusyPCs /\ pc'[w] \in {"after", "pumped"})
      /\ \A w \in Workers : pc'[w] = "after" => pc[w] \in Executing \cup {"after"}
  BY Zenon, EndingFacts
<1>3. /\ ready' \in [Workers -> BOOLEAN]
      /\ \A w \in Workers : ready'[w] <=> ready[w] \/ \E b \in S \cap Actors : owner[b] = w
      /\ readyBound' = Cardinality(ReadyOnes') /\ readyBound' \in Nat
  BY Zenon, OwnersFacts
<1>4. queue' \in Seq(Actors)
  <2>1. queue \in Seq(Actors) /\ es \in Seq(Actors) /\ queue' = queue \o es
    BY Zenon, <1>1 DEF TypeInv, Arrives, Enqueue
  <2> QED
    BY Zenon, <2>1, AppendQueue
<1>5. TypeInv'
  BY Zenon, <1>1, <1>2, <1>3, <1>4 DEF TypeInv
<1>6. CtlGood'
  <2>1. CtlGood
    BY Zenon DEF MtInv
  <2>2. status'[Root] = IF Root \in S THEN "runnable" ELSE status[Root]
    BY Zenon, <1>1
  <2>3. pc'[Ctl] = pc[Ctl] \/ (pc[Ctl] \in Executing /\ pc'[Ctl] = "drive" /\ Root \in S)
    <3>1. CASE x = Ctl
      <4>1. rooted /\ pc[Ctl] \in Executing => job[Ctl] = Root
        BY Zenon, <2>1 DEF CtlGood
      <4>2. pc[Ctl] \in Executing => rooted
        BY <2>1 DEF CtlGood, Executing, DrivePCs
      <4>3. Ctl \notin Workers
        BY Zenon, Names
      <4> QED
        BY Zenon, <1>2, <3>1, <4>1, <4>2, <4>3 DEF Ending, Onward
    <3>2. CASE x # Ctl
      BY Zenon, <1>1, <1>2, <3>2
    <3> QED
      BY Zenon, <3>1, <3>2
  <2>4. pc[Ctl] = "free" => \A w \in Workers : pc'[w] = "none"
    BY Zenon, <1>2, <2>1 DEF CtlGood
  <2>5. CASE pc'[Ctl] = pc[Ctl]
    <3>1. status'[Root] \in {"runnable", "blocked"} /\ (status'[Root] = "blocked" => status[Root] = "blocked")
      BY Zenon, <2>1, <2>2 DEF CtlGood
    <3> QED
      BY Zenon, <2>1, <2>4, <2>5, <3>1 DEF CtlGood
  <2>6. CASE pc[Ctl] \in Executing /\ pc'[Ctl] = "drive" /\ Root \in S
    <3>1. /\ status'[Root] = "runnable" /\ pc[Ctl] \in DrivePCs \ {"drain"}
          /\ pc'[Ctl] \in DrivePCs \ {"drain"} /\ pc'[Ctl] \in CtlPCs
          /\ pc[Ctl] \notin {"join", "free"} /\ pc'[Ctl] \notin {"join", "free"}
      BY <2>2, <2>6 DEF Executing, DrivePCs, CtlPCs
    <3> QED
      BY <2>1, <3>1 DEF CtlGood
  <2> QED
    BY Zenon, <2>3, <2>5, <2>6
<1>7. \A a \in Actors : Placed(a)'
  BY Zenon, EnqueuePlaces DEF Arriving
<1>8. ASSUME NEW a \in Actors PROVE Owned(a)'
  <2>1. Owned(a) /\ owner[a] \in Workers \cup {None} /\ a \in Everyone
    BY Zenon, <1>1, Names DEF MtInv, TypeInv
  <2>2. "runnable" \notin Terminated
    BY DEF Terminated
  <2>3. status'[a] \in Terminated => status[a] \in Terminated
    BY Zenon, <2>1, <2>2
  <2>4. owner[a] # None /\ status[a] \in Terminated =>
           pc'[owner[a]] = "after" /\ job[owner[a]] = a
    BY Zenon, <1>2, <2>1 DEF Owned
  <2> QED
    BY Zenon, <2>1, <2>3, <2>4 DEF Owned
<1>9. ASSUME NEW w \in Workers PROVE WorkerGood(w)'
  <2>1. WorkerGood(w)
    BY Zenon DEF MtInv
  <2>2. ready'[w] => role[w] = "bound"
    <3>1. ASSUME NEW b \in S \cap Actors, owner[b] = w PROVE role[w] = "bound"
      <4>1. Owned(b) /\ w # None
        BY Zenon, Names DEF MtInv
      <4> QED
        BY Zenon, <3>1, <4>1 DEF Owned
    <3> QED
      BY Zenon, <1>3, <2>1, <3>1 DEF WorkerGood
  <2>3. CASE pc'[w] = pc[w]
    BY Zenon, <2>1, <2>2, <2>3 DEF WorkerGood
  <2>4. CASE pc'[w] # pc[w]
    <3>1. pc[w] \in BusyPCs /\ pc'[w] \in {"after", "pumped"}
      BY Zenon, <1>2, <2>4
    <3>2. /\ pc[w] \notin {"none", "loop", "exit"} /\ pc'[w] \notin {"none", "loop", "exit"}
          /\ pc'[w] \in BusyPCs /\ pc'[w] \in WorkerPCs /\ pc'[w] \notin Executing
      BY <3>1, Places DEF BusyPCs
    <3>3. pc'[w] = "after" => pc[w] \in Executing \cup {"after"}
      BY Zenon, <1>2
    <3> QED
      BY <2>1, <2>2, <3>1, <3>2, <3>3 DEF WorkerGood
  <2> QED
    BY Zenon, <2>3, <2>4
<1>10. ASSUME NEW y \in Threads PROVE Serves(y)'
  <2>1. Serves(y)
    BY Zenon DEF MtInv
  <2>2. op'[y] # None <=> pc'[y] = "service"
    <3>1. CASE y = x
      <4>1. l # pc[x] => l # "service"
        BY <1>2 DEF Executing
      <4> QED
        BY Zenon, <1>2, <2>1, <3>1, <4>1 DEF Serves
    <3>2. CASE y # x
      BY Zenon, <1>2, <2>1, <3>2 DEF Serves
    <3> QED
      BY Zenon, <3>1, <3>2
  <2>3. \A z \in Threads : op'[z] # None => op'[z] = op[z]
    BY Zenon
  <2>4. ASSUME op'[y] # None, op'[y].kind = "spawn"
        PROVE  /\ status'[op'[y].to] = "new"
               /\ \A z \in Threads : op'[z] # None /\ op'[z].kind = "spawn" /\ op'[z].to = op'[y].to
                                        => z = y
    <3>1. /\ op'[y] = op[y] /\ status[op[y].to] = "new" /\ op[y].to \notin S
          /\ \A z \in Threads : op[z] # None /\ op[z].kind = "spawn" /\ op[z].to = op[y].to
                                        => z = y
      BY Zenon, <2>1, <2>3, <2>4 DEF Serves
    <3>2. op[y].to \in Everyone
      <4>1. op[y] \in Ops /\ op[y] # None /\ op[y].kind = "spawn"
        BY Zenon, <1>1, <2>3, <2>4 DEF TypeInv
      <4> QED
        BY <4>1 DEF Ops, Everyone
    <3> QED
      BY Zenon, <2>3, <3>1, <3>2
  <2> QED
    BY Zenon, <2>2, <2>4 DEF Serves
<1>11. Counts'
  <2>1. pc'[Ctl] = pc[Ctl] \/ pc[Ctl] # "free"
    BY Zenon, <1>1, <1>2 DEF Ending, Executing
  <2>2. Pool' = Pool
    BY Zenon DEF Pool
  <2> QED
    BY Zenon, <1>2, <1>3, <2>1, <2>2 DEF MtInv, Counts
<1> QED
  BY Zenon, <1>5, <1>6, <1>7, <1>8, <1>9, <1>10, <1>11 DEF MtInv

(* The actor of a slice is runnable, and at that thread alone. *)
LEMMA Executed ==
  ASSUME MtInv, NEW x \in Threads, pc[x] \in Executing
  PROVE  /\ job[x] \in Everyone /\ status[job[x]] = "runnable" /\ ~http[job[x]]
         /\ Runs(x, job[x])
         /\ x = Ctl => job[x] = Root /\ rooted
         /\ x # Ctl => x \in Workers /\ job[x] \in Actors
         /\ Onward(x) # pc[x]
<1>1. Runs(x, job[x])
  BY Zenon DEF Runs
<1>2. CASE x = Ctl
  <2>1. CtlGood /\ pc[Ctl] \in Executing
    BY Zenon, <1>2 DEF MtInv
  <2>2. pc[Ctl] \in DrivePCs /\ pc[Ctl] \notin {"drive", "deadlock"}
    BY <2>1 DEF Executing, DrivePCs
  <2>3. rooted /\ job[Ctl] = Root /\ status[Root] = "runnable"
    BY <2>1, <2>2 DEF CtlGood
  <2>4. Onward(x) = "drive"
    BY Zenon, <1>2 DEF Onward
  <2>5. Waits(Root)
    BY Zenon, Names DEF MtInv
  <2>6. ~http[Root]
    BY <2>3, <2>5 DEF Waits
  <2> QED
    BY Zenon, <1>1, <1>2, <2>2, <2>3, <2>4, <2>6, Names
<1>3. CASE x # Ctl
  <2>1. x \in Workers
    BY Zenon, <1>3, Names
  <2>2. job[x] \in Actors
    BY Zenon, <2>1 DEF MtInv, WorkerGood
  <2>3. Placed(job[x]) /\ job[x] \in Everyone
    BY Zenon, <2>2, Names DEF MtInv
  <2>4. status[job[x]] = "runnable"
    BY Zenon, <1>1, <2>3 DEF Placed, IsRun
  <2>5. Waits(job[x])
    BY Zenon, <2>3 DEF MtInv
  <2>6. ~http[job[x]]
    BY <2>4, <2>5 DEF Waits
  <2>7. Onward(x) = "after" /\ "after" \notin Executing
    BY <1>3 DEF Onward, Executing
  <2> QED
    BY Zenon, <1>1, <1>3, <2>1, <2>2, <2>3, <2>4, <2>6, <2>7
<1> QED
  BY Zenon, <1>2, <1>3

(* What one actor adds to the run queue. *)
LEMMA ArrivesOne ==
  ASSUME NEW a \in Everyone, a = Root => rooted
  PROVE  Arrives({a}, ToQueue(a))
<1>1. CASE Shared(a)
  <2>1. a \in Actors /\ ToQueue(a) = <<a>>
    BY Zenon, <1>1, Names DEF Shared, ToQueue
  <2>2. \A b : /\ <<a>> \in Seq(Actors) /\ (In(<<a>>, b) <=> b = a) /\ Once(<<a>>, b)
    BY Zenon, <2>1, ShortQueues
  <2> QED
    BY Zenon, <1>1, <2>1, <2>2 DEF Arrives
<1>2. CASE ~Shared(a)
  <2>1. ToQueue(a) = <<>>
    BY Zenon, <1>2 DEF ToQueue
  <2>2. <<>> \in Seq(Actors)
    OBVIOUS
  <2>3. \A b \in Actors : ~In(<<>>, b) /\ Once(<<>>, b)
    BY Zenon, ShortQueues
  <2> QED
    BY Zenon, <1>2, <2>1, <2>2, <2>3 DEF Arrives
<1> QED
  BY Zenon, <1>1, <1>2

(* Nobody adds nothing. *)
LEMMA ArrivesNone == Arrives({}, <<>>)
<1>1. <<>> \in Seq(Actors)
  OBVIOUS
<1>2. \A b \in Actors : ~In(<<>>, b) /\ Once(<<>>, b)
  BY Zenon, ShortQueues
<1> QED
  BY Zenon, <1>1, <1>2 DEF Arrives

(* Two groups of actors, one after the other. *)
LEMMA ArrivesBoth ==
  ASSUME NEW S, NEW es, NEW T, NEW et, Arrives(S, es), Arrives(T, et),
         \A b \in S : b \notin T
  PROVE  Arrives(S \cup T, es \o et)
<1>1. es \in Seq(Actors) /\ et \in Seq(Actors)
  BY Zenon DEF Arrives
<1>2. es \o et \in Seq(Actors)
  BY Zenon, <1>1, AppendQueue
<1>3. ASSUME NEW b \in Actors
      PROVE  (In(es \o et, b) <=> b \in S \cup T /\ Shared(b)) /\ Once(es \o et, b)
  <2>1. /\ In(es, b) <=> b \in S /\ Shared(b)
        /\ In(et, b) <=> b \in T /\ Shared(b)
        /\ Once(es, b) /\ Once(et, b)
    BY Zenon DEF Arrives
  <2>2. /\ In(es \o et, b) <=> In(es, b) \/ In(et, b)
        /\ Once(es, b) /\ Once(et, b) /\ ~(In(es, b) /\ In(et, b)) => Once(es \o et, b)
    BY Zenon, <1>1, AppendQueue
  <2> QED
    BY Zenon, <2>1, <2>2
<1> QED
  BY Zenon, <1>2, <1>3 DEF Arrives

(* A slice of x ends with its actor runnable; the other actors of S wake up. *)
SliceOver(x, S, es) ==
    /\ pc[x] \in Executing /\ S \subseteq Everyone /\ job[x] \in S
    /\ Arrives(S, es) /\ Enqueue(S, es)
    /\ \A b \in S : b = job[x] \/ status[b] # "runnable"
    /\ \A y \in Threads \ {x} : op[y] # None /\ op[y].kind = "spawn" => op[y].to \notin S
    /\ pc' = [pc EXCEPT ![x] = Onward(x)] /\ op' = [op EXCEPT ![x] = None]
    /\ status' \in [Everyone -> Statuses]
    /\ \A b \in Everyone : status'[b] = IF b \in S THEN "runnable" ELSE status[b]
    /\ mbox' \in [Everyone -> Nat] /\ \A b \in Everyone : Waits(b)'
    /\ http' = http /\ pumping' = pumping /\ job' = job /\ owner' = owner
    /\ effectful' = effectful /\ role' = role /\ general' = general /\ busy' = busy
    /\ rooted' = rooted /\ shutdown' = shutdown /\ running' = running

(* A slice that ends with its actor runnable keeps the invariant. *)
LEMMA SliceOverStep ==
  ASSUME MtInv, NEW x \in Threads, NEW S, NEW es, SliceOver(x, S, es)
  PROVE  MtInv'
<1> USE DEF SliceOver
<1> DEFINE l == Onward(x)
<1>1. TypeInv /\ None \in Ops
  BY Zenon DEF MtInv, Ops
<1>2. Runs(x, job[x]) /\ l # pc[x]
  BY Zenon, Executed
<1>3. Ending(x, l, S) /\ Nowhere(x, l, S)
  BY Zenon, <1>2 DEF Ending, Nowhere
<1>4. /\ op' \in [Threads -> Ops] /\ op'[x] = None
      /\ \A y \in Threads \ {x} : op'[y] = op[y]
  BY Zenon, <1>1 DEF TypeInv
<1>5. \A y \in Threads : op'[y] # None /\ op'[y].kind = "spawn" => op'[y].to \notin S
  BY Zenon, <1>4
<1>6. op'[x] = IF l = pc[x] THEN op[x] ELSE None
  BY Zenon, <1>2, <1>4
<1>7. x = Ctl \/ (pc[x] # "pump" /\ l # "pump")
  BY DEF Onward, Executing
<1>8. Pumps' /\ pumping' \in BOOLEAN
  BY Zenon, <1>7, PumpsFrame
<1>9. http' \in [Everyone -> BOOLEAN]
  BY Zenon, <1>1 DEF TypeInv
<1> HIDE DEF l
<1>10. pc' = [pc EXCEPT ![x] = l]
  BY DEF l
<1> QED
  BY Zenon, <1>3, <1>4, <1>5, <1>6, <1>8, <1>9, <1>10, EnqueueStep DEF Enqueues

(* The actors of S become runnable and no thread moves. *)
Wakes(S, es) ==
    /\ S \subseteq Everyone /\ Arrives(S, es) /\ Enqueue(S, es)
    /\ \A b \in S : status[b] # "runnable"
    /\ \A y \in Threads : op[y] # None /\ op[y].kind = "spawn" => op[y].to \notin S
    /\ status' \in [Everyone -> Statuses]
    /\ \A b \in Everyone : status'[b] = IF b \in S THEN "runnable" ELSE status[b]
    /\ mbox' \in [Everyone -> Nat]
    /\ \A b \in Everyone : Waits(b)'
    /\ http' = http /\ pumping' = pumping /\ pc' = pc /\ op' = op /\ job' = job
    /\ owner' = owner /\ effectful' = effectful /\ role' = role /\ general' = general
    /\ busy' = busy /\ rooted' = rooted /\ shutdown' = shutdown /\ running' = running

(* Actors wake up while every thread stays where it is. *)
LEMMA WakeStep ==
  ASSUME MtInv, NEW S, NEW es, Wakes(S, es)
  PROVE  MtInv'
<1> USE DEF Wakes
<1> DEFINE l == pc[Ctl]
<1>1. TypeInv /\ Ctl \in Threads
  BY Zenon, Names DEF MtInv
<1>2. pc' = [pc EXCEPT ![Ctl] = l]
  BY Zenon, <1>1, SameJob
<1>3. Ending(Ctl, l, S) /\ Nowhere(Ctl, l, S)
  BY Zenon DEF Ending, Nowhere
<1>4. /\ op' \in [Threads -> Ops] /\ http' \in [Everyone -> BOOLEAN]
      /\ op'[Ctl] = IF l = pc[Ctl] THEN op[Ctl] ELSE None
      /\ \A y \in Threads \ {Ctl} : op'[y] = op[y]
      /\ \A y \in Threads : op'[y] # None /\ op'[y].kind = "spawn" => op'[y].to \notin S
  BY Zenon, <1>1 DEF TypeInv
<1> HIDE DEF l
<1>5. Pumps' /\ pumping' \in BOOLEAN
  BY Zenon, <1>1, <1>2, PumpsFrame
<1> QED
  BY Zenon, <1>1, <1>2, <1>3, <1>4, <1>5, EnqueueStep DEF Enqueues

(* A request that is not served is no spawn; the actor of one is not there yet. *)
LEMMA ServiceFacts ==
  ASSUME MtInv, NEW y \in Threads
  PROVE  /\ pc[y] # "service" => op[y] = None /\ op = [op EXCEPT ![y] = None]
         /\ pc[y] = "service" => op[y] # None /\ op[y] \in Ops
         /\ op[y] # None /\ op[y].kind = "spawn" =>
              /\ status[op[y].to] = "new" /\ op[y].to \in Actors
              /\ \A z \in Threads : op[z] # None /\ op[z].kind = "spawn" /\ op[z].to = op[y].to
                                       => z = y
<1>1. Serves(y) /\ op \in [Threads -> Ops]
  BY Zenon DEF MtInv, TypeInv
<1>2. op[y] # None /\ op[y].kind = "spawn" => op[y].to \in Actors
  <2>1. op[y] \in Ops
    BY Zenon, <1>1
  <2> QED
    BY <2>1 DEF Ops
<1> QED
  BY Zenon, <1>1, <1>2 DEF Serves

(* The same actors wait as before. *)
LEMMA WaitsFrame ==
  ASSUME MtInv, http' = http, NEW b \in Everyone, status'[b] = status[b],
         status[b] = "runnable" \/ mbox'[b] = mbox[b]
  PROVE  Waits(b)'
<1>1. Waits(b)
  BY Zenon DEF MtInv
<1>2. Parked(b)' <=> Parked(b)
  BY Zenon DEF Parked
<1>3. Parked(b) => status[b] # "runnable"
  BY DEF Parked
<1>4. http'[b] => status'[b] = "blocked"
  BY Zenon, <1>1 DEF Waits
<1> QED
  BY Zenon, <1>1, <1>2, <1>3, <1>4 DEF Waits

(* An actor that becomes runnable waits for nothing. *)
LEMMA WakesUp ==
  ASSUME NEW b \in Everyone, ~http'[b], status'[b] = "runnable"
  PROVE  Waits(b)'
BY DEF Waits, Parked

(* An actor whose slice ends runnable has been runnable during the slice. *)
LEMMA SameStatus ==
  ASSUME MtInv, NEW x \in Threads, pc[x] \in Executing, status' = status
  PROVE  /\ status' \in [Everyone -> Statuses]
         /\ \A b \in Everyone : status'[b] = IF b \in {job[x]} THEN "runnable" ELSE status[b]
         /\ {job[x]} \subseteq Everyone /\ Arrives({job[x]}, ToQueue(job[x]))
         /\ \A b \in {job[x]} : b = job[x] \/ status[b] # "runnable"
         /\ \A y \in Threads \ {x} : op[y] # None /\ op[y].kind = "spawn" => op[y].to \notin {job[x]}
<1>1. TypeInv
  BY Zenon DEF MtInv
<1>2. job[x] \in Everyone /\ status[job[x]] = "runnable" /\ (job[x] = Root => rooted)
  BY Zenon, Executed, Names
<1>3. Arrives({job[x]}, ToQueue(job[x]))
  BY Zenon, <1>2, ArrivesOne
<1>4. ASSUME NEW y \in Threads, op[y] # None /\ op[y].kind = "spawn" PROVE op[y].to # job[x]
  <2>1. status[op[y].to] = "new"
    BY Zenon, <1>4, ServiceFacts
  <2> QED
    BY <1>2, <2>1
<1>5. status' \in [Everyone -> Statuses]
  BY Zenon, <1>1 DEF TypeInv
<1>6. \A b \in Everyone : status'[b] = IF b \in {job[x]} THEN "runnable" ELSE status[b]
  BY Zenon, <1>2
<1> QED
  BY Zenon, <1>2, <1>3, <1>4, <1>5, <1>6

(* A used-up quantum, and the end of a host call, keep the invariant. *)
LEMMA YieldStep ==
  ASSUME MtInv, NEW x \in Threads, Yield(x) \/ EndHost(x)
  PROVE  MtInv'
<1>1. /\ pc[x] \in {"slice", "service"} /\ Enqueue({job[x]}, ToQueue(job[x]))
      /\ pc' = [pc EXCEPT ![x] = Onward(x)]
      /\ op' = [op EXCEPT ![x] = None] \/ (op' = op /\ pc[x] # "service")
      /\ status' = status /\ mbox' = mbox /\ http' = http /\ effectful' = effectful
      /\ owner' = owner /\ pumping' = pumping /\ role' = role /\ general' = general
      /\ busy' = busy /\ job' = job /\ rooted' = rooted /\ shutdown' = shutdown
      /\ running' = running
  <2>1. CASE Yield(x)
    BY <2>1 DEF Yield, InSlice, EnqueueSignal, Goto, actors, flags
  <2>2. CASE EndHost(x)
    BY <2>2 DEF EndHost, EnqueueSignal, Goto, actors, flags
  <2> QED
    BY Zenon, <2>1, <2>2
<1>2. pc[x] \in Executing
  BY <1>1 DEF Executing
<1>3. op' = [op EXCEPT ![x] = None]
  BY Zenon, <1>1, ServiceFacts
<1>4. \A b \in Everyone : Waits(b)'
  BY Zenon, <1>1, WaitsFrame
<1>5. mbox' \in [Everyone -> Nat]
  BY Zenon, <1>1 DEF MtInv, TypeInv
<1>6. SliceOver(x, {job[x]}, ToQueue(job[x]))
  BY Zenon, <1>1, <1>2, <1>3, <1>4, <1>5, SameStatus DEF SliceOver
<1> QED
  BY Zenon, <1>6, SliceOverStep

(* A Recv that finds a message keeps the invariant. *)
LEMMA RecvTakeStep ==
  ASSUME MtInv, NEW x \in Threads, RecvTake(x)
  PROVE  MtInv'
<1>1. /\ pc[x] = "slice" /\ Enqueue({job[x]}, ToQueue(job[x]))
      /\ mbox[job[x]] > 0 /\ mbox' = [mbox EXCEPT ![job[x]] = @ - 1]
      /\ pc' = [pc EXCEPT ![x] = Onward(x)]
      /\ op' = op
      /\ status' = status /\ http' = http /\ effectful' = effectful
      /\ owner' = owner /\ pumping' = pumping /\ role' = role /\ general' = general
      /\ busy' = busy /\ job' = job /\ rooted' = rooted /\ shutdown' = shutdown
      /\ running' = running
  BY DEF RecvTake, Requesting, InSlice, EnqueueSignal, Goto, flags
<1>2. pc[x] \in Executing /\ pc[x] # "service"
  BY <1>1 DEF Executing
<1>3. op' = [op EXCEPT ![x] = None]
  BY Zenon, <1>1, <1>2, ServiceFacts
<1>4. job[x] \in Everyone /\ status[job[x]] = "runnable"
  BY Zenon, <1>2, Executed
<1>5. mbox \in [Everyone -> Nat]
  BY Zenon DEF MtInv, TypeInv
<1>6. mbox' \in [Everyone -> Nat] /\ \A b \in Everyone : b # job[x] => mbox'[b] = mbox[b]
  <2>1. mbox[job[x]] > 0 /\ mbox' = [mbox EXCEPT ![job[x]] = @ - 1]
    BY Zenon, <1>1
  <2> QED
    BY <1>4, <1>5, <2>1
<1>7. ASSUME NEW b \in Everyone PROVE Waits(b)'
  <2>1. status'[b] = status[b] /\ (status[b] = "runnable" \/ mbox'[b] = mbox[b])
    BY Zenon, <1>1, <1>4, <1>6
  <2> QED
    BY Zenon, <1>1, <2>1, WaitsFrame
<1>8. SliceOver(x, {job[x]}, ToQueue(job[x]))
  BY Zenon, <1>1, <1>2, <1>3, <1>6, <1>7, SameStatus DEF SliceOver
<1> QED
  BY Zenon, <1>8, SliceOverStep

(* er_deliver. *)
LEMMA DeliverFacts ==
  ASSUME MtInv, NEW a \in Everyone, Deliver(a), http' = http
  PROVE  /\ status' \in [Everyone -> Statuses] /\ mbox' \in [Everyone -> Nat]
         /\ \A b \in Everyone : status'[b] = IF b \in Woken(a) THEN "runnable" ELSE status[b]
         /\ \A b \in Everyone : Waits(b)'
         /\ \A b \in Woken(a) : b = a /\ b \in Everyone /\ status[b] = "blocked"
         /\ Arrives(Woken(a), WokenToQueue(a))
<1>1. TypeInv /\ Waits(a) /\ CtlGood
  BY Zenon DEF MtInv
<1>2. CASE Parked(a)
  <2>1. /\ Woken(a) = {a} /\ WokenToQueue(a) = ToQueue(a)
        /\ status' = [status EXCEPT ![a] = "runnable"] /\ mbox' = [mbox EXCEPT ![a] = mbox[a]]
        /\ status[a] = "blocked" /\ ~http[a]
    BY Zenon, <1>2 DEF Woken, WokenToQueue, Deliver, Parked
  <2>2. a = Root => rooted
    <3>1. a = Root => pc[Ctl] \in {"drive", "deadlock"}
      BY Zenon, <1>1, <2>1 DEF CtlGood
    <3> QED
      BY <1>1, <3>1 DEF CtlGood, DrivePCs
  <2>3. Arrives({a}, ToQueue(a))
    BY Zenon, <2>2, ArrivesOne
  <2>4. /\ status' \in [Everyone -> Statuses]
        /\ \A b \in Everyone : status'[b] = IF b \in {a} THEN "runnable" ELSE status[b]
    <3>1. status \in [Everyone -> Statuses] /\ "runnable" \in Statuses
      BY <1>1 DEF TypeInv, Statuses
    <3> QED
      BY Zenon, <2>1, <3>1
  <2>5. mbox' = mbox /\ mbox' \in [Everyone -> Nat]
    BY Zenon, <1>1, <2>1 DEF TypeInv
  <2>6. ASSUME NEW b \in Everyone PROVE Waits(b)'
    <3>1. CASE b = a
      <4>1. ~http'[b] /\ status'[b] = "runnable"
        BY Zenon, <2>1, <2>4, <3>1
      <4> QED
        BY Zenon, <4>1, WakesUp
    <3>2. CASE b # a
      <4>1. status'[b] = status[b] /\ mbox'[b] = mbox[b]
        BY Zenon, <2>4, <2>5, <3>2
      <4> QED
        BY Zenon, <4>1, WaitsFrame
    <3> QED
      BY Zenon, <3>1, <3>2
  <2> QED
    BY Zenon, <2>1, <2>3, <2>4, <2>5, <2>6
<1>3. CASE ~Parked(a)
  <2>1. /\ Woken(a) = {} /\ WokenToQueue(a) = <<>>
        /\ status' = [status EXCEPT ![a] = status[a]] /\ mbox' = [mbox EXCEPT ![a] = mbox[a] + 1]
    BY Zenon, <1>3 DEF Woken, WokenToQueue, Deliver
  <2>2. status' = status /\ status' \in [Everyone -> Statuses]
    BY Zenon, <1>1, <2>1 DEF TypeInv
  <2>3. /\ mbox' \in [Everyone -> Nat]
        /\ \A b \in Everyone : b # a => mbox'[b] = mbox[b]
    <3>1. mbox \in [Everyone -> Nat]
      BY Zenon, <1>1 DEF TypeInv
    <3> QED
      BY <2>1, <3>1
  <2>4. ASSUME NEW b \in Everyone PROVE Waits(b)'
    <3>1. CASE b = a
      <4>1. ~Parked(b)'
        BY Zenon, <1>3, <2>2, <3>1 DEF Parked
      <4>2. http'[b] => status'[b] = "blocked"
        BY Zenon, <1>1, <2>2, <3>1 DEF Waits
      <4> QED
        BY Zenon, <4>1, <4>2 DEF Waits
    <3>2. CASE b # a
      <4>1. status'[b] = status[b] /\ mbox'[b] = mbox[b]
        BY Zenon, <2>2, <2>3, <3>2
      <4> QED
        BY Zenon, <4>1, WaitsFrame
    <3> QED
      BY Zenon, <3>1, <3>2
  <2> QED
    BY Zenon, <2>1, <2>2, <2>3, <2>4, ArrivesNone
<1> QED
  BY Zenon, <1>2, <1>3

(* An actor that is to be spawned is not the one that wakes up. *)
LEMMA NotSpawned ==
  ASSUME MtInv, NEW S, \A b \in S : status[b] # "new", NEW y \in Threads,
         op[y] # None, op[y].kind = "spawn"
  PROVE  op[y].to \notin S
BY Zenon, ServiceFacts

(* er_scheduler_inject keeps the invariant. *)
LEMMA InjectStep ==
  ASSUME MtInv, NEW a \in Everyone, Inject(a)
  PROVE  MtInv'
<1>1. /\ Deliver(a) /\ Enqueue(Woken(a), WokenToQueue(a))
      /\ http' = http /\ effectful' = effectful /\ pc' = pc /\ op' = op
      /\ owner' = owner /\ pumping' = pumping /\ role' = role /\ general' = general
      /\ busy' = busy /\ job' = job /\ rooted' = rooted /\ shutdown' = shutdown
      /\ running' = running
  BY DEF Inject, EnqueueSignal, flags
<1>2. /\ status' \in [Everyone -> Statuses] /\ mbox' \in [Everyone -> Nat]
      /\ \A b \in Everyone : status'[b] = IF b \in Woken(a) THEN "runnable" ELSE status[b]
      /\ \A b \in Everyone : Waits(b)'
      /\ \A b \in Woken(a) : b = a /\ b \in Everyone /\ status[b] = "blocked"
      /\ Arrives(Woken(a), WokenToQueue(a))
  BY Zenon, <1>1, DeliverFacts
<1>3. /\ Woken(a) \subseteq Everyone
      /\ \A b \in Woken(a) : status[b] # "runnable" /\ status[b] # "new"
  BY <1>2
<1>4. \A y \in Threads : op[y] # None /\ op[y].kind = "spawn" => op[y].to \notin Woken(a)
  BY Zenon, <1>3, NotSpawned
<1> QED
  BY Zenon, <1>1, <1>2, <1>3, <1>4, WakeStep DEF Wakes

(* A message that is delivered keeps the invariant. *)
LEMMA EndSendStep ==
  ASSUME MtInv, NEW x \in Threads, EndSend(x)
  PROVE  MtInv'
<1> DEFINE a == op[x].to
<1>0. PICK S, es : S = Woken(a) \cup {job[x]} /\ es = WokenToQueue(a) \o ToQueue(job[x])
  OBVIOUS
<1>1. /\ pc[x] = "service" /\ op[x].kind = "send"
      /\ Deliver(a) /\ Enqueue(S, es)
      /\ op' = [op EXCEPT ![x] = None] /\ pc' = [pc EXCEPT ![x] = Onward(x)]
      /\ http' = http /\ effectful' = effectful
      /\ owner' = owner /\ pumping' = pumping /\ role' = role /\ general' = general
      /\ busy' = busy /\ job' = job /\ rooted' = rooted /\ shutdown' = shutdown
      /\ running' = running
  BY <1>0 DEF EndSend, EnqueueSignal, Goto, flags
<1>2. pc[x] \in Executing
  BY <1>1 DEF Executing
<1>3. a \in Everyone
  <2>1. op[x] \in Ops /\ op[x] # None
    BY Zenon, <1>1, ServiceFacts
  <2> QED
    BY <1>1, <2>1 DEF Ops
<1>4. job[x] \in Everyone /\ status[job[x]] = "runnable" /\ (job[x] = Root => rooted)
  BY Zenon, <1>2, Executed, Names
<1>5. /\ status' \in [Everyone -> Statuses] /\ mbox' \in [Everyone -> Nat]
      /\ \A b \in Everyone : status'[b] = IF b \in Woken(a) THEN "runnable" ELSE status[b]
      /\ \A b \in Everyone : Waits(b)'
      /\ \A b \in Woken(a) : b = a /\ b \in Everyone /\ status[b] = "blocked"
      /\ Arrives(Woken(a), WokenToQueue(a))
  BY Zenon, <1>1, <1>3, DeliverFacts
<1>6. \A b \in Woken(a) : status[b] # "runnable" /\ status[b] # "new" /\ b \notin {job[x]}
  BY <1>4, <1>5
<1>7. Arrives(S, es)
  <2>1. Arrives({job[x]}, ToQueue(job[x]))
    BY Zenon, <1>4, ArrivesOne
  <2> QED
    BY Zenon, <1>0, <1>5, <1>6, <2>1, ArrivesBoth
<1>8. /\ S \subseteq Everyone /\ job[x] \in S
      /\ \A b \in S : b = job[x] \/ status[b] # "runnable"
      /\ \A b \in Everyone : status'[b] = IF b \in S THEN "runnable" ELSE status[b]
  BY Zenon, <1>0, <1>4, <1>5, <1>6
<1>9. ASSUME NEW y \in Threads \ {x}, op[y] # None, op[y].kind = "spawn" PROVE op[y].to \notin S
  <2>1. \A b \in S : status[b] # "new"
    BY <1>0, <1>4, <1>6
  <2> QED
    BY Zenon, <1>9, <2>1, NotSpawned
<1>10. SliceOver(x, S, es)
  BY Zenon, <1>1, <1>2, <1>5, <1>7, <1>8, <1>9 DEF SliceOver
<1> QED
  BY Zenon, <1>10, SliceOverStep

(* An actor that starts to exist. *)
LEMMA BirthFacts ==
  ASSUME MtInv, NEW a \in Actors, status[a] = "new", status' = [status EXCEPT ![a] = "runnable"],
         http' = http, mbox' = mbox
  PROVE  /\ status' \in [Everyone -> Statuses] /\ mbox' \in [Everyone -> Nat]
         /\ \A b \in Everyone : status'[b] = IF b = a THEN "runnable" ELSE status[b]
         /\ \A b \in Everyone : Waits(b)'
         /\ Arrives({a}, ToQueue(a))
<1>1. a \in Everyone /\ a # Root /\ TypeInv
  BY Zenon, Names DEF MtInv
<1>2. Arrives({a}, ToQueue(a))
  BY Zenon, <1>1, ArrivesOne
<1>3. status \in [Everyone -> Statuses] /\ "runnable" \in Statuses /\ mbox \in [Everyone -> Nat]
  BY <1>1 DEF TypeInv, Statuses
<1>4. /\ status' \in [Everyone -> Statuses]
      /\ \A b \in Everyone : status'[b] = IF b = a THEN "runnable" ELSE status[b]
  BY Zenon, <1>1, <1>3
<1>5. ASSUME NEW b \in Everyone PROVE Waits(b)'
  <2>1. CASE b = a
    <3>1. Waits(a)
      BY Zenon, <1>1 DEF MtInv
    <3>2. ~http[a]
      BY <3>1 DEF Waits
    <3>3. ~http'[b] /\ status'[b] = "runnable"
      BY Zenon, <1>4, <2>1, <3>2
    <3> QED
      BY Zenon, <3>3, WakesUp
  <2>2. CASE b # a
    <3>1. status'[b] = status[b] /\ mbox'[b] = mbox[b]
      BY Zenon, <1>4, <2>2
    <3> QED
      BY Zenon, <3>1, WaitsFrame
  <2> QED
    BY Zenon, <2>1, <2>2
<1> QED
  BY Zenon, <1>2, <1>3, <1>4, <1>5

(* An actor started by the embedder keeps the invariant. *)
LEMMA HostStartStep ==
  ASSUME MtInv, NEW a \in Actors, HostStart(a)
  PROVE  MtInv'
<1>1. /\ status[a] = "new" /\ status' = [status EXCEPT ![a] = "runnable"]
      /\ ~Spawning(a)
      /\ Enqueue({a}, ToQueue(a)) /\ mbox' = mbox
      /\ http' = http /\ effectful' = effectful /\ pc' = pc /\ op' = op
      /\ owner' = owner /\ pumping' = pumping /\ role' = role /\ general' = general
      /\ busy' = busy /\ job' = job /\ rooted' = rooted /\ shutdown' = shutdown
      /\ running' = running
  BY DEF HostStart, Exists, EnqueueSignal, flags
<1>2. /\ status' \in [Everyone -> Statuses] /\ mbox' \in [Everyone -> Nat]
      /\ \A b \in Everyone : status'[b] = IF b = a THEN "runnable" ELSE status[b]
      /\ \A b \in Everyone : Waits(b)'
      /\ Arrives({a}, ToQueue(a))
  BY Zenon, <1>1, BirthFacts
<1>3. /\ {a} \subseteq Everyone
      /\ \A b \in {a} : status[b] # "runnable"
  BY <1>1 DEF Everyone
<1>4. \A y \in Threads : op[y] # None /\ op[y].kind = "spawn" => op[y].to \notin {a}
  BY Zenon, <1>1 DEF Spawning
<1>5. \A b \in Everyone : status'[b] = IF b \in {a} THEN "runnable" ELSE status[b]
  BY Zenon, <1>2
<1> QED
  BY Zenon, <1>1, <1>2, <1>3, <1>4, <1>5, WakeStep DEF Wakes

(* An actor that is spawned keeps the invariant. *)
LEMMA EndSpawnStep ==
  ASSUME MtInv, NEW x \in Threads, EndSpawn(x)
  PROVE  MtInv'
<1> DEFINE a == op[x].to
           S == {a} \cup {job[x]}
           es == ToQueue(a) \o ToQueue(job[x])
<1>1. /\ pc[x] = "service" /\ op[x].kind = "spawn"
      /\ status' = [status EXCEPT ![a] = "runnable"] /\ Enqueue({a, job[x]}, es)
      /\ op' = [op EXCEPT ![x] = None] /\ pc' = [pc EXCEPT ![x] = Onward(x)]
      /\ http' = http /\ effectful' = effectful /\ mbox' = mbox
      /\ owner' = owner /\ pumping' = pumping /\ role' = role /\ general' = general
      /\ busy' = busy /\ job' = job /\ rooted' = rooted /\ shutdown' = shutdown
      /\ running' = running
  BY DEF EndSpawn, EnqueueSignal, Goto, flags
<1>2. pc[x] \in Executing
  BY <1>1 DEF Executing
<1>3. /\ a \in Actors /\ a \in Everyone /\ status[a] = "new"
      /\ \A z \in Threads : op[z] # None /\ op[z].kind = "spawn" /\ op[z].to = a => z = x
  <2>1. op[x] # None
    BY Zenon, <1>1, ServiceFacts
  <2> QED
    BY Zenon, <1>1, <2>1, ServiceFacts, Names
<1>4. job[x] \in Everyone /\ status[job[x]] = "runnable" /\ (job[x] = Root => rooted)
  BY Zenon, <1>2, Executed, Names
<1>5. /\ status' \in [Everyone -> Statuses] /\ mbox' \in [Everyone -> Nat]
      /\ \A b \in Everyone : status'[b] = IF b = a THEN "runnable" ELSE status[b]
      /\ \A b \in Everyone : Waits(b)'
      /\ Arrives({a}, ToQueue(a))
  BY Zenon, <1>1, <1>3, BirthFacts
<1>6. status[a] # "runnable" /\ a # job[x]
  BY <1>3, <1>4
<1>7. Arrives(S, es)
  <2>1. Arrives({job[x]}, ToQueue(job[x]))
    BY Zenon, <1>4, ArrivesOne
  <2>2. \A b \in {a} : b \notin {job[x]}
    BY Zenon, <1>6
  <2> QED
    BY Zenon, <1>5, <2>1, <2>2, ArrivesBoth
<1>8. /\ S \subseteq Everyone /\ job[x] \in S /\ {a, job[x]} = S
      /\ \A b \in S : b = job[x] \/ status[b] # "runnable"
      /\ \A b \in Everyone : status'[b] = IF b \in S THEN "runnable" ELSE status[b]
  BY Zenon, <1>3, <1>4, <1>5, <1>6
<1>9. ASSUME NEW y \in Threads \ {x}, op[y] # None, op[y].kind = "spawn" PROVE op[y].to \notin S
  <2>1. op[y].to # a
    BY Zenon, <1>3, <1>9
  <2>2. status[op[y].to] = "new"
    BY Zenon, <1>9, ServiceFacts
  <2>3. op[y].to # job[x]
    BY <1>4, <2>2
  <2> QED
    BY Zenon, <2>1, <2>3
<1>10. Enqueue(S, es)
  BY Zenon, <1>1, <1>8
<1> HIDE DEF S, es
<1>11. SliceOver(x, S, es)
  BY Zenon, <1>1, <1>2, <1>5, <1>7, <1>8, <1>9, <1>10 DEF SliceOver
<1> QED
  BY Zenon, <1>11, SliceOverStep

(* The end of a poll, with the actors it resumes, keeps the invariant. *)
LEMMA PumpEndStep ==
  ASSUME MtInv, NEW w \in Workers, PumpEnd(w)
  PROVE  MtInv'
<1>1. PICK done \in SUBSET {a \in Everyone : http[a]} :
        /\ http' = [a \in Everyone |-> http[a] /\ a \notin done]
        /\ status' = [a \in Everyone |-> IF a \in done THEN "runnable" ELSE status[a]]
        /\ \E es \in Orders({a \in done : Shared(a)}) : Enqueue(done, es)
  BY Zenon DEF PumpEnd
<1>2. PICK es \in Orders({a \in done : Shared(a)}) : Enqueue(done, es)
  BY Zenon, <1>1
<1>3. /\ pc[w] = "pump" /\ pumping' = FALSE /\ pc' = [pc EXCEPT ![w] = "pumped"]
      /\ mbox' = mbox /\ effectful' = effectful /\ op' = op
      /\ owner' = owner /\ role' = role /\ general' = general
      /\ busy' = busy /\ job' = job /\ rooted' = rooted /\ shutdown' = shutdown
      /\ running' = running
  BY DEF PumpEnd, Goto, flags
<1>4. TypeInv /\ CtlGood /\ w \in Threads /\ Pumps
  BY Zenon, Names DEF MtInv
<1>5. done \subseteq Everyone /\ \A b \in done : http[b] /\ status[b] = "blocked"
  <2>1. \A b \in done : http[b] /\ b \in Everyone
    BY Zenon
  <2> QED
    BY Zenon, <2>1 DEF MtInv, Waits
<1>6. {a \in done : Shared(a)} \subseteq Actors
  <2>1. ASSUME Root \in done PROVE rooted
    <3>1. pc[Ctl] \in {"drive", "deadlock"}
      BY Zenon, <1>4, <1>5, <2>1 DEF CtlGood
    <3> QED
      BY <1>4, <3>1 DEF CtlGood, DrivePCs
  <2> QED
    BY Zenon, <1>5, <2>1, Names DEF Shared
<1>7. Arrives(done, es)
  <2>1. \A b : es \in Seq(Actors) /\ (In(es, b) <=> b \in {a \in done : Shared(a)}) /\ Once(es, b)
    BY Zenon, <1>6, OrdersFacts
  <2> QED
    BY Zenon, <2>1 DEF Arrives
<1>8. Ending(w, "pumped", done)
  BY Zenon, <1>3 DEF Ending
<1>9. \A b \in done : status[b] # "runnable" /\ status[b] # "new"
  BY <1>5
<1>10. Nowhere(w, "pumped", done)
  BY Zenon, <1>9 DEF Nowhere
<1>11. /\ status' \in [Everyone -> Statuses]
       /\ \A b \in Everyone : status'[b] = IF b \in done THEN "runnable" ELSE status[b]
  <2>1. status \in [Everyone -> Statuses] /\ "runnable" \in Statuses
    BY <1>4 DEF TypeInv, Statuses
  <2> QED
    BY Zenon, <1>1, <2>1
<1>12. /\ http' \in [Everyone -> BOOLEAN]
       /\ \A b \in Everyone : http'[b] <=> http[b] /\ b \notin done
  <2>1. http \in [Everyone -> BOOLEAN]
    BY Zenon, <1>4 DEF TypeInv
  <2> QED
    BY <1>1, <2>1
<1>13. ASSUME NEW b \in Everyone PROVE Waits(b)'
  <2>1. CASE b \in done
    BY Zenon, <1>11, <1>12, <2>1, WakesUp
  <2>2. CASE b \notin done
    <3>1. Waits(b) /\ status'[b] = status[b] /\ (http'[b] <=> http[b]) /\ mbox'[b] = mbox[b]
      BY Zenon, <1>3, <1>11, <1>12, <2>2 DEF MtInv
    <3> QED
      BY Zenon, <3>1 DEF Waits, Parked
  <2> QED
    BY Zenon, <2>1, <2>2
<1>14. Pumps' /\ pumping' \in BOOLEAN
  <2>1. pc'[w] = "pumped" /\ \A y \in Threads \ {w} : pc'[y] = pc[y]
    BY Zenon, <1>3, <1>4, MoveFacts
  <2>2. \A v \in Workers : pc'[v] # "pump"
    <3>1. pc'[w] # "pump"
      BY <2>1
    <3>2. \A v \in Workers : v # w => pc'[v] = pc[v] /\ pc[v] # "pump"
      BY Zenon, <1>3, <1>4, <2>1, Names DEF Pumps
    <3> QED
      BY Zenon, <3>1, <3>2
  <2> QED
    BY Zenon, <1>3, <2>2 DEF Pumps
<1>15. /\ op' \in [Threads -> Ops] /\ mbox' \in [Everyone -> Nat]
       /\ op'[w] = IF "pumped" = pc[w] THEN op[w] ELSE None
       /\ \A y \in Threads \ {w} : op'[y] = op[y]
  <2>1. op[w] = None
    <3>1. pc[w] # "service"
      BY <1>3
    <3> QED
      BY Zenon, <1>4, <3>1, ServiceFacts
  <2> QED
    BY Zenon, <1>3, <1>4, <2>1 DEF TypeInv
<1>16. \A y \in Threads : op'[y] # None /\ op'[y].kind = "spawn" => op'[y].to \notin done
  BY Zenon, <1>3, <1>9, NotSpawned
<1> QED
  BY Zenon, <1>2, <1>3, <1>4, <1>5, <1>7, <1>8, <1>10, <1>11, <1>12, <1>13, <1>14, <1>15,
     <1>16, EnqueueStep DEF Enqueues

-----------------------------------------------------------------------------
(* Slices that end otherwise, and requests that are taken up.               *)

(* A slice of x ends with its actor in the state st. *)
Leaves(x, l, st) ==
    /\ pc[x] \in Executing /\ pc' = [pc EXCEPT ![x] = l]
    /\ \/ x \in Workers /\ l = "after" /\ st \in {"blocked", "halted", "crashed"}
       \/ x = Ctl /\ l = "drive" /\ st = "blocked"
       \/ x = Ctl /\ l = "finish" /\ st = "runnable"
    /\ status' = [status EXCEPT ![job[x]] = st]
    /\ op' = [op EXCEPT ![x] = None]
    /\ http' \in [Everyone -> BOOLEAN] /\ \A b \in Everyone : Waits(b)'
    /\ mbox' = mbox /\ effectful' = effectful /\ owner' = owner /\ queue' = queue
    /\ pumping' = pumping /\ role' = role /\ ready' = ready /\ general' = general
    /\ readyBound' = readyBound /\ busy' = busy /\ job' = job /\ rooted' = rooted
    /\ shutdown' = shutdown /\ running' = running

(* A slice that ends with its actor parked or terminated keeps the          *)
(* invariant.                                                               *)
LEMMA LeaveStep ==
  ASSUME MtInv, NEW x \in Threads, NEW l, NEW st, Leaves(x, l, st)
  PROVE  MtInv'
<1> DEFINE j == job[x]
<1>1. TypeInv /\ Ctl \in Threads /\ None \in Ops /\ CtlGood
  BY Zenon, Names DEF MtInv, Ops
<1>2. /\ j \in Everyone /\ status[j] = "runnable" /\ Runs(x, j)
      /\ x = Ctl => j = Root /\ rooted
      /\ x # Ctl => x \in Workers /\ j \in Actors
  BY Zenon, Executed DEF Leaves
<1>3. /\ l \in WorkerPCs \cup CtlPCs /\ l \notin Executing /\ st \in Statuses
      /\ l \notin {"pump", "none", "loop", "exit", "service", "free", "join", "out"}
      /\ x # Ctl => l = "after" /\ st # "runnable" /\ l \in BusyPCs /\ l \in WorkerPCs
  BY Names DEF Leaves, WorkerPCs, CtlPCs, Executing, Statuses, BusyPCs
<1>4. pc'[x] = l /\ (\A y \in Threads \ {x} : pc'[y] = pc[y])
      /\ pc' \in [Threads -> WorkerPCs \cup CtlPCs]
  BY Zenon, <1>1, <1>3, MoveFacts, MoveType DEF Leaves
<1>5. /\ status' \in [Everyone -> Statuses] /\ status'[j] = st
      /\ \A b \in Everyone : b # j => status'[b] = status[b]
  BY Zenon, <1>1, <1>2, <1>3 DEF Leaves, TypeInv
<1>6. /\ op' \in [Threads -> Ops] /\ op'[x] = None
      /\ \A y \in Threads \ {x} : op'[y] = op[y]
  BY Zenon, <1>1 DEF Leaves, TypeInv
<1>7. TypeInv'
  BY Zenon, <1>1, <1>4, <1>5, <1>6 DEF TypeInv, Leaves
<1>8. CtlGood'
  <2>0. /\ rooted' = rooted /\ job' = job /\ shutdown' = shutdown /\ running' = running
        /\ owner' = owner
    BY Zenon DEF Leaves
  <2>1. CASE x = Ctl
    <3>1. /\ pc[Ctl] \in Executing /\ pc'[Ctl] = l /\ status'[Root] = st
          /\ (l = "drive" /\ st = "blocked") \/ (l = "finish" /\ st = "runnable")
      BY Zenon, <1>2, <1>4, <1>5, <2>1, Names DEF Leaves
    <3>2. /\ pc[Ctl] \notin {"join", "free"} /\ l \in CtlPCs /\ l \in DrivePCs \ {"drain"}
          /\ st = "blocked" => l = "drive"
      BY <3>1 DEF Executing, CtlPCs, DrivePCs
    <3> QED
      BY <1>1, <1>2, <1>3, <2>0, <2>1, <3>1, <3>2 DEF CtlGood
  <2>2. CASE x # Ctl
    <3>1. pc'[Ctl] = pc[Ctl] /\ status'[Root] = status[Root]
      BY Zenon, <1>1, <1>2, <1>4, <1>5, <2>2, Names
    <3>2. pc[Ctl] = "free" => \A w \in Workers : pc'[w] = "none"
      <4>1. pc[Ctl] # "free"
        <5>1. pc[Ctl] = "free" => pc[x] = "none"
          BY Zenon, <1>1, <1>2, <2>2 DEF CtlGood
        <5> QED
          BY <5>1 DEF Executing, Leaves
      <4> QED
        BY Zenon, <4>1
    <3> QED
      BY Zenon, <1>1, <2>0, <3>1, <3>2 DEF CtlGood
  <2> QED
    BY Zenon, <2>1, <2>2
<1>9. \A b \in Everyone : Waits(b)'
  BY Zenon DEF Leaves
<1>10. ASSUME NEW a \in Actors PROVE Placed(a)'
  <2>1. Placed(a) /\ a \in Everyone /\ a # Root
    BY Zenon, Names DEF MtInv
  <2>2. queue' = queue /\ ready' = ready /\ owner' = owner /\ job' = job
    BY Zenon DEF Leaves
  <2>3. CASE a = j
    <3>1. x # Ctl /\ status'[a] # "runnable"
      BY Zenon, <1>2, <1>3, <1>5, <2>1, <2>3
    <3>2. IsRun(a)
      BY Zenon, <1>2, <2>3 DEF IsRun
    <3>3. ~In(queue, a) /\ ~IsReady(a) /\ \A y \in Threads : Runs(y, a) => y = x
      BY Zenon, <1>2, <2>1, <2>3, <3>2 DEF Placed
    <3>4. \A y \in Threads : ~Runs(y, a)'
      BY Zenon, <1>3, <1>4, <2>2, <3>3 DEF Runs
    <3>5. ~In(queue', a) /\ ~IsReady(a)' /\ ~IsRun(a)' /\ Once(queue', a)
      BY Zenon, <2>1, <2>2, <3>3, <3>4 DEF IsReady, IsRun, Placed
    <3> QED
      BY Zenon, <3>1, <3>4, <3>5 DEF Placed
  <2>4. CASE a # j
    <3>1. \A y \in Threads : Runs(y, a)' <=> Runs(y, a)
      BY Zenon, <1>4, <2>2, <2>4 DEF Runs
    <3>2. /\ status'[a] = status[a] /\ owner'[a] = owner[a]
          /\ In(queue', a) <=> In(queue, a)
          /\ Once(queue', a)
          /\ \A w \in Workers : owner[a] = w => (ready'[w] <=> ready[w])
      BY Zenon, <1>5, <2>1, <2>2, <2>4 DEF Placed
    <3> QED
      BY Zenon, <2>1, <3>1, <3>2, PlacedFrame
  <2> QED
    BY Zenon, <2>3, <2>4
<1>11. ASSUME NEW a \in Actors PROVE Owned(a)'
  <2>1. Owned(a) /\ a \in Everyone /\ a # Root /\ owner[a] \in Workers \cup {None}
    BY Zenon, <1>1, Names DEF MtInv, TypeInv
  <2>2. role' = role /\ owner' = owner /\ job' = job /\ effectful' = effectful
    BY Zenon DEF Leaves
  <2>3. ASSUME owner[a] # None, status'[a] \in Terminated
        PROVE  pc'[owner[a]] = "after" /\ job[owner[a]] = a
    <3>0. owner[a] \in Workers /\ owner[a] \in Threads
      BY Zenon, <2>1, <2>3, Names
    <3>1. CASE a = j
      <4>1. x # Ctl
        BY Zenon, <1>2, <2>1, <3>1
      <4>2. owner[a] = x
        <5>1. WorkerGood(x) /\ effectful[a]
          BY Zenon, <1>2, <2>1, <2>3, <4>1 DEF MtInv, Owned
        <5> QED
          BY Zenon, <3>1, <5>1 DEF WorkerGood, Leaves
      <4> QED
        BY Zenon, <1>3, <1>4, <3>1, <4>1, <4>2
    <3>2. CASE a # j
      <4>1. status[a] \in Terminated
        BY Zenon, <1>5, <2>1, <2>3, <3>2
      <4>2. pc[owner[a]] = "after" /\ job[owner[a]] = a
        BY Zenon, <2>1, <2>3, <4>1 DEF Owned
      <4>3. owner[a] # x
        BY Zenon, <3>2, <4>2
      <4> QED
        BY Zenon, <1>4, <3>0, <4>2, <4>3
    <3> QED
      BY Zenon, <3>1, <3>2
  <2> QED
    BY Zenon, <2>1, <2>2, <2>3 DEF Owned
<1>12. ASSUME NEW w \in Workers PROVE WorkerGood(w)'
  <2>1. WorkerGood(w) /\ w \in Threads
    BY Zenon, Names DEF MtInv
  <2>2. /\ role' = role /\ owner' = owner /\ job' = job /\ effectful' = effectful
        /\ ready' = ready /\ shutdown' = shutdown
    BY Zenon DEF Leaves
  <2>3. CASE w = x
    <3>1. /\ pc'[w] = "after" /\ pc[w] \in Executing /\ pc[w] \in BusyPCs
      BY Zenon, <1>3, <1>4, <2>3, Names, Places DEF Leaves
    <3>2. pc[w] \notin {"none", "loop", "exit"} /\ "after" \notin Executing
          /\ "after" \in WorkerPCs
      BY <3>1, Places DEF BusyPCs
    <3> QED
      BY <2>1, <2>2, <3>1, <3>2 DEF WorkerGood
  <2>4. CASE w # x
    <3>1. pc'[w] = pc[w]
      BY Zenon, <1>4, <2>1, <2>4
    <3> QED
      BY Zenon, <2>1, <2>2, <3>1 DEF WorkerGood
  <2> QED
    BY Zenon, <2>3, <2>4
<1>13. ASSUME NEW y \in Threads PROVE Serves(y)'
  <2>1. Serves(y)
    BY Zenon DEF MtInv
  <2>2. CASE y = x
    <3>1. op'[y] = None /\ pc'[y] # "service"
      BY Zenon, <1>3, <1>4, <1>6, <2>2
    <3> QED
      BY Zenon, <3>1 DEF Serves
  <2>3. CASE y # x
    <3>1. op'[y] = op[y] /\ pc'[y] = pc[y]
      BY Zenon, <1>4, <1>6, <2>3
    <3>2. \A z \in Threads : op'[z] # None => op'[z] = op[z]
      BY Zenon, <1>6
    <3>3. ASSUME op[y] # None, op[y].kind = "spawn" PROVE status'[op[y].to] = "new"
      <4>1. status[op[y].to] = "new" /\ op[y].to \in Everyone
        BY Zenon, <3>3, ServiceFacts, Names
      <4>2. op[y].to # j
        BY <1>2, <4>1
      <4> QED
        BY Zenon, <1>5, <4>1, <4>2
    <3> QED
      BY Zenon, <2>1, <3>1, <3>2, <3>3 DEF Serves
  <2> QED
    BY Zenon, <2>2, <2>3
<1>14. Pumps'
  <2>1. /\ pc[x] # "pump" /\ l # "pump" /\ pc' = [pc EXCEPT ![x] = l] /\ pumping' = pumping
    BY <1>3 DEF Leaves, Executing
  <2> QED
    BY Zenon, <2>1, PumpsFrame
<1>15. Counts'
  <2>1. Counts /\ Pool' = Pool /\ ReadyOnes' = ReadyOnes
    BY Zenon DEF MtInv, Pool, ReadyOnes, Leaves
  <2>2. \A w \in Workers : pc'[w] \in BusyPCs <=> pc[w] \in BusyPCs
    BY Zenon, <1>3, <1>4, Names, Places DEF Leaves
  <2>3. BusyOnes' = BusyOnes
    BY Zenon, <2>2 DEF BusyOnes
  <2>4. pc[Ctl] # "free"
    <3>1. x = Ctl => pc[Ctl] \in Executing
      BY Zenon DEF Leaves
    <3>2. x # Ctl => pc[x] # "none" /\ x \in Workers
      BY Zenon, <1>2, Places DEF Leaves
    <3>3. "free" \notin Executing
      BY DEF Executing
    <3> QED
      BY Zenon, <1>1, <3>1, <3>2, <3>3 DEF CtlGood
  <2>5. general' = general /\ readyBound' = readyBound /\ busy' = busy
    BY Zenon DEF Leaves
  <2> QED
    BY Zenon, <2>1, <2>3, <2>4, <2>5 DEF Counts
<1> QED
  BY Zenon, <1>7, <1>8, <1>9, <1>10, <1>11, <1>12, <1>13, <1>14, <1>15 DEF MtInv

(* An actor that parks, or is over, waits for nothing that has come. *)
LEMMA LeavesWaits ==
  ASSUME MtInv, NEW x \in Threads, pc[x] \in Executing, NEW st,
         status' = [status EXCEPT ![job[x]] = st], http' = http, mbox' = mbox,
         st # "blocked" \/ mbox[job[x]] = 0
  PROVE  http' \in [Everyone -> BOOLEAN] /\ \A b \in Everyone : Waits(b)'
<1>1. TypeInv /\ job[x] \in Everyone /\ ~http[job[x]]
  BY Zenon, Executed DEF MtInv
<1>2. /\ status'[job[x]] = st
      /\ \A b \in Everyone : b # job[x] => status'[b] = status[b]
  BY Zenon, <1>1 DEF TypeInv
<1>3. ASSUME NEW b \in Everyone PROVE Waits(b)'
  <2>1. CASE b = job[x]
    BY Zenon, <1>1, <1>2, <2>1 DEF Waits, Parked
  <2>2. CASE b # job[x]
    BY Zenon, <1>2, <2>2, WaitsFrame
  <2> QED
    BY Zenon, <2>1, <2>2
<1> QED
  BY Zenon, <1>1, <1>3 DEF TypeInv

(* An actor that is over, or a payload that cannot be pinned, keeps the     *)
(* invariant.                                                               *)
LEMMA TerminateStep ==
  ASSUME MtInv, NEW x \in Threads,
         (\E how \in Terminated : SliceEnds(x, how)) \/ ServiceFails(x)
  PROVE  MtInv'
<1> DEFINE Rest == /\ mbox' = mbox /\ http' = http /\ effectful' = effectful
                   /\ owner' = owner /\ queue' = queue /\ pumping' = pumping /\ role' = role
                   /\ ready' = ready /\ general' = general /\ readyBound' = readyBound
                   /\ busy' = busy /\ job' = job /\ rooted' = rooted
                   /\ shutdown' = shutdown /\ running' = running
<1>1. /\ pc[x] \in {"slice", "service"} /\ Rest
      /\ op' = [op EXCEPT ![x] = None] \/ (op' = op /\ pc[x] # "service")
      /\ \E how \in Terminated : Terminate(x, how)
  <2>1. CASE \E how \in Terminated : SliceEnds(x, how)
    BY <2>1 DEF SliceEnds, InSlice, pool, counters, flags
  <2>2. CASE ServiceFails(x)
    BY <2>2 DEF ServiceFails, pool, counters, flags, Terminated
  <2> QED
    BY Zenon, <2>1, <2>2
<1>2. pc[x] \in Executing
  BY <1>1 DEF Executing
<1>3. op' = [op EXCEPT ![x] = None]
  BY Zenon, <1>1, ServiceFacts
<1>4. PICK how \in Terminated : Terminate(x, how)
  BY Zenon, <1>1
<1>5. how \in {"halted", "crashed"}
  BY <1>4 DEF Terminated
<1>6. CASE x = Ctl
  <2>1. pc' = [pc EXCEPT ![x] = "finish"] /\ status' = status
    BY Zenon, <1>4, <1>6 DEF Terminate, Goto
  <2>2. status' = [status EXCEPT ![job[x]] = "runnable"]
    BY Zenon, <1>2, <2>1, Executed DEF MtInv, TypeInv
  <2>3. http' \in [Everyone -> BOOLEAN] /\ \A b \in Everyone : Waits(b)'
    <3>1. "runnable" # "blocked"
      OBVIOUS
    <3> QED
      BY Zenon, <1>1, <1>2, <2>2, <3>1, LeavesWaits
  <2>4. Leaves(x, "finish", "runnable")
    BY Zenon, <1>1, <1>2, <1>3, <1>6, <2>1, <2>2, <2>3 DEF Leaves
  <2> QED
    BY Zenon, <2>4, LeaveStep
<1>7. CASE x # Ctl
  <2>1. pc' = [pc EXCEPT ![x] = "after"] /\ status' = [status EXCEPT ![job[x]] = how]
    BY Zenon, <1>4, <1>7 DEF Terminate, Goto
  <2>2. how # "blocked" /\ how \in {"blocked", "halted", "crashed"} /\ x \in Workers
    BY <1>5, <1>7 DEF Threads
  <2>3. http' \in [Everyone -> BOOLEAN] /\ \A b \in Everyone : Waits(b)'
    BY Zenon, <1>1, <1>2, <2>1, <2>2, LeavesWaits
  <2>4. Leaves(x, "after", how)
    BY Zenon, <1>1, <1>2, <1>3, <2>1, <2>2, <2>3 DEF Leaves
  <2> QED
    BY Zenon, <2>4, LeaveStep
<1> QED
  BY Zenon, <1>6, <1>7

(* x parks its actor. *)
LEMMA ParkPlace ==
  ASSUME NEW x \in Threads
  PROVE  \/ x \in Workers /\ Onward(x) = "after" /\ "blocked" \in {"blocked", "halted", "crashed"}
         \/ x = Ctl /\ Onward(x) = "drive" /\ "blocked" = "blocked"
BY Zenon, Names DEF Onward

(* A Recv on an empty mailbox keeps the invariant. *)
LEMMA RecvParkStep ==
  ASSUME MtInv, NEW x \in Threads, RecvPark(x)
  PROVE  MtInv'
<1>1. /\ pc[x] = "slice" /\ mbox[job[x]] = 0
      /\ status' = [status EXCEPT ![job[x]] = "blocked"]
      /\ pc' = [pc EXCEPT ![x] = Onward(x)] /\ op' = op
      /\ mbox' = mbox /\ http' = http /\ effectful' = effectful
      /\ owner' = owner /\ queue' = queue /\ pumping' = pumping /\ role' = role
      /\ ready' = ready /\ general' = general /\ readyBound' = readyBound
      /\ busy' = busy /\ job' = job /\ rooted' = rooted
      /\ shutdown' = shutdown /\ running' = running
  BY DEF RecvPark, Requesting, InSlice, Goto, pool, counters, flags
<1>2. pc[x] \in Executing /\ pc[x] # "service"
  BY <1>1 DEF Executing
<1>3. op' = [op EXCEPT ![x] = None]
  BY Zenon, <1>1, <1>2, ServiceFacts
<1>4. http' \in [Everyone -> BOOLEAN] /\ \A b \in Everyone : Waits(b)'
  BY Zenon, <1>1, <1>2, LeavesWaits
<1>5. Leaves(x, Onward(x), "blocked")
  BY Zenon, <1>1, <1>2, <1>3, <1>4, ParkPlace DEF Leaves
<1> QED
  BY Zenon, <1>5, LeaveStep

(* er_http_dispatch, which parks the actor on its transfer, keeps the       *)
(* invariant.                                                               *)
LEMMA DispatchStep ==
  ASSUME MtInv, NEW x \in Threads, Fetch(x), Dispatch(x)
  PROVE  MtInv'
<1>1. /\ pc[x] \in {"slice", "settle"}
      /\ status' = [status EXCEPT ![job[x]] = "blocked"]
      /\ http' = [http EXCEPT ![job[x]] = TRUE]
      /\ pc' = [pc EXCEPT ![x] = Onward(x)] /\ op' = op
      /\ mbox' = mbox /\ effectful' = effectful
      /\ owner' = owner /\ queue' = queue /\ pumping' = pumping /\ role' = role
      /\ ready' = ready /\ general' = general /\ readyBound' = readyBound
      /\ busy' = busy /\ job' = job /\ rooted' = rooted
      /\ shutdown' = shutdown /\ running' = running
  BY DEF Fetch, Dispatch, Requesting, InSlice, Goto, pool, counters, flags
<1>2. pc[x] \in Executing /\ pc[x] # "service"
  BY <1>1 DEF Executing
<1>3. op' = [op EXCEPT ![x] = None]
  BY Zenon, <1>1, <1>2, ServiceFacts
<1>4. TypeInv /\ job[x] \in Everyone
  BY Zenon, <1>2, Executed DEF MtInv
<1>5. /\ http' \in [Everyone -> BOOLEAN] /\ http'[job[x]]
      /\ status'[job[x]] = "blocked"
      /\ \A b \in Everyone : b # job[x] => status'[b] = status[b] /\ http'[b] = http[b]
  BY <1>1, <1>4 DEF TypeInv
<1>6. ASSUME NEW b \in Everyone PROVE Waits(b)'
  <2>1. CASE b = job[x]
    BY Zenon, <1>5, <2>1 DEF Waits, Parked
  <2>2. CASE b # job[x]
    <3>1. Waits(b) /\ status'[b] = status[b] /\ http'[b] = http[b] /\ mbox'[b] = mbox[b]
      BY Zenon, <1>1, <1>5, <2>2 DEF MtInv
    <3> QED
      BY Zenon, <3>1 DEF Waits, Parked
  <2> QED
    BY Zenon, <2>1, <2>2
<1>7. Leaves(x, Onward(x), "blocked")
  BY Zenon, <1>1, <1>2, <1>3, <1>5, <1>6, ParkPlace DEF Leaves
<1> QED
  BY Zenon, <1>7, LeaveStep

(* x goes on with its actor: it takes up a request, or waits for the pump. *)
Stays(x, l) ==
    /\ pc[x] \in Executing /\ l \in Executing /\ pc' = [pc EXCEPT ![x] = l]
    /\ op' \in [Threads -> Ops] /\ \A y \in Threads : Serves(y)'
    /\ status' = status /\ http' = http /\ mbox' = mbox /\ effectful' = effectful
    /\ owner' = owner /\ queue' = queue /\ pumping' = pumping /\ role' = role
    /\ ready' = ready /\ general' = general /\ readyBound' = readyBound /\ busy' = busy
    /\ job' = job /\ rooted' = rooted /\ shutdown' = shutdown /\ running' = running

(* A thread that goes on with its actor keeps the invariant. *)
LEMMA StayStep ==
  ASSUME MtInv, NEW x \in Threads, NEW l, Stays(x, l)
  PROVE  MtInv'
<1>1. TypeInv /\ Ctl \in Threads /\ CtlGood
  BY Zenon, Names DEF MtInv
<1>2. /\ l \in WorkerPCs /\ l \in CtlPCs /\ l \in BusyPCs /\ l \in DrivePCs
      /\ l \notin {"pump", "none", "loop", "exit", "after", "free", "join", "drain", "drive"}
  BY DEF Stays, WorkerPCs, CtlPCs, Executing, BusyPCs, DrivePCs
<1>3. pc'[x] = l /\ (\A y \in Threads \ {x} : pc'[y] = pc[y])
      /\ pc' \in [Threads -> WorkerPCs \cup CtlPCs]
  BY Zenon, <1>1, <1>2, MoveFacts, MoveType DEF Stays
<1>4. TypeInv'
  BY Zenon, <1>1, <1>3 DEF TypeInv, Stays
<1>5. /\ status' = status /\ http' = http /\ mbox' = mbox /\ effectful' = effectful
      /\ owner' = owner /\ queue' = queue /\ pumping' = pumping /\ role' = role
      /\ ready' = ready /\ job' = job /\ rooted' = rooted /\ shutdown' = shutdown
      /\ running' = running
  BY Zenon DEF Stays
<1>6. \A y \in Threads : pc'[y] \in Executing <=> pc[y] \in Executing
  BY Zenon, <1>3 DEF Stays
<1>7. CtlGood'
  <2>1. CASE x = Ctl
    <3>1. /\ pc[Ctl] \in Executing /\ pc'[Ctl] = l /\ rooted /\ status[Root] = "runnable"
      BY Zenon, <1>3, <2>1, Executed DEF Stays
    <3>2. pc[Ctl] \notin {"join", "free"}
      BY <3>1 DEF Executing
    <3> QED
      BY <1>1, <1>2, <1>5, <3>1, <3>2 DEF CtlGood
  <2>2. CASE x # Ctl
    <3>1. pc'[Ctl] = pc[Ctl] /\ x \in Workers
      BY Zenon, <1>1, <1>3, <2>2, Names
    <3>2. pc[Ctl] # "free"
      <4>1. pc[Ctl] = "free" => pc[x] = "none"
        BY Zenon, <1>1, <3>1 DEF CtlGood
      <4> QED
        BY <4>1 DEF Executing, Stays
    <3> QED
      BY Zenon, <1>1, <1>5, <3>1, <3>2 DEF CtlGood
  <2> QED
    BY Zenon, <2>1, <2>2
<1>8. \A b \in Everyone : Waits(b)'
  BY Zenon, <1>5, WaitsFrame
<1>9. ASSUME NEW a \in Actors PROVE Placed(a)'
  <2>1. Placed(a)
    BY Zenon DEF MtInv
  <2>2. \A y \in Threads : Runs(y, a)' <=> Runs(y, a)
    BY Zenon, <1>5, <1>6 DEF Runs
  <2>3. /\ status'[a] = status[a] /\ owner'[a] = owner[a]
        /\ In(queue', a) <=> In(queue, a)
        /\ Once(queue', a)
        /\ \A w \in Workers : owner[a] = w => (ready'[w] <=> ready[w])
    BY Zenon, <1>5, <2>1 DEF Placed
  <2> QED
    BY Zenon, <2>1, <2>2, <2>3, PlacedFrame
<1>10. ASSUME NEW a \in Actors PROVE Owned(a)'
  <2>1. Owned(a) /\ owner[a] \in Workers \cup {None}
    BY Zenon, <1>1, Names DEF MtInv, TypeInv
  <2>2. ASSUME owner[a] # None, status[a] \in Terminated
        PROVE  pc'[owner[a]] = "after" /\ job[owner[a]] = a
    <3>1. pc[owner[a]] = "after" /\ job[owner[a]] = a /\ owner[a] \in Threads
      BY Zenon, <2>1, <2>2, Names DEF Owned
    <3>2. owner[a] # x
      BY <3>1 DEF Stays, Executing
    <3> QED
      BY Zenon, <1>3, <3>1, <3>2
  <2> QED
    BY Zenon, <1>5, <2>1, <2>2 DEF Owned
<1>11. ASSUME NEW w \in Workers PROVE WorkerGood(w)'
  <2>1. WorkerGood(w) /\ w \in Threads
    BY Zenon, Names DEF MtInv
  <2>2. CASE w = x
    <3>1. pc'[w] = l /\ pc[w] \in Executing /\ pc[w] \in BusyPCs /\ l \in Executing
      BY Zenon, <1>3, <2>2, Places DEF Stays
    <3>2. pc[w] \notin {"none", "loop", "exit"}
      BY <3>1 DEF BusyPCs
    <3> QED
      BY <1>2, <1>5, <2>1, <3>1, <3>2 DEF WorkerGood
  <2>3. CASE w # x
    <3>1. pc'[w] = pc[w]
      BY Zenon, <1>3, <2>1, <2>3
    <3> QED
      BY Zenon, <1>5, <2>1, <3>1 DEF WorkerGood
  <2> QED
    BY Zenon, <2>2, <2>3
<1>12. Pumps'
  <2>1. pc[x] # "pump" /\ l # "pump" /\ pc' = [pc EXCEPT ![x] = l]
    BY <1>2 DEF Stays, Executing
  <2> QED
    BY Zenon, <1>5, <2>1, PumpsFrame
<1>13. Counts'
  <2>1. Counts /\ Pool' = Pool /\ ReadyOnes' = ReadyOnes
    BY Zenon, <1>5 DEF MtInv, Pool, ReadyOnes
  <2>2. \A w \in Workers : pc'[w] \in BusyPCs <=> pc[w] \in BusyPCs
    BY Zenon, <1>2, <1>3, Names, Places DEF Stays
  <2>3. BusyOnes' = BusyOnes
    BY Zenon, <2>2 DEF BusyOnes
  <2>4. pc'[Ctl] # "free" => pc[Ctl] # "free"
    <3>1. "free" \notin Executing
      BY DEF Executing
    <3> QED
      BY Zenon, <1>1, <1>3, <3>1 DEF Stays
  <2>5. general' = general /\ readyBound' = readyBound /\ busy' = busy
    BY Zenon DEF Stays
  <2> QED
    BY Zenon, <2>1, <2>3, <2>4, <2>5 DEF Counts
<1> QED
  BY Zenon, <1>4, <1>7, <1>8, <1>9, <1>10, <1>11, <1>12, <1>13 DEF MtInv, Stays

(* A request that is taken up with the mutex released keeps the invariant. *)
LEMMA BeginServiceStep ==
  ASSUME MtInv, NEW x \in Threads, BeginService(x)
  PROVE  MtInv'
<1>1. PICK o \in Ops \ {None} :
        /\ o.kind = "spawn" => ~Exists(o.to) /\ ~Spawning(o.to)
        /\ op' = [op EXCEPT ![x] = o]
  BY Zenon DEF BeginService
<1>2. /\ pc[x] = "slice" /\ pc' = [pc EXCEPT ![x] = "service"]
      /\ status' = status /\ http' = http /\ mbox' = mbox /\ effectful' = effectful
      /\ owner' = owner /\ queue' = queue /\ pumping' = pumping /\ role' = role
      /\ ready' = ready /\ general' = general /\ readyBound' = readyBound /\ busy' = busy
      /\ job' = job /\ rooted' = rooted /\ shutdown' = shutdown /\ running' = running
  BY DEF BeginService, Requesting, InSlice, Goto, actors, pool, counters, flags
<1>3. TypeInv
  BY Zenon DEF MtInv
<1>4. /\ op' \in [Threads -> Ops] /\ op'[x] = o /\ o # None
      /\ \A y \in Threads \ {x} : op'[y] = op[y]
  BY Zenon, <1>1, <1>3 DEF TypeInv
<1>5. pc'[x] = "service" /\ \A y \in Threads \ {x} : pc'[y] = pc[y]
  BY Zenon, <1>2, <1>3, MoveFacts
<1>6. o.kind = "spawn" => /\ status[o.to] = "new"
                          /\ \A z \in Threads : op[z] # None /\ op[z].kind = "spawn" => op[z].to # o.to
  BY Zenon, <1>1 DEF Exists, Spawning
<1>7. ASSUME NEW y \in Threads PROVE Serves(y)'
  <2>1. Serves(y)
    BY Zenon DEF MtInv
  <2>2. CASE y = x
    <3>1. op'[y] # None /\ pc'[y] = "service" /\ op'[y] = o
      BY Zenon, <1>4, <1>5, <2>2
    <3>2. o.kind = "spawn" =>
            \A z \in Threads : op'[z] # None /\ op'[z].kind = "spawn" /\ op'[z].to = o.to => z = y
      BY Zenon, <1>4, <1>6, <2>2
    <3> QED
      BY Zenon, <1>2, <1>6, <3>1, <3>2 DEF Serves
  <2>3. CASE y # x
    <3>1. op'[y] = op[y] /\ pc'[y] = pc[y]
      BY Zenon, <1>4, <1>5, <2>3
    <3>2. op[y] # None /\ op[y].kind = "spawn" =>
            \A z \in Threads : op'[z] # None /\ op'[z].kind = "spawn" /\ op'[z].to = op[y].to
                                  => z = y
      BY Zenon, <1>4, <1>6, <2>1 DEF Serves
    <3> QED
      BY Zenon, <1>2, <2>1, <3>1, <3>2 DEF Serves
  <2> QED
    BY Zenon, <2>2, <2>3
<1>8. Stays(x, "service")
  <2>1. pc[x] \in Executing /\ "service" \in Executing
    BY <1>2 DEF Executing
  <2> QED
    BY Zenon, <1>2, <1>4, <1>7, <2>1 DEF Stays
<1> QED
  BY Zenon, <1>8, StayStep

(* er_http_curlm_settle, the wait for the pump, keeps the invariant. *)
LEMMA SettleStep ==
  ASSUME MtInv, NEW x \in Threads, Fetch(x), Settle(x)
  PROVE  MtInv'
<1>1. /\ pc[x] \in {"slice", "settle"} /\ pc' = [pc EXCEPT ![x] = "settle"] /\ op' = op
      /\ status' = status /\ http' = http /\ mbox' = mbox /\ effectful' = effectful
      /\ owner' = owner /\ queue' = queue /\ pumping' = pumping /\ role' = role
      /\ ready' = ready /\ general' = general /\ readyBound' = readyBound /\ busy' = busy
      /\ job' = job /\ rooted' = rooted /\ shutdown' = shutdown /\ running' = running
  BY DEF Fetch, Settle, Requesting, InSlice, Goto, actors, pool, counters, flags
<1>2. TypeInv
  BY Zenon DEF MtInv
<1>3. pc'[x] = "settle" /\ \A y \in Threads \ {x} : pc'[y] = pc[y]
  BY Zenon, <1>1, <1>2, MoveFacts
<1>4. pc[x] # "service" /\ pc[x] \in Executing /\ "settle" \in Executing /\ "settle" # "service"
  BY <1>1 DEF Executing
<1>5. ASSUME NEW y \in Threads PROVE Serves(y)'
  <2>1. Serves(y)
    BY Zenon DEF MtInv
  <2>2. pc'[y] = "service" <=> pc[y] = "service"
    BY Zenon, <1>3, <1>4
  <2> QED
    BY Zenon, <1>1, <2>1, <2>2 DEF Serves
<1>6. op' \in [Threads -> Ops]
  BY Zenon, <1>1, <1>2 DEF TypeInv
<1>7. Stays(x, "settle")
  BY Zenon, <1>1, <1>4, <1>5, <1>6 DEF Stays
<1> QED
  BY Zenon, <1>7, StayStep

-----------------------------------------------------------------------------
(* The calls of the controller.                                             *)

(* A counter that is 0 counts nobody. *)
LEMMA NoneCounted ==
  ASSUME MtInv
  PROVE  /\ busy = 0 => \A w \in Workers : pc[w] \notin BusyPCs
         /\ readyBound = 0 => \A w \in Workers : ~ready[w]
<1>1. busy = Cardinality(BusyOnes) /\ readyBound = Cardinality(ReadyOnes)
  BY Zenon DEF MtInv, Counts
<1>2. BusyOnes \subseteq Workers /\ ReadyOnes \subseteq Workers
  BY Zenon DEF BusyOnes, ReadyOnes
<1>3. ASSUME busy = 0, NEW w \in Workers PROVE pc[w] \notin BusyPCs
  <2>1. w \in BusyOnes => Cardinality(BusyOnes) > 0 /\ Cardinality(BusyOnes) \in Nat
    BY Zenon, <1>2, CountOne
  <2>2. w \notin BusyOnes
    BY <1>1, <1>3, <2>1
  <2> QED
    BY Zenon, <2>2 DEF BusyOnes
<1>4. ASSUME readyBound = 0, NEW w \in Workers PROVE ~ready[w]
  <2>1. w \in ReadyOnes => Cardinality(ReadyOnes) > 0 /\ Cardinality(ReadyOnes) \in Nat
    BY Zenon, <1>2, CountOne
  <2>2. w \notin ReadyOnes
    BY <1>1, <1>4, <2>1
  <2> QED
    BY Zenon, <2>2 DEF ReadyOnes
<1> QED
  BY Zenon, <1>3, <1>4

CtlMoves(l) ==
    /\ l \in CtlPCs /\ pc' = [pc EXCEPT ![Ctl] = l]
    /\ pc[Ctl] \notin Executing \cup {"free"} /\ l \notin {"service", "free"}
    /\ l \in Executing => job'[Ctl] = Root
    /\ CtlGood'
    /\ status' \in [Everyone -> Statuses] /\ \A b \in Actors : status'[b] = status[b]
    /\ \A b \in Everyone : Waits(b)'
    /\ job' \in [Threads -> Everyone \cup {None}] /\ \A w \in Workers : job'[w] = job[w]
    /\ running' \in BOOLEAN /\ rooted' \in BOOLEAN /\ shutdown' \in BOOLEAN
    /\ shutdown => shutdown'
    /\ shutdown' => shutdown \/ busy = 0
    /\ mbox' = mbox /\ http' = http /\ effectful' = effectful /\ owner' = owner
    /\ queue' = queue /\ pumping' = pumping /\ role' = role /\ ready' = ready
    /\ general' = general /\ readyBound' = readyBound /\ busy' = busy /\ op' = op

(* A move of the controller keeps the invariant. *)
LEMMA CtlStep ==
  ASSUME MtInv, NEW l, CtlMoves(l)
  PROVE  MtInv'
<1>1. TypeInv /\ Ctl \in Threads
  BY Zenon, Names DEF MtInv
<1>2. pc'[Ctl] = l /\ (\A y \in Threads \ {Ctl} : pc'[y] = pc[y])
      /\ pc' \in [Threads -> WorkerPCs \cup CtlPCs]
  BY Zenon, <1>1, MoveFacts, MoveType DEF CtlMoves
<1>3. \A w \in Workers : pc'[w] = pc[w] /\ job'[w] = job[w] /\ w \in Threads
  BY Zenon, <1>2, Names DEF CtlMoves
<1>4. TypeInv'
  BY Zenon, <1>1, <1>2 DEF TypeInv, CtlMoves
<1>5. /\ effectful' = effectful /\ owner' = owner /\ queue' = queue /\ pumping' = pumping
      /\ role' = role /\ ready' = ready /\ general' = general /\ readyBound' = readyBound
      /\ busy' = busy /\ op' = op
  BY Zenon DEF CtlMoves
<1>6. ASSUME NEW a \in Actors PROVE Placed(a)'
  <2>1. Placed(a) /\ a # Root /\ status'[a] = status[a]
    BY Zenon, Names DEF MtInv, CtlMoves
  <2>2. ASSUME NEW y \in Threads PROVE Runs(y, a)' <=> Runs(y, a)
    <3>1. CASE y = Ctl
      BY Zenon, <1>2, <2>1, <3>1 DEF Runs, CtlMoves
    <3>2. CASE y # Ctl
      BY Zenon, <1>3, <3>2, Names DEF Runs
    <3> QED
      BY Zenon, <3>1, <3>2
  <2>3. /\ owner'[a] = owner[a]
        /\ In(queue', a) <=> In(queue, a)
        /\ Once(queue', a)
        /\ \A w \in Workers : owner[a] = w => (ready'[w] <=> ready[w])
    BY Zenon, <1>5, <2>1 DEF Placed
  <2> QED
    BY Zenon, <2>1, <2>2, <2>3, PlacedFrame
<1>7. ASSUME NEW a \in Actors PROVE Owned(a)'
  <2>1. Owned(a) /\ owner[a] \in Workers \cup {None} /\ status'[a] = status[a]
    BY Zenon, <1>1, Names DEF MtInv, TypeInv, CtlMoves
  <2>2. owner[a] # None => pc'[owner[a]] = pc[owner[a]] /\ job'[owner[a]] = job[owner[a]]
    BY Zenon, <1>3, <2>1
  <2> QED
    BY Zenon, <1>5, <2>1, <2>2 DEF Owned
<1>8. ASSUME NEW w \in Workers PROVE WorkerGood(w)'
  <2>1. WorkerGood(w) /\ pc'[w] = pc[w] /\ job'[w] = job[w]
    BY Zenon, <1>3 DEF MtInv
  <2>2. shutdown => shutdown'
    BY Zenon DEF CtlMoves
  <2>3. pc[w] \in BusyPCs => ~shutdown'
    BY Zenon, <2>1, NoneCounted DEF CtlMoves, WorkerGood
  <2> QED
    BY Zenon, <1>5, <2>1, <2>2, <2>3 DEF WorkerGood
<1>9. ASSUME NEW y \in Threads PROVE Serves(y)'
  <2>1. Serves(y)
    BY Zenon DEF MtInv
  <2>2. pc'[y] = "service" <=> pc[y] = "service"
    <3>1. "service" \in Executing
      BY DEF Executing
    <3>2. pc[Ctl] # "service" /\ l # "service"
      BY <3>1 DEF CtlMoves
    <3> QED
      BY Zenon, <1>2, <3>2
  <2>3. op[y] # None /\ op[y].kind = "spawn" => status'[op[y].to] = status[op[y].to]
    BY Zenon, ServiceFacts DEF CtlMoves
  <2> QED
    BY Zenon, <1>5, <2>1, <2>2, <2>3 DEF Serves
<1>10. Pumps'
  BY Zenon, <1>1, <1>5, PumpsFrame DEF CtlMoves
<1>11. Counts'
  <2>1. Counts /\ Pool' = Pool /\ ReadyOnes' = ReadyOnes
    BY Zenon, <1>5 DEF MtInv, Pool, ReadyOnes
  <2>2. BusyOnes' = BusyOnes
    BY Zenon, <1>3 DEF BusyOnes
  <2>3. pc[Ctl] # "free"
    BY Zenon DEF CtlMoves
  <2> QED
    BY Zenon, <1>5, <2>1, <2>2, <2>3 DEF Counts
<1> QED
  BY Zenon, <1>4, <1>6, <1>7, <1>8, <1>9, <1>10, <1>11 DEF MtInv, CtlMoves

(* The controller moves to l; the actors and the workers stay. *)
CtlGoing(l) ==
    /\ pc' = [pc EXCEPT ![Ctl] = l] /\ pc[Ctl] \notin Executing \cup {"free"}
    /\ l \notin {"service", "free"}
    /\ l \in Executing => rooted
    /\ rooted' <=> l \in DrivePCs
    /\ shutdown' <=> l = "join"
    /\ running' => l \in {"run"} \cup (DrivePCs \ {"drain"})
    /\ status[Root] = "blocked" => l \in {"drive", "deadlock"}
    /\ l = "join" => busy = 0
    /\ pc[Ctl] # "join" /\ running' \in BOOLEAN /\ rooted' \in BOOLEAN
    /\ shutdown' \in BOOLEAN /\ status' = status
    /\ job' = job \/ (job' = [job EXCEPT ![Ctl] = None] /\ ~rooted')
    /\ rooted' => rooted
    /\ mbox' = mbox /\ http' = http /\ effectful' = effectful /\ owner' = owner
    /\ queue' = queue /\ pumping' = pumping /\ role' = role /\ ready' = ready
    /\ general' = general /\ readyBound' = readyBound /\ busy' = busy /\ op' = op

(* A move of the controller that leaves the actors and its job alone. *)
LEMMA CtlGoes ==
  ASSUME MtInv, NEW l \in CtlPCs, CtlGoing(l)
  PROVE  MtInv'
<1> USE DEF CtlGoing
<1>1. TypeInv /\ CtlGood /\ Ctl \in Threads
  BY Zenon, Names DEF MtInv
<1>2. pc'[Ctl] = l
  BY Zenon, <1>1, MoveFacts
<1>3. job' \in [Threads -> Everyone \cup {None}] /\ \A w \in Workers : job'[w] = job[w]
  <2>1. CASE job' = job
    BY Zenon, <1>1, <2>1 DEF TypeInv
  <2>2. CASE job' = [job EXCEPT ![Ctl] = None]
    BY Zenon, <1>1, <2>2, JobMove, Names
  <2> QED
    BY Zenon, <2>1, <2>2
<1>4. rooted' => job'[Ctl] = Root
  BY Zenon, <1>1 DEF CtlGood
<1>5. l \in Executing => l \in DrivePCs
  BY DEF Executing, DrivePCs
<1>6. ~shutdown
  <2>1. pc[Ctl] # "free"
    BY Zenon
  <2> QED
    BY Zenon, <1>1, <2>1 DEF CtlGood
<1>7. CtlGood'
  BY <1>1, <1>2, <1>4 DEF CtlGood
<1>8. status' \in [Everyone -> Statuses] /\ \A b \in Everyone : Waits(b)'
  BY Zenon, <1>1, WaitsFrame DEF TypeInv
<1>9. CtlMoves(l)
  BY Zenon, <1>3, <1>4, <1>5, <1>6, <1>7, <1>8 DEF CtlMoves
<1> QED
  BY Zenon, <1>9, CtlStep

(* The waits of the controller keep the invariant. *)
LEMMA WaitSteps ==
  ASSUME MtInv, RunWaits \/ DriveWaits \/ DriveDrains
  PROVE  MtInv'
<1>1. /\ status' = status /\ mbox' = mbox /\ http' = http /\ effectful' = effectful
      /\ owner' = owner /\ queue' = queue /\ pumping' = pumping /\ role' = role /\ ready' = ready
      /\ general' = general /\ readyBound' = readyBound /\ busy' = busy /\ pc' = pc /\ job' = job
      /\ op' = op /\ rooted' = rooted /\ shutdown' = shutdown /\ running' = running
  BY DEF RunWaits, DriveWaits, DriveDrains, actors, pool, counters, flags
<1>2. running' \in BOOLEAN
  BY Zenon, <1>1 DEF MtInv, TypeInv
<1> QED
  BY Zenon, <1>1, <1>2, StutterStep DEF Stutters

(* What every step below leaves alone. *)
Apart == /\ mbox' = mbox /\ http' = http /\ effectful' = effectful /\ owner' = owner
         /\ pumping' = pumping /\ role' = role /\ ready' = ready /\ general' = general
         /\ readyBound' = readyBound /\ busy' = busy /\ op' = op

(* The entry of er_mt_executor_run keeps the invariant. *)
LEMMA StartRunStep ==
  ASSUME MtInv, StartRun
  PROVE  MtInv'
<1>1. /\ pc[Ctl] = "out" /\ pc' = [pc EXCEPT ![Ctl] = "run"] /\ ~rooted' /\ rooted' \in BOOLEAN
      /\ running' \in BOOLEAN /\ shutdown' = shutdown /\ status' = status /\ job' = job
      /\ queue' = queue /\ Apart
  BY DEF StartRun, Goto, actors, pool, counters, Apart
<1>2. CtlGood /\ TypeInv
  BY Zenon DEF MtInv
<1>3. /\ ~shutdown /\ status[Root] # "blocked"
      /\ "run" \in CtlPCs /\ "run" \notin DrivePCs /\ "run" \notin Executing
      /\ pc[Ctl] \notin Executing \cup {"free"} /\ pc[Ctl] # "join"
      /\ "run" \notin {"service", "free"} /\ "run" # "join"
  BY <1>1, <1>2 DEF CtlGood, CtlPCs, DrivePCs, Executing
<1>4. shutdown' \in BOOLEAN /\ "run" \in {"run"} \cup (DrivePCs \ {"drain"})
  BY Zenon, <1>1, <1>2 DEF TypeInv
<1> QED
  BY Zenon, <1>1, <1>3, <1>4, CtlGoes DEF Apart, CtlGoing

(* The return of er_mt_executor_run keeps the invariant. *)
LEMMA RunReturnsStep ==
  ASSUME MtInv, RunReturns
  PROVE  MtInv'
<1>1. /\ pc[Ctl] = "run" /\ pc' = [pc EXCEPT ![Ctl] = "out"] /\ rooted' = rooted
      /\ running' = running /\ ~running /\ shutdown' = shutdown /\ status' = status /\ job' = job
      /\ queue' = queue /\ Apart
  BY DEF RunReturns, Goto, actors, pool, counters, Apart
<1>2. CtlGood /\ TypeInv
  BY Zenon DEF MtInv
<1>3. /\ ~shutdown /\ ~rooted /\ status[Root] # "blocked"
      /\ "out" \in CtlPCs /\ "out" \notin DrivePCs /\ "out" \notin Executing
      /\ pc[Ctl] \notin Executing \cup {"free"} /\ pc[Ctl] # "join"
      /\ "out" \notin {"service", "free"} /\ "out" # "join"
  BY <1>1, <1>2 DEF CtlGood, CtlPCs, DrivePCs, Executing
<1>4. shutdown' \in BOOLEAN /\ running' \in BOOLEAN /\ rooted' \in BOOLEAN
  BY Zenon, <1>1, <1>2 DEF TypeInv
<1> QED
  BY Zenon, <1>1, <1>3, <1>4, CtlGoes DEF Apart, CtlGoing

(* A drive that runs its root, suspects a deadlock, or goes on keeps the    *)
(* invariant.                                                               *)
LEMMA DriveOnSteps ==
  ASSUME MtInv, DriveRoot \/ DriveSuspects \/ (DriveDeadlock /\ ~Stuck)
  PROVE  MtInv'
<1>1. PICK l \in {"slice", "deadlock", "drive"} :
        /\ pc[Ctl] \in {"drive", "deadlock"} /\ pc' = [pc EXCEPT ![Ctl] = l]
        /\ l = "slice" => status[Root] = "runnable"
        /\ rooted' = rooted /\ running' = running /\ shutdown' = shutdown
        /\ status' = status /\ job' = job /\ queue' = queue /\ Apart
  <2>1. CASE DriveRoot
    BY <2>1 DEF DriveRoot, AtDrive, Goto, actors, pool, counters, flags, Apart
  <2>2. CASE DriveSuspects
    BY <2>2 DEF DriveSuspects, AtDrive, Goto, actors, pool, counters, flags, Apart
  <2>3. CASE DriveDeadlock /\ ~Stuck
    BY <2>3 DEF DriveDeadlock, Goto, actors, pool, counters, flags, Apart
  <2> QED
    BY Zenon, <2>1, <2>2, <2>3
<1>2. CtlGood /\ TypeInv
  BY Zenon DEF MtInv
<1>3. /\ ~shutdown /\ rooted
      /\ l \in CtlPCs /\ l \in DrivePCs
      /\ status[Root] = "blocked" => l \in {"drive", "deadlock"}
      /\ pc[Ctl] \notin Executing \cup {"free"} /\ pc[Ctl] # "join"
      /\ l \notin {"service", "free"} /\ l # "join" /\ l \in {"run"} \cup (DrivePCs \ {"drain"})
  BY <1>1, <1>2 DEF CtlGood, CtlPCs, DrivePCs, Executing
<1>4. shutdown' \in BOOLEAN /\ running' \in BOOLEAN /\ rooted' \in BOOLEAN
  BY Zenon, <1>1, <1>2 DEF TypeInv
<1>5. (rooted' <=> l \in DrivePCs) /\ (shutdown' <=> l = "join")
  BY Zenon, <1>1, <1>3
<1> QED
  BY Zenon, <1>1, <1>3, <1>4, <1>5, CtlGoes DEF Apart, CtlGoing

(* A drive that stops the workers keeps the invariant. *)
LEMMA DriveFinishStep ==
  ASSUME MtInv, DriveFinish
  PROVE  MtInv'
<1>1. /\ pc[Ctl] = "finish" /\ pc' = [pc EXCEPT ![Ctl] = "drain"] /\ rooted' = rooted
      /\ running' = FALSE /\ shutdown' = shutdown /\ status' = status /\ job' = job
      /\ queue' = queue /\ Apart
  BY DEF DriveFinish, Goto, actors, pool, counters, Apart
<1>2. CtlGood /\ TypeInv
  BY Zenon DEF MtInv
<1>3. /\ ~shutdown /\ rooted /\ status[Root] # "blocked"
      /\ "drain" \in CtlPCs /\ "drain" \in DrivePCs /\ "drain" \notin Executing
      /\ pc[Ctl] \notin Executing \cup {"free"} /\ pc[Ctl] # "join"
      /\ "drain" \notin {"service", "free"} /\ "drain" # "join"
  BY <1>1, <1>2 DEF CtlGood, CtlPCs, DrivePCs, Executing
<1>4. shutdown' \in BOOLEAN /\ running' \in BOOLEAN /\ rooted' \in BOOLEAN
  BY Zenon, <1>1, <1>2 DEF TypeInv
<1> QED
  BY Zenon, <1>1, <1>3, <1>4, CtlGoes DEF Apart, CtlGoing

(* The return of er_mt_executor_drive keeps the invariant. *)
LEMMA DriveReturnsStep ==
  ASSUME MtInv, DriveReturns
  PROVE  MtInv'
<1>1. /\ pc[Ctl] = "drain" /\ pc' = [pc EXCEPT ![Ctl] = "out"] /\ rooted' = FALSE
      /\ running' = running /\ shutdown' = shutdown /\ status' = status
      /\ job' = [job EXCEPT ![Ctl] = None] /\ queue' = queue /\ Apart
  BY DEF DriveReturns, Goto, actors, pool, counters, Apart
<1>2. CtlGood /\ TypeInv
  BY Zenon DEF MtInv
<1>3. /\ ~shutdown /\ ~running /\ status[Root] # "blocked"
      /\ "out" \in CtlPCs /\ "out" \notin DrivePCs /\ "out" \notin Executing
      /\ pc[Ctl] \notin Executing \cup {"free"} /\ pc[Ctl] # "join"
      /\ "out" \notin {"service", "free"} /\ "out" # "join"
  BY <1>1, <1>2 DEF CtlGood, CtlPCs, DrivePCs, Executing
<1>4. shutdown' \in BOOLEAN /\ running' \in BOOLEAN /\ rooted' \in BOOLEAN
  BY Zenon, <1>1, <1>2 DEF TypeInv
<1> QED
  BY Zenon, <1>1, <1>3, <1>4, CtlGoes DEF Apart, CtlGoing

=============================================================================
