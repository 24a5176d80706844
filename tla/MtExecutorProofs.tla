-------------------------- MODULE MtExecutorProofs --------------------------
(***************************************************************************)
(* Safety of the multithreaded executor.  The last calls of the controller *)
(* keep the invariant, and a new executor has it; so a runnable actor is   *)
(* in one place, the counters are exact, an effectful actor stays with its *)
(* worker, and runs and drives end when nothing can move.                  *)
(***************************************************************************)
EXTENDS MtExecutorInvariant, FiniteSetTheorems

-----------------------------------------------------------------------------
(* Starting and ending drives, and the executor itself.                     *)

(* The entry of er_mt_executor_free keeps the invariant. *)
LEMMA StartFreeStep ==
  ASSUME MtInv, StartFree
  PROVE  MtInv'
<1>1. /\ pc[Ctl] = "out" /\ pc' = [pc EXCEPT ![Ctl] = "join"] /\ rooted' = rooted
      /\ running' = running /\ ~running /\ busy = 0 /\ shutdown' = TRUE /\ status' = status
      /\ job' = job /\ queue' = queue /\ Apart
  BY DEF StartFree, Goto, actors, pool, counters, Apart
<1>2. CtlGood /\ TypeInv
  BY Zenon DEF MtInv
<1>3. /\ ~rooted /\ status[Root] # "blocked"
      /\ "join" \in CtlPCs /\ "join" \notin DrivePCs /\ "join" \notin Executing
      /\ pc[Ctl] \notin Executing \cup {"free"} /\ pc[Ctl] # "join"
      /\ "join" \notin {"service", "free"}
  BY <1>1, <1>2 DEF CtlGood, CtlPCs, DrivePCs, Executing
<1>4. shutdown' \in BOOLEAN /\ running' \in BOOLEAN /\ rooted' \in BOOLEAN
  BY Zenon, <1>1, <1>2 DEF TypeInv
<1> QED
  BY Zenon, <1>1, <1>3, <1>4, CtlGoes DEF Apart, CtlGoing

(* The entry of er_mt_executor_drive, which takes the root out of the run   *)
(* queue, keeps the invariant.                                              *)
LEMMA StartDriveStep ==
  ASSUME MtInv, StartDrive
  PROVE  MtInv'
<1>1. /\ pc[Ctl] = "out" /\ pc' = [pc EXCEPT ![Ctl] = "drive"] /\ rooted' = TRUE
      /\ running' = TRUE /\ shutdown' = shutdown /\ status' = [status EXCEPT ![Root] = "runnable"]
      /\ job' = [job EXCEPT ![Ctl] = Root] /\ queue' = Without(queue, Root) /\ Apart
  BY DEF StartDrive, Goto, pool, counters, Apart
<1>2. CtlGood /\ TypeInv /\ Ctl \in Threads /\ Root \in Everyone /\ Root \notin Actors
  BY Zenon, Names DEF MtInv
<1>3. /\ ~shutdown /\ status[Root] = "runnable"
      /\ "drive" \in CtlPCs /\ "drive" \in DrivePCs \ {"drain"} /\ "drive" \notin Executing
      /\ pc[Ctl] \notin Executing \cup {"free"} /\ pc[Ctl] # "join"
      /\ "drive" \notin {"service", "free"} /\ "drive" # "join"
  BY <1>1, <1>2 DEF CtlGood, CtlPCs, DrivePCs, Executing
<1>4. queue' = queue
  <2>1. queue \in Seq(Actors)
    BY Zenon, <1>2 DEF TypeInv
  <2>2. ~ \E i \in DOMAIN queue : queue[i] = Root
    BY <1>2, <2>1
  <2> QED
    BY Zenon, <1>1, <2>2 DEF Without
<1>5. status' = status
  BY Zenon, <1>1, <1>2, <1>3 DEF TypeInv
<1>6. /\ job' \in [Threads -> Everyone \cup {None}] /\ job'[Ctl] = Root
      /\ \A w \in Workers : job'[w] = job[w]
  BY Zenon, <1>1, <1>2, JobMove, Names
<1>7. pc'[Ctl] = "drive"
  BY Zenon, <1>1, <1>2, MoveFacts
<1>8. owner' = owner
  BY Zenon, <1>1 DEF Apart
<1>9. CtlGood'
  BY <1>1, <1>2, <1>3, <1>5, <1>6, <1>7, <1>8 DEF CtlGood
<1>10. status' \in [Everyone -> Statuses] /\ \A b \in Everyone : Waits(b)'
  BY Zenon, <1>1, <1>2, <1>5, WaitsFrame DEF TypeInv, Apart
<1>11. shutdown' \in BOOLEAN /\ running' \in BOOLEAN /\ rooted' \in BOOLEAN
  BY Zenon, <1>1, <1>2 DEF TypeInv
<1>12. CtlMoves("drive")
  BY Zenon, <1>1, <1>3, <1>4, <1>5, <1>6, <1>9, <1>10, <1>11 DEF CtlMoves, Apart
<1> QED
  BY Zenon, <1>12, CtlStep

(* A drive that reports a deadlock keeps the invariant. *)
LEMMA DriveDeadlockStep ==
  ASSUME MtInv, DriveDeadlock, Stuck
  PROVE  MtInv'
<1>1. /\ pc[Ctl] = "deadlock" /\ pc' = [pc EXCEPT ![Ctl] = "finish"] /\ rooted' = rooted
      /\ running' = running /\ shutdown' = shutdown
      /\ status' = [status EXCEPT ![Root] = "runnable"]
      /\ job' = job /\ queue' = queue /\ Apart /\ ~HttpOutstanding
  BY DEF DriveDeadlock, Stuck, Goto, pool, counters, flags, Apart
<1>2. CtlGood /\ TypeInv /\ Ctl \in Threads /\ Root \in Everyone /\ Root \notin Actors
  BY Zenon, Names DEF MtInv
<1>3. /\ ~shutdown /\ rooted /\ "runnable" \in Statuses
      /\ "finish" \in CtlPCs /\ "finish" \in DrivePCs \ {"drain"} /\ "finish" \notin Executing
      /\ pc[Ctl] \notin Executing \cup {"free"} /\ pc[Ctl] # "join"
      /\ "finish" \notin {"service", "free"} /\ "finish" # "join"
  BY <1>1, <1>2 DEF CtlGood, CtlPCs, DrivePCs, Executing, Statuses
<1>4. /\ status' \in [Everyone -> Statuses] /\ status'[Root] = "runnable"
      /\ \A b \in Everyone : b # Root => status'[b] = status[b]
  BY Zenon, <1>1, <1>2, <1>3 DEF TypeInv
<1>5. pc'[Ctl] = "finish"
  BY Zenon, <1>1, <1>2, MoveFacts
<1>6. owner' = owner /\ http' = http /\ mbox' = mbox
  BY Zenon, <1>1 DEF Apart
<1>7. CtlGood'
  BY <1>1, <1>2, <1>3, <1>4, <1>5, <1>6 DEF CtlGood
<1>8. ASSUME NEW b \in Everyone PROVE Waits(b)'
  <2>1. CASE b = Root
    <3>1. ~http'[b]
      BY Zenon, <1>1, <1>6 DEF HttpOutstanding
    <3> QED
      BY Zenon, <1>4, <2>1, <3>1, WakesUp
  <2>2. CASE b # Root
    BY Zenon, <1>4, <1>6, <2>2, WaitsFrame
  <2> QED
    BY Zenon, <2>1, <2>2
<1>9. /\ shutdown' \in BOOLEAN /\ running' \in BOOLEAN /\ rooted' \in BOOLEAN
      /\ job' \in [Threads -> Everyone \cup {None}] /\ \A w \in Workers : job'[w] = job[w]
  BY Zenon, <1>1, <1>2 DEF TypeInv
<1>10. \A b \in Actors : status'[b] = status[b]
  BY Zenon, <1>4, Names
<1>11. CtlMoves("finish")
  BY Zenon, <1>1, <1>3, <1>4, <1>7, <1>8, <1>9, <1>10 DEF CtlMoves, Apart
<1> QED
  BY Zenon, <1>11, CtlStep

(* er_mt_executor_free: every worker has left its loop. *)
LEMMA FreeStep ==
  ASSUME MtInv, Free
  PROVE  MtInv'
<1> DEFINE Back == {a \in Actors : owner[a] # None /\ status[a] = "runnable"}
<1>1. /\ pc[Ctl] = "join" /\ (\A w \in Workers : role[w] # "none" => pc[w] = "exit")
      /\ owner' = [a \in Everyone |-> None] /\ ready' = [w \in Workers |-> FALSE]
      /\ readyBound' = 0 /\ role' = [w \in Workers |-> "none"] /\ general' = 0
      /\ pc' = [x \in Threads |-> IF x = Ctl THEN "free" ELSE "none"]
      /\ status' = status /\ mbox' = mbox /\ http' = http /\ effectful' = effectful
      /\ pumping' = pumping /\ busy' = busy /\ job' = job /\ op' = op /\ rooted' = rooted
      /\ shutdown' = shutdown /\ running' = running
  BY DEF Free, flags
<1>2. PICK es \in Orders(Back) : queue' = queue \o es
  BY Zenon DEF Free
<1>3. CtlGood /\ TypeInv /\ Ctl \in Threads /\ Root \in Everyone /\ Ctl \notin Workers
  BY Zenon, Names DEF MtInv
<1>4. \A w \in Workers : pc[w] \in {"none", "exit"} /\ w \in Threads /\ w # Ctl
  BY Zenon, <1>1, Names DEF MtInv, WorkerGood
<1>5. \A y \in Threads : pc[y] \in {"none", "exit", "join"} /\ pc'[y] \in {"none", "free"}
  BY <1>1, <1>4 DEF Threads
<1>6. /\ \A y \in Threads : /\ pc[y] \notin Executing /\ pc'[y] \notin Executing
                            /\ pc[y] # "service" /\ pc'[y] # "service"
                            /\ pc[y] # "pump" /\ pc'[y] # "pump"
                            /\ pc'[y] \in WorkerPCs \cup CtlPCs
      /\ \A w \in Workers : pc[w] \notin BusyPCs
  BY <1>4, <1>5 DEF Executing, BusyPCs, WorkerPCs, CtlPCs
<1>7. pc'[Ctl] = "free" /\ \A w \in Workers : pc'[w] = "none"
  BY Zenon, <1>1, <1>3, <1>4
<1>8. /\ \A a \in Everyone : owner'[a] = None
      /\ \A w \in Workers : ~ready'[w] /\ role'[w] = "none"
  BY Zenon, <1>1
<1>9. \A b : es \in Seq(Actors) /\ (In(es, b) <=> b \in Back) /\ Once(es, b)
  <2>1. Back \subseteq Actors
    BY Zenon
  <2> HIDE DEF Back
  <2> QED
    BY Zenon, <2>1, OrdersFacts
<1>10. queue \in Seq(Actors) /\ queue' \in Seq(Actors)
  BY Zenon, <1>2, <1>3, <1>9, AppendQueue DEF TypeInv
<1>11. TypeInv'
  <2>1. pc' \in [Threads -> WorkerPCs \cup CtlPCs]
    <3>1. pc' = [x \in Threads |-> pc'[x]]
      BY Zenon, <1>1
    <3> QED
      BY Zenon, <1>6, <3>1
  <2>2. /\ owner' \in [Everyone -> Workers \cup {None}] /\ ready' \in [Workers -> BOOLEAN]
        /\ role' \in [Workers -> Roles] /\ readyBound' \in Nat /\ general' \in Nat
    BY <1>1 DEF Roles
  <2> QED
    BY Zenon, <1>1, <1>3, <1>10, <2>1, <2>2 DEF TypeInv
<1>12. CtlGood'
  <2>1. ~rooted /\ shutdown /\ ~running /\ status[Root] = "runnable"
    BY <1>1, <1>3 DEF CtlGood, DrivePCs
  <2>2. "free" \in CtlPCs /\ "free" \notin DrivePCs
    BY DEF CtlPCs, DrivePCs
  <2> QED
    BY <1>1, <1>3, <1>7, <1>8, <2>1, <2>2 DEF CtlGood
<1>13. \A b \in Everyone : Waits(b)'
  BY Zenon, <1>1, WaitsFrame
<1>14. ASSUME NEW a \in Actors PROVE Placed(a)'
  <2>1. Placed(a) /\ a \in Everyone
    BY Zenon, Names DEF MtInv
  <2>2. /\ In(queue', a) <=> In(queue, a) \/ In(es, a)
        /\ Once(queue, a) /\ Once(es, a) /\ ~(In(queue, a) /\ In(es, a)) => Once(queue', a)
    BY Zenon, <1>2, <1>9, <1>10, AppendQueue
  <2>3. \A y \in Threads : ~Runs(y, a) /\ ~Runs(y, a)'
    BY Zenon, <1>6 DEF Runs
  <2>4. ~IsRun(a) /\ ~IsRun(a)' /\ ~IsReady(a)'
    BY Zenon, <1>8, <2>3 DEF IsRun, IsReady
  <2>5. In(es, a) <=> owner[a] # None /\ status[a] = "runnable"
    BY Zenon, <1>9
  <2>6. IsReady(a) => owner[a] # None
    BY Zenon, Names DEF IsReady
  <2>7. /\ status[a] = "runnable" <=> In(queue, a) \/ IsReady(a)
        /\ In(queue, a) => owner[a] = None
        /\ Once(queue, a)
    BY Zenon, <2>1, <2>4 DEF Placed
  <2>8. (status'[a] = "runnable" <=> In(queue', a)) /\ Once(queue', a)
    BY Zenon, <1>1, <1>9, <2>2, <2>5, <2>6, <2>7
  <2> QED
    BY Zenon, <1>8, <2>1, <2>3, <2>4, <2>8 DEF Placed
<1>15. \A a \in Actors : Owned(a)'
  BY Zenon, <1>8, Names DEF Owned
<1>16. ASSUME NEW w \in Workers PROVE WorkerGood(w)'
  <2>1. /\ pc'[w] = "none" /\ role'[w] = "none" /\ ~ready'[w] /\ "none" \in WorkerPCs
        /\ "none" \notin BusyPCs /\ "none" \notin Executing \cup {"after"}
    BY <1>7, <1>8 DEF WorkerPCs, BusyPCs, Executing
  <2> QED
    BY <2>1 DEF WorkerGood
<1>17. \A y \in Threads : Serves(y)'
  BY Zenon, <1>1, <1>6 DEF MtInv, Serves
<1>18. Pumps'
  BY Zenon, <1>1, <1>4, <1>6 DEF MtInv, Pumps
<1>19. Counts'
  <2>1. Pool' = {} /\ ReadyOnes' = {}
    BY <1>8 DEF Pool, ReadyOnes
  <2>2. BusyOnes = {} /\ BusyOnes' = {}
    BY <1>6, <1>7 DEF BusyOnes, BusyPCs
  <2>3. Cardinality({}) = 0 /\ busy = Cardinality(BusyOnes) /\ Sizes
    BY Zenon DEF MtInv, Counts, Sizes
  <2> QED
    BY Zenon, <1>1, <1>7, <2>1, <2>2, <2>3 DEF Counts
<1> QED
  BY Zenon, <1>11, <1>12, <1>13, <1>14, <1>15, <1>16, <1>17, <1>18, <1>19 DEF MtInv

(* er_mt_executor_new: nobody is bound, and the pool is complete. *)
LEMMA NewStep ==
  ASSUME MtInv, New
  PROVE  MtInv'
<1>1. PICK first \in {W \in SUBSET Workers : Cardinality(W) = Width} :
        /\ role' = [w \in Workers |-> IF w \in first THEN "general" ELSE "none"]
        /\ pc' = [x \in Threads |-> IF x \in first THEN "loop"
                                    ELSE IF x = Ctl THEN "out" ELSE "none"]
  BY Zenon DEF New
<1>2. /\ pc[Ctl] = "free" /\ general' = Width /\ shutdown' = FALSE
      /\ status' = status /\ mbox' = mbox /\ http' = http /\ effectful' = effectful
      /\ owner' = owner /\ queue' = queue /\ pumping' = pumping /\ ready' = ready
      /\ readyBound' = readyBound /\ busy' = busy /\ job' = job /\ op' = op /\ rooted' = rooted
      /\ running' = running
  BY DEF New, actors
<1>3. CtlGood /\ TypeInv /\ Ctl \in Threads /\ Root \in Everyone /\ Ctl \notin Workers
  BY Zenon, Names DEF MtInv
<1>4. first \subseteq Workers /\ Cardinality(first) = Width /\ Width \in Nat
  BY Zenon, ExecutorAssumption
<1>5. \A w \in Workers : pc[w] = "none" /\ role[w] = "none"
  BY Zenon, <1>2, <1>3 DEF MtInv, CtlGood, WorkerGood
<1>6. ASSUME NEW a \in Actors PROVE owner[a] = None /\ a \in Everyone
  <2>1. Owned(a) /\ a \in Everyone /\ owner[a] \in Workers \cup {None}
    BY Zenon, <1>3, Names DEF MtInv, TypeInv
  <2>2. owner[a] # None => role[owner[a]] = "bound" /\ role[owner[a]] = "none"
    BY Zenon, <1>5, <2>1 DEF Owned
  <2> QED
    BY <2>1, <2>2
<1>7. ASSUME NEW w \in Workers PROVE ~ready[w]
  <2>1. ready[w] => role[w] = "bound" /\ role[w] = "none"
    BY Zenon, <1>5 DEF MtInv, WorkerGood
  <2> QED
    BY <2>1
<1>8. /\ pc'[Ctl] = "out"
      /\ \A w \in Workers : /\ w \in first => pc'[w] = "loop" /\ role'[w] = "general"
                            /\ w \notin first => pc'[w] = "none" /\ role'[w] = "none"
  BY Zenon, <1>1, <1>3, <1>4, Names
<1>9. \A y \in Threads : pc[y] \in {"none", "free"} /\ pc'[y] \in {"none", "loop", "out"}
  BY Zenon, <1>2, <1>5, <1>8, Names
<1>10. /\ \A y \in Threads : /\ pc[y] \notin Executing /\ pc'[y] \notin Executing
                             /\ pc[y] # "service" /\ pc'[y] # "service"
                             /\ pc[y] # "pump" /\ pc'[y] # "pump"
                             /\ pc'[y] \in WorkerPCs \cup CtlPCs
       /\ \A w \in Workers : pc[w] \notin BusyPCs /\ pc'[w] \notin BusyPCs
  BY <1>5, <1>8, <1>9 DEF Executing, BusyPCs, WorkerPCs, CtlPCs
<1>11. TypeInv'
  <2>1. pc' \in [Threads -> WorkerPCs \cup CtlPCs]
    <3>1. pc' = [x \in Threads |-> pc'[x]]
      BY Zenon, <1>1
    <3> QED
      BY Zenon, <1>10, <3>1
  <2>2. role' \in [Workers -> Roles]
    BY <1>1 DEF Roles
  <2> QED
    BY Zenon, <1>2, <1>3, <1>4, <2>1, <2>2 DEF TypeInv
<1>12. CtlGood'
  <2>1. ~rooted /\ ~running /\ status[Root] = "runnable"
    BY <1>2, <1>3 DEF CtlGood, DrivePCs
  <2>2. "out" \in CtlPCs /\ "out" \notin DrivePCs
    BY DEF CtlPCs, DrivePCs
  <2> QED
    BY <1>2, <1>3, <1>8, <2>1, <2>2 DEF CtlGood
<1>13. \A b \in Everyone : Waits(b)'
  BY Zenon, <1>2, WaitsFrame
<1>14. ASSUME NEW a \in Actors PROVE Placed(a)'
  <2>1. Placed(a)
    BY Zenon DEF MtInv
  <2>2. \A y \in Threads : Runs(y, a)' <=> Runs(y, a)
    BY Zenon, <1>10 DEF Runs
  <2>3. /\ status'[a] = status[a] /\ owner'[a] = owner[a]
        /\ In(queue', a) <=> In(queue, a)
        /\ Once(queue', a)
        /\ \A w \in Workers : owner[a] = w => (ready'[w] <=> ready[w])
    BY Zenon, <1>2, <2>1 DEF Placed
  <2> QED
    BY Zenon, <2>1, <2>2, <2>3, PlacedFrame
<1>15. \A a \in Actors : Owned(a)'
  BY Zenon, <1>2, <1>6 DEF Owned
<1>16. ASSUME NEW w \in Workers PROVE WorkerGood(w)'
  <2>1. \/ pc'[w] = "loop" /\ role'[w] = "general"
        \/ pc'[w] = "none" /\ role'[w] = "none"
    BY Zenon, <1>8
  <2>2. /\ "none" \in WorkerPCs /\ "loop" \in WorkerPCs
        /\ pc'[w] \notin BusyPCs /\ pc'[w] \notin Executing \cup {"after"}
    BY <2>1 DEF WorkerPCs, BusyPCs, Executing
  <2>3. ~ready'[w]
    BY Zenon, <1>2, <1>7
  <2> QED
    BY <2>1, <2>2, <2>3 DEF WorkerGood
<1>17. \A y \in Threads : Serves(y)'
  BY Zenon, <1>2, <1>10 DEF MtInv, Serves
<1>18. Pumps'
  BY Zenon, <1>2, <1>10, Names DEF MtInv, Pumps
<1>19. Counts'
  <2>1. Pool' = first
    <3>1. \A w \in Workers : role'[w] = "general" <=> w \in first
      BY <1>8
    <3> QED
      BY Zenon, <1>4, <3>1 DEF Pool
  <2>2. ReadyOnes' = ReadyOnes
    BY Zenon, <1>2 DEF ReadyOnes
  <2>3. BusyOnes = {} /\ BusyOnes' = {}
    BY Zenon, <1>10 DEF BusyOnes
  <2>4. Counts
    BY Zenon DEF MtInv
  <2> QED
    BY Zenon, <1>2, <1>4, <2>1, <2>2, <2>3, <2>4 DEF Counts
<1> QED
  BY Zenon, <1>11, <1>12, <1>13, <1>14, <1>15, <1>16, <1>17, <1>18, <1>19 DEF MtInv

-----------------------------------------------------------------------------
(* Facts about finite sets, and a new executor.                             *)

(* Counting the workers, listing the actors. *)
LEMMA SizesHold == Sizes
<1>1. ASSUME NEW S \in SUBSET Workers
      PROVE  /\ Cardinality(S) \in Nat
             /\ \A w \in Workers \ S : Cardinality(S \cup {w}) = Cardinality(S) + 1
             /\ \A w \in S : Cardinality(S \ {w}) = Cardinality(S) - 1 /\ Cardinality(S) > 0
             /\ \A T \in SUBSET (Workers \ S) :
                  Cardinality(S \cup T) = Cardinality(S) + Cardinality(T)
  <2>1. IsFiniteSet(S)
    BY Zenon, ExecutorAssumption, FS_Subset
  <2>2. Cardinality(S) \in Nat /\ (Cardinality(S) = 0 => S = {})
    BY Zenon, <2>1, FS_CardinalityType, FS_EmptySet
  <2>3. ASSUME NEW w \in Workers \ S PROVE Cardinality(S \cup {w}) = Cardinality(S) + 1
    BY Zenon, <2>1, FS_AddElement
  <2>4. ASSUME NEW w \in S
        PROVE  Cardinality(S \ {w}) = Cardinality(S) - 1 /\ Cardinality(S) > 0
    <3>1. Cardinality(S \ {w}) = Cardinality(S) - 1
      BY Zenon, <2>1, FS_RemoveElement
    <3> QED
      BY <2>2, <3>1
  <2>5. ASSUME NEW T \in SUBSET (Workers \ S)
        PROVE  Cardinality(S \cup T) = Cardinality(S) + Cardinality(T)
    <3>1. S \cap T = {} /\ IsFiniteSet(T) /\ Cardinality(T) \in Nat /\ Cardinality({}) = 0
      BY Zenon, ExecutorAssumption, FS_Subset, FS_CardinalityType, FS_EmptySet
    <3>2. Cardinality(S \cup T) = Cardinality(S) + Cardinality(T) - Cardinality(S \cap T)
      BY Zenon, <2>1, <3>1, FS_Union
    <3> QED
      BY <2>2, <3>1, <3>2
  <2> QED
    BY Zenon, <2>2, <2>3, <2>4, <2>5
<1>2. ASSUME NEW S \in SUBSET Actors
      PROVE  /\ Cardinality(S) \in Nat
             /\ \A es \in Orders(S) : \A c \in S : \E i \in 1..Cardinality(S) : es[i] = c
  <2> DEFINE n == Cardinality(S)
  <2>1. IsFiniteSet(S) /\ n \in Nat
    BY Zenon, ExecutorAssumption, FS_Subset, FS_CardinalityType
  <2>2. ASSUME NEW es \in Orders(S), NEW c \in S PROVE \E i \in 1..n : es[i] = c
    <3>1. es \in [1..n -> S] /\ \A i, j \in 1..n : es[i] = es[j] => i = j
      BY Zenon DEF Orders
    <3>2. es \in Injection(1..n, S)
      BY Zenon, <3>1 DEF Injection, IsInjective
    <3>3. IsFiniteSet(1..n) /\ Cardinality(1..n) = n
      BY <2>1, FS_Interval
    <3>4. es \in Surjection(1..n, S)
      BY Zenon, <2>1, <3>2, <3>3, FS_Injection
    <3> QED
      BY Zenon, <3>4 DEF Surjection
  <2> QED
    BY Zenon, <2>1, <2>2
<1> QED
  BY Zenon, <1>1, <1>2, FS_EmptySet DEF Sizes

(* A set with one member at most. *)
LEMMA CountUnique ==
  ASSUME NEW S, \A x, y \in S : x = y
  PROVE  Cardinality(S) = IF S = {} THEN 0 ELSE 1
<1>1. CASE S = {}
  BY Zenon, <1>1, FS_EmptySet
<1>2. CASE S # {}
  <2>1. PICK x \in S : TRUE
    BY Zenon, <1>2
  <2>2. S = {x}
    BY Zenon
  <2> QED
    BY Zenon, <1>2, <2>2, FS_Singleton
<1> QED
  BY Zenon, <1>1, <1>2

(* A new executor satisfies the invariant. *)
LEMMA InitMtInv == Init => MtInv
<1> SUFFICES ASSUME Init PROVE MtInv
  OBVIOUS
<1>1. PICK first \in {W \in SUBSET Workers : Cardinality(W) = Width} :
        /\ role = [w \in Workers |-> IF w \in first THEN "general" ELSE "none"]
        /\ pc = [x \in Threads |-> IF x \in first THEN "loop"
                                   ELSE IF x = Ctl THEN "out" ELSE "none"]
  BY Zenon DEF Init
<1>2. /\ status = [a \in Everyone |-> IF a = Root THEN "runnable" ELSE "new"]
      /\ mbox = [a \in Everyone |-> 0] /\ http = [a \in Everyone |-> FALSE]
      /\ effectful = [a \in Actors |-> FALSE] /\ owner = [a \in Everyone |-> None]
      /\ queue = <<>> /\ pumping = FALSE /\ ready = [w \in Workers |-> FALSE]
      /\ general = Width /\ readyBound = 0 /\ busy = 0
      /\ running = FALSE /\ rooted = FALSE /\ shutdown = FALSE
      /\ job = [x \in Threads |-> None] /\ op = [x \in Threads |-> None]
  BY DEF Init
<1>3. Ctl \in Threads /\ Root \in Everyone /\ Ctl \notin Workers
  BY Zenon, Names
<1>4. first \subseteq Workers /\ Cardinality(first) = Width /\ Width \in Nat
  BY Zenon, ExecutorAssumption
<1>5. /\ pc[Ctl] = "out"
      /\ \A w \in Workers : /\ w \in first => pc[w] = "loop" /\ role[w] = "general"
                            /\ w \notin first => pc[w] = "none" /\ role[w] = "none"
  BY Zenon, <1>1, <1>3, <1>4, Names
<1>6. \A y \in Threads : pc[y] \in {"none", "loop", "out"}
  BY Zenon, <1>5, Names
<1>7. /\ \A y \in Threads : /\ pc[y] \notin Executing /\ pc[y] # "service" /\ pc[y] # "pump"
                            /\ pc[y] \in WorkerPCs \cup CtlPCs
      /\ \A w \in Workers : pc[w] \notin BusyPCs
  BY <1>5, <1>6 DEF Executing, BusyPCs, WorkerPCs, CtlPCs
<1>8. /\ \A a \in Actors : owner[a] = None /\ status[a] = "new" /\ a \in Everyone
      /\ \A w \in Workers : ~ready[w]
      /\ \A y \in Threads : op[y] = None
      /\ status[Root] = "runnable" /\ owner[Root] = None
  BY Zenon, <1>2, <1>3, Names
<1>9. TypeInv
  <2>1. pc \in [Threads -> WorkerPCs \cup CtlPCs]
    <3>1. pc = [x \in Threads |-> pc[x]]
      BY Zenon, <1>1
    <3> QED
      BY Zenon, <1>7, <3>1
  <2>2. role \in [Workers -> Roles]
    BY <1>1 DEF Roles
  <2>3. /\ status \in [Everyone -> Statuses] /\ mbox \in [Everyone -> Nat]
        /\ http \in [Everyone -> BOOLEAN] /\ effectful \in [Actors -> BOOLEAN]
        /\ ready \in [Workers -> BOOLEAN] /\ general \in Nat /\ readyBound \in Nat /\ busy \in Nat
    BY <1>2, <1>4 DEF Statuses
  <2>4. /\ job \in [Threads -> Everyone \cup {None}] /\ op \in [Threads -> Ops]
        /\ owner \in [Everyone -> Workers \cup {None}]
        /\ pumping \in BOOLEAN /\ running \in BOOLEAN /\ rooted \in BOOLEAN /\ shutdown \in BOOLEAN
    BY Zenon, <1>2 DEF Ops
  <2>5. queue \in Seq(Actors)
    BY <1>2
  <2> QED
    BY Zenon, <2>1, <2>2, <2>3, <2>4, <2>5 DEF TypeInv
<1>10. CtlGood
  <2>1. "out" \in CtlPCs /\ "out" \notin DrivePCs
    BY DEF CtlPCs, DrivePCs
  <2> QED
    BY <1>2, <1>5, <1>8, <2>1 DEF CtlGood
<1>11. \A b \in Everyone : Waits(b)
  BY Zenon, <1>2 DEF Waits
<1>12. ASSUME NEW a \in Actors PROVE Placed(a)
  <2>1. ~In(queue, a) /\ Once(queue, a)
    BY Zenon, <1>2, ShortQueues
  <2>2. ~IsReady(a) /\ \A y \in Threads : ~Runs(y, a)
    BY Zenon, <1>7, <1>8 DEF IsReady, Runs
  <2>3. status[a] # "runnable"
    BY <1>8
  <2> QED
    BY Zenon, <2>1, <2>2, <2>3 DEF Placed, IsRun
<1>13. \A a \in Actors : Owned(a)
  BY Zenon, <1>8 DEF Owned
<1>14. ASSUME NEW w \in Workers PROVE WorkerGood(w)
  <2>1. \/ pc[w] = "loop" /\ role[w] = "general"
        \/ pc[w] = "none" /\ role[w] = "none"
    BY Zenon, <1>5
  <2>2. /\ "none" \in WorkerPCs /\ "loop" \in WorkerPCs
        /\ pc[w] \notin BusyPCs /\ pc[w] \notin Executing \cup {"after"}
    BY <2>1 DEF WorkerPCs, BusyPCs, Executing
  <2>3. ~ready[w]
    BY Zenon, <1>8
  <2> QED
    BY <2>1, <2>2, <2>3 DEF WorkerGood
<1>15. \A y \in Threads : Serves(y)
  BY Zenon, <1>7, <1>8 DEF Serves
<1>16. Pumps
  BY Zenon, <1>2, <1>7, Names DEF Pumps
<1>17. Counts
  <2>1. Pool = first
    <3>1. \A w \in Workers : role[w] = "general" <=> w \in first
      BY <1>5
    <3> QED
      BY Zenon, <1>4, <3>1 DEF Pool
  <2>2. ReadyOnes = {}
    BY Zenon, <1>8 DEF ReadyOnes
  <2>3. BusyOnes = {}
    BY Zenon, <1>7 DEF BusyOnes
  <2>4. Cardinality({}) = 0 /\ Sizes
    BY Zenon, SizesHold DEF Sizes
  <2> QED
    BY Zenon, <1>2, <1>4, <2>1, <2>2, <2>3, <2>4 DEF Counts
<1> QED
  BY Zenon, <1>9, <1>10, <1>11, <1>12, <1>13, <1>14, <1>15, <1>16, <1>17 DEF MtInv

(* The vars as one tuple per group: a stuttering step changes none of them. *)
LEMMA StutterMtInv ==
  ASSUME MtInv, UNCHANGED vars
  PROVE  MtInv'
<1>1. /\ status' = status /\ mbox' = mbox /\ http' = http /\ effectful' = effectful
      /\ owner' = owner /\ queue' = queue /\ pumping' = pumping /\ role' = role /\ ready' = ready
      /\ general' = general /\ readyBound' = readyBound /\ busy' = busy /\ pc' = pc /\ job' = job
      /\ op' = op /\ rooted' = rooted /\ shutdown' = shutdown /\ running' = running
  BY DEF vars, actors, pool, counters, flags
<1>2. running' \in BOOLEAN
  BY Zenon, <1>1 DEF MtInv, TypeInv
<1> QED
  BY Zenon, <1>1, <1>2, StutterStep DEF Stutters

(* Every step keeps the invariant: one case per action. *)
LEMMA NextMtInv == MtInv /\ [Next]_vars => MtInv'
<1> SUFFICES ASSUME MtInv, [Next]_vars PROVE MtInv'
  OBVIOUS
<1>1. ASSUME NEW w \in Workers, Loop(w) PROVE MtInv'
  BY Zenon, <1>1, RestSteps, ExitStep, BoundRunStep, GeneralRunStep, ProbeStep, PumpStep,
     PumpEndStep, ProbeEndStep, AfterSliceStep DEF Loop
<1>2. ASSUME NEW w \in Workers, Effect(w) PROVE MtInv'
  BY Zenon, <1>2, EffectStep
<1>3. ASSUME NEW x \in Threads, Slice(x) PROVE MtInv'
  <2>1. CASE Yield(x)
    BY Zenon, <2>1, YieldStep
  <2>2. CASE \E how \in Terminated : SliceEnds(x, how)
    BY Zenon, <2>2, TerminateStep
  <2>3. CASE RecvPark(x)
    BY Zenon, <2>3, RecvParkStep
  <2>4. CASE RecvTake(x)
    BY Zenon, <2>4, RecvTakeStep
  <2>5. CASE BeginService(x)
    BY Zenon, <2>5, BeginServiceStep
  <2>6. CASE Fetch(x)
    BY Zenon, <2>6, SettleStep, DispatchStep DEF Fetch
  <2> QED
    BY Zenon, <1>3, <2>1, <2>2, <2>3, <2>4, <2>5, <2>6 DEF Slice
<1>4. ASSUME NEW x \in Threads, Service(x) PROVE MtInv'
  BY Zenon, <1>4, TerminateStep, YieldStep, EndSendStep, EndSpawnStep DEF Service
<1>5. ASSUME NEW a \in Actors, HostStart(a) PROVE MtInv'
  BY Zenon, <1>5, HostStartStep
<1>6. ASSUME NEW a \in Everyone, Inject(a) PROVE MtInv'
  BY Zenon, <1>6, InjectStep
<1>7. ASSUME Call PROVE MtInv'
  BY Zenon, <1>7, StartRunStep, StartDriveStep, StartFreeStep, NewStep DEF Call
<1>8. ASSUME InCall PROVE MtInv'
  BY Zenon, <1>8, WaitSteps, RunReturnsStep, DriveOnSteps, DriveDeadlockStep, DriveFinishStep,
     DriveReturnsStep, FreeStep DEF InCall
<1>9. ASSUME UNCHANGED vars PROVE MtInv'
  BY Zenon, <1>9, StutterMtInv
<1> QED
  BY Zenon, <1>1, <1>2, <1>3, <1>4, <1>5, <1>6, <1>7, <1>8, <1>9 DEF Next

(* The inductive invariant holds in every state of the executor. *)
THEOREM ExecutorInvariant == Spec => []MtInv
<1>1. Init => MtInv
  BY InitMtInv
<1>2. MtInv /\ [Next]_vars => MtInv'
  BY NextMtInv
<1> QED
  BY <1>1, <1>2, PTL DEF Spec

-----------------------------------------------------------------------------
(* What the invariant says.                                                 *)

(* The invariant places a runnable actor once. *)
LEMMA OnePlace == MtInv => RunnableInOnePlace
<1> SUFFICES ASSUME MtInv PROVE RunnableInOnePlace
  OBVIOUS
<1>1. TypeInv /\ CtlGood /\ Root \notin Actors
  BY Zenon, Names DEF MtInv
<1>2. ASSUME NEW a \in Actors
      PROVE  Cardinality(Queued(a)) + Cardinality(ReadyOn(a)) + Cardinality(Runners(a))
               = IF status[a] = "runnable" THEN 1 ELSE 0
  <2>1. Placed(a)
    BY Zenon DEF MtInv
  <2>2. \A i, j \in Queued(a) : i = j
    BY Zenon, <2>1 DEF Queued, Placed, Once
  <2>3. \A v, w \in ReadyOn(a) : v = w
    BY Zenon DEF ReadyOn
  <2>4. \A x, y \in Runners(a) : x = y
    BY Zenon, <2>1 DEF Runners, Placed, Runs
  <2>5. /\ Cardinality(Queued(a)) = IF Queued(a) = {} THEN 0 ELSE 1
        /\ Cardinality(ReadyOn(a)) = IF ReadyOn(a) = {} THEN 0 ELSE 1
        /\ Cardinality(Runners(a)) = IF Runners(a) = {} THEN 0 ELSE 1
    BY Zenon, <2>2, <2>3, <2>4, CountUnique
  <2>6. /\ Queued(a) # {} <=> In(queue, a)
        /\ ReadyOn(a) # {} <=> IsReady(a)
        /\ Runners(a) # {} <=> IsRun(a)
    BY Zenon DEF Queued, ReadyOn, Runners, In, IsReady, IsRun, Runs
  <2>7. IsReady(a) => owner[a] # None
    BY Zenon, Names DEF IsReady
  <2>8. /\ status[a] = "runnable" <=> In(queue, a) \/ IsReady(a) \/ IsRun(a)
        /\ In(queue, a) => ~IsReady(a) /\ ~IsRun(a)
        /\ IsReady(a) => ~IsRun(a)
    BY Zenon, <2>1, <2>7 DEF Placed
  <2> QED
    BY <2>5, <2>6, <2>8
<1>3. Queued(Root) = {}
  <2>1. queue \in Seq(Actors)
    BY Zenon, <1>1 DEF TypeInv
  <2> QED
    BY <1>1, <2>1 DEF Queued
<1>4. Runners(Root) \subseteq {Ctl}
  BY Zenon, <1>1, Executed DEF Runners
<1>5. Runners(Root) # {} => status[Root] = "runnable"
  BY Zenon, Executed DEF Runners
<1> QED
  BY Zenon, <1>2, <1>3, <1>4, <1>5 DEF RunnableInOnePlace

(* The invariant makes the counters exact. *)
LEMMA CountsExact == MtInv => CountersExact
<1> SUFFICES ASSUME MtInv PROVE CountersExact
  OBVIOUS
<1>1. Counts /\ Pumps
  BY Zenon DEF MtInv
<1> DEFINE P == {w \in Workers : pc[w] = "pump"}
<1>2. \A v, w \in P : v = w
  BY Zenon, <1>1 DEF Pumps
<1>3. P # {} <=> pumping
  BY Zenon, <1>1 DEF Pumps
<1>4. Cardinality(P) = IF P = {} THEN 0 ELSE 1
  BY Zenon, <1>2, CountUnique
<1>5. Cardinality(P) = IF pumping THEN 1 ELSE 0
  BY Zenon, <1>3, <1>4
<1> QED
  BY Zenon, <1>1, <1>5 DEF CountersExact, Counts, Pool, ReadyOnes, BusyOnes

(* The invariant binds an effectful actor to its worker. *)
LEMMA Bound == MtInv => BoundForGood
<1> SUFFICES ASSUME MtInv PROVE BoundForGood
  OBVIOUS
<1>1. ASSUME NEW w \in Workers
      PROVE  /\ role[w] = "bound" <=> BoundTo(w) # {}
             /\ Cardinality(BoundTo(w)) <= 1
             /\ pc[w] \in Executing /\ role[w] = "bound" => BoundTo(w) = {job[w]}
             /\ pc[w] = "loop" => \A a \in BoundTo(w) : status[a] \notin Terminated
  <2>1. WorkerGood(w) /\ w # None
    BY Zenon, Names DEF MtInv
  <2>2. \A a \in BoundTo(w) : a \in Actors /\ owner[a] = w /\ Owned(a)
    BY Zenon DEF BoundTo, MtInv
  <2>3. role[w] = "bound" <=> BoundTo(w) # {}
    BY Zenon, <2>1, <2>2 DEF WorkerGood, Owned, BoundTo
  <2>4. ASSUME NEW a \in BoundTo(w), NEW b \in BoundTo(w) PROVE a = b
    <3>1. Owned(a) /\ owner[a] = w /\ owner[b] = w /\ b \in Actors
      BY Zenon, <2>2
    <3> QED
      BY Zenon, <2>1, <3>1 DEF Owned
  <2>5. Cardinality(BoundTo(w)) <= 1
    <3>1. Cardinality(BoundTo(w)) = IF BoundTo(w) = {} THEN 0 ELSE 1
      BY Zenon, <2>4, CountUnique
    <3> QED
      BY <3>1
  <2>6. ASSUME pc[w] \in Executing, role[w] = "bound" PROVE BoundTo(w) = {job[w]}
    <3>1. job[w] \in BoundTo(w)
      BY Zenon, <2>1, <2>6 DEF WorkerGood, BoundTo
    <3> QED
      BY Zenon, <2>4, <3>1
  <2>7. ASSUME pc[w] = "loop", NEW a \in BoundTo(w) PROVE status[a] \notin Terminated
    <3>1. pc[w] # "after"
      BY <2>7
    <3> QED
      BY Zenon, <2>2, <3>1, NotTerminated
  <2> QED
    BY Zenon, <2>3, <2>5, <2>6, <2>7
<1>2. ASSUME NEW a \in Actors, NEW x \in Runners(a), effectful[a] PROVE owner[a] = x
  <2>1. x \in Threads /\ pc[x] \in Executing /\ job[x] = a
    BY Zenon DEF Runners
  <2>2. x \in Workers
    BY Zenon, <2>1, Executed, Names
  <2> QED
    BY Zenon, <1>2, <2>1, <2>2 DEF MtInv, WorkerGood
<1> QED
  BY Zenon, <1>1, <1>2 DEF BoundForGood

(* A runnable actor is in exactly one of the run queue, its bound worker's  *)
(* ready slot and a thread that executes it, and an actor that is not       *)
(* runnable is in none (er_enqueue, er_mt_worker_main).                     *)
THEOREM RunnableAlwaysInOnePlace == Spec => []RunnableInOnePlace
BY ExecutorInvariant, OnePlace, PTL

(* The counters the completion tests read are the counts they stand for    *)
(* (er_mt_maybe_complete_locked, er_mt_executor_drive).                     *)
THEOREM CountersAlwaysExact == Spec => []CountersExact
BY ExecutorInvariant, CountsExact, PTL

(* An effectful actor runs on the worker it is bound to and on no other    *)
(* (er_mt_bind_locked, er_mt_release_bound_locked).                         *)
THEOREM AlwaysBoundForGood == Spec => []BoundForGood
BY ExecutorInvariant, Bound, PTL

-----------------------------------------------------------------------------
(* The steps that end a run or report a deadlock.                           *)

(* With no actor queued, ready or executed and no transfer outstanding,    *)
(* every actor is over or waits for a message.                              *)
LEMMA CalmIsQuiet ==
  ASSUME MtInv, queue = <<>>, readyBound = 0, ~HttpOutstanding,
         \A x \in Threads : pc[x] \notin Executing
  PROVE  /\ Quiet
         /\ RunReason = IF \E a \in Actors : Parked(a) THEN "quiescent" ELSE "idle"
<1>1. TypeInv
  BY Zenon DEF MtInv
<1>2. \A a \in Actors : ~http[a]
  BY Zenon, Names DEF HttpOutstanding
<1>3. ASSUME NEW a \in Actors PROVE status[a] # "runnable" /\ status[a] \in Statuses
  <2>1. Placed(a) /\ a \in Everyone
    BY Zenon, Names DEF MtInv
  <2>2. ~In(queue, a)
    BY Zenon, ShortQueues
  <2>3. ~IsReady(a)
    BY Zenon, NoneCounted DEF IsReady
  <2>4. ~IsRun(a)
    BY Zenon DEF IsRun, Runs
  <2> QED
    BY Zenon, <1>1, <2>1, <2>2, <2>3, <2>4 DEF Placed, TypeInv
<1>4. \A a \in Actors : Parked(a) <=> status[a] = "blocked"
  BY Zenon, <1>2 DEF Parked
<1>5. \A a \in Actors : Parked(a) \/ status[a] \in Terminated \cup {"new"}
  BY <1>3, <1>4 DEF Statuses, Terminated
<1>6. \A a \in Actors : Parked(a) => mbox[a] = 0
  BY Zenon, Names DEF MtInv, Waits
<1>7. RunReason = IF \E a \in Actors : Parked(a) THEN "quiescent" ELSE "idle"
  BY Zenon, <1>4 DEF RunReason
<1> QED
  BY Zenon, <1>5, <1>6, <1>7 DEF Quiet

(* The workers and the slices leave the controller where it is, but for its *)
(* own slice.                                                               *)
LEMMA GotoLeaves ==
  ASSUME TypeInv, NEW w \in Workers, NEW l, Goto(w, l)
  PROVE  pc'[Ctl] = pc[Ctl]
BY Zenon, Names DEF Goto, TypeInv

(* Binding a worker leaves the controller where it is. *)
LEMMA BindLeaves ==
  ASSUME TypeInv, NEW w \in Workers, NEW a, NEW pcs \in [Threads -> WorkerPCs \cup CtlPCs],
         pcs[Ctl] = pc[Ctl], Bind(w, a, pcs)
  PROVE  pc'[Ctl] = pc[Ctl]
<1>1. PICK v \in Replacements : pc' = [pcs EXCEPT ![v] = "loop"]
  BY Zenon DEF Bind
<1>2. v # Ctl /\ Ctl \in Threads
  BY Zenon, Names DEF Replacements, Spares, Unborn
<1> QED
  BY Zenon, <1>1, <1>2

(* A worker leaves the controller where it is, and only three of its steps  *)
(* can stop a run.                                                          *)
LEMMA WorkerLeaves ==
  ASSUME MtInv, NEW w \in Workers, Loop(w) \/ Effect(w)
  PROVE  /\ pc'[Ctl] = pc[Ctl]
         /\ running' = running \/ BoundIdle(w) \/ ProbeEnd(w) \/ AfterSlice(w)
<1>1. TypeInv /\ w \in Threads /\ w # Ctl /\ Ctl \in Threads
  BY Zenon, Names DEF MtInv
<1>2. CASE WorkerExit(w)
  BY <1>1, <1>2, GotoLeaves DEF WorkerExit, flags
<1>3. CASE WorkerRest(w)
  BY <1>3 DEF WorkerRest, flags
<1>4. CASE BoundIdle(w)
  BY <1>4 DEF BoundIdle
<1>5. CASE BoundRun(w)
  BY <1>1, <1>5, GotoLeaves DEF BoundRun, flags
<1>6. CASE GeneralRun(w)
  <2>1. running' = running
    BY <1>6 DEF GeneralRun, flags
  <2> DEFINE pcs == [pc EXCEPT ![w] = "slice"]
  <2>2. pcs \in [Threads -> WorkerPCs \cup CtlPCs] /\ pcs[Ctl] = pc[Ctl]
    BY <1>1, Places DEF TypeInv
  <2>3. Goto(w, "slice") \/ Bind(w, Head(queue), pcs)
    BY Zenon, <1>6 DEF GeneralRun
  <2> HIDE DEF pcs
  <2> QED
    BY Zenon, <1>1, <2>1, <2>2, <2>3, GotoLeaves, BindLeaves
<1>7. CASE GeneralProbe(w)
  BY <1>1, <1>7, GotoLeaves DEF GeneralProbe, flags
<1>8. CASE Pump(w)
  BY <1>1, <1>8, GotoLeaves DEF Pump, flags
<1>9. CASE PumpEnd(w)
  BY <1>1, <1>9, GotoLeaves DEF PumpEnd, flags
<1>10. CASE ProbeEnd(w)
  BY Zenon, <1>1, <1>10, GotoLeaves DEF ProbeEnd
<1>11. CASE AfterSlice(w)
  BY Zenon, <1>1, <1>11, GotoLeaves DEF AfterSlice
<1>12. CASE Effect(w)
  <2>1. running' = running /\ Bind(w, job[w], pc)
    BY <1>12 DEF Effect, flags
  <2>2. pc \in [Threads -> WorkerPCs \cup CtlPCs]
    BY Zenon, <1>1 DEF TypeInv
  <2> QED
    BY Zenon, <1>1, <2>1, <2>2, BindLeaves
<1> QED
  BY Zenon, <1>2, <1>3, <1>4, <1>5, <1>6, <1>7, <1>8, <1>9, <1>10, <1>11, <1>12 DEF Loop

(* A slice moves the controller only out of its own slice, and stops no     *)
(* run.                                                                     *)
LEMMA SliceLeaves ==
  ASSUME MtInv, NEW x \in Threads, Slice(x) \/ Service(x)
  PROVE  /\ running' = running
         /\ pc'[Ctl] = pc[Ctl] \/ (pc[Ctl] \notin {"out", "deadlock"} /\ pc'[Ctl] # "run")
<1>1. TypeInv /\ Ctl \in Threads
  BY Zenon, Names DEF MtInv
<1>2. /\ running' = running /\ pc[x] \in {"slice", "service", "settle"}
      /\ \E l \in {Onward(x), "finish", "after", "service", "settle"} : pc' = [pc EXCEPT ![x] = l]
  <2>1. CASE Yield(x) \/ RecvPark(x) \/ RecvTake(x) \/ BeginService(x)
    BY <2>1 DEF Yield, RecvPark, RecvTake, BeginService, Requesting, InSlice, Goto, flags
  <2>2. CASE (\E how \in Terminated : SliceEnds(x, how)) \/ ServiceFails(x)
    BY <2>2 DEF SliceEnds, ServiceFails, Terminate, InSlice, Goto, flags
  <2>3. CASE Fetch(x)
    BY <2>3 DEF Fetch, Settle, Dispatch, Requesting, InSlice, Goto, flags
  <2>4. CASE EndHost(x) \/ EndSend(x) \/ EndSpawn(x)
    BY <2>4 DEF EndHost, EndSend, EndSpawn, Goto, flags
  <2> QED
    BY Zenon, <2>1, <2>2, <2>3, <2>4 DEF Slice, Service
<1>3. PICK l \in {Onward(x), "finish", "after", "service", "settle"} : pc' = [pc EXCEPT ![x] = l]
  BY Zenon, <1>2
<1>4. l # "run"
  BY DEF Onward
<1>5. pc'[x] = l /\ \A y \in Threads \ {x} : pc'[y] = pc[y]
  BY Zenon, <1>1, <1>3, MoveFacts
<1>6. CASE x = Ctl
  <2>1. pc[Ctl] \notin {"out", "deadlock"}
    BY <1>2, <1>6
  <2> QED
    BY Zenon, <1>2, <1>4, <1>5, <1>6, <2>1
<1>7. CASE x # Ctl
  BY Zenon, <1>1, <1>2, <1>5, <1>7
<1> QED
  BY Zenon, <1>6, <1>7

(* The worker that ends a run is the last busy one. *)
LEMMA LastBusy ==
  ASSUME MtInv, NEW w \in Workers, pc[w] \in BusyPCs \ Executing, busy - 1 = 0, ~rooted
  PROVE  \A x \in Threads : pc[x] \notin Executing
<1>1. CtlGood /\ busy = Cardinality(BusyOnes) /\ BusyOnes \subseteq Workers /\ w \in BusyOnes
  BY Zenon DEF MtInv, Counts, BusyOnes
<1>2. Cardinality(BusyOnes \ {w}) = Cardinality(BusyOnes) - 1
  BY Zenon, <1>1, CountOne
<1>3. ASSUME NEW v \in Workers PROVE pc[v] \notin Executing
  <2>1. v \in BusyOnes \ {w} => Cardinality(BusyOnes \ {w}) > 0
    <3>1. BusyOnes \ {w} \subseteq Workers
      BY Zenon, <1>1
    <3> QED
      BY Zenon, <3>1, CountOne
  <2>2. v \notin BusyOnes \ {w}
    BY <1>1, <1>2, <2>1
  <2> QED
    BY Zenon, <2>2, Places DEF BusyOnes
<1>4. pc[Ctl] \notin Executing
  BY <1>1 DEF CtlGood, Executing, DrivePCs
<1> QED
  BY Zenon, <1>3, <1>4, Names

(* Without a busy worker and outside its own slice, nobody executes an      *)
(* actor.                                                                   *)
LEMMA NoneBusy ==
  ASSUME MtInv, busy = 0, pc[Ctl] \notin Executing
  PROVE  \A x \in Threads : pc[x] \notin Executing
BY Zenon, NoneCounted, Names, Places

(* A step that stops a run takes place in a quiet state. *)
LEMMA StopsQuiet ==
  ASSUME MtInv, Next, pc'[Ctl] = "run", ~running', running \/ pc[Ctl] = "out"
  PROVE  /\ Quiet
         /\ reason' = IF \E a \in Actors : Parked(a) THEN "quiescent" ELSE "idle"
<1>1. TypeInv /\ CtlGood /\ Ctl \in Threads
  BY Zenon, Names DEF MtInv
<1>2. SUFFICES /\ queue = <<>> /\ readyBound = 0 /\ ~HttpOutstanding /\ reason' = RunReason
               /\ \A x \in Threads : pc[x] \notin Executing
  BY Zenon, CalmIsQuiet
<1>3. ~(running' = running /\ pc'[Ctl] = pc[Ctl])
  BY <1>1 DEF TypeInv
<1>4. ASSUME NEW w \in Workers, Loop(w) \/ Effect(w)
      PROVE  /\ queue = <<>> /\ readyBound = 0 /\ ~HttpOutstanding /\ reason' = RunReason
             /\ \A x \in Threads : pc[x] \notin Executing
  <2>1. pc'[Ctl] = pc[Ctl] /\ (BoundIdle(w) \/ ProbeEnd(w) \/ AfterSlice(w))
    BY Zenon, <1>3, <1>4, WorkerLeaves
  <2>2. ~(running' = running)
    BY Zenon, <1>3, <2>1
  <2>3. CASE BoundIdle(w)
    <3>1. Completes(busy) /\ reason' = RunReason
      BY Zenon, <2>2, <2>3 DEF BoundIdle
    <3>2. pc[Ctl] \notin Executing
      BY <2>1 DEF Executing
    <3>3. busy = 0
      BY Zenon, <3>1 DEF Completes
    <3> QED
      BY Zenon, <3>1, <3>2, <3>3, NoneBusy DEF Completes
  <2>4. CASE ProbeEnd(w) \/ AfterSlice(w)
    <3>1. Completes(busy - 1) /\ reason' = RunReason
      BY Zenon, <2>2, <2>4 DEF ProbeEnd, AfterSlice, MaybeComplete
    <3>2. pc[w] \in BusyPCs \ Executing
      BY <2>4 DEF ProbeEnd, AfterSlice, BusyPCs, WorkerPCs, Executing
    <3>3. busy - 1 = 0 /\ ~rooted
      BY Zenon, <3>1 DEF Completes
    <3> QED
      BY Zenon, <3>1, <3>2, <3>3, LastBusy DEF Completes
  <2> QED
    BY Zenon, <2>1, <2>3, <2>4
<1>5. ASSUME NEW x \in Threads, Slice(x) \/ Service(x) PROVE FALSE
  BY Zenon, <1>3, <1>5, SliceLeaves
<1>6. ASSUME (\E a \in Actors : HostStart(a)) \/ (\E a \in Everyone : Inject(a)) PROVE FALSE
  BY <1>3, <1>6 DEF HostStart, Inject, flags
<1>7. ASSUME StartRun
      PROVE  /\ queue = <<>> /\ readyBound = 0 /\ ~HttpOutstanding /\ reason' = RunReason
             /\ \A x \in Threads : pc[x] \notin Executing
  <2>1. /\ busy = 0 /\ queue = <<>> /\ readyBound = 0 /\ ~HttpOutstanding
        /\ reason' = RunReason
    BY Zenon, <1>7 DEF StartRun
  <2>2. pc[Ctl] \notin Executing
    BY <1>7 DEF StartRun, Executing
  <2> QED
    BY Zenon, <2>1, <2>2, NoneBusy
<1>8. ASSUME StartDrive \/ StartFree PROVE FALSE
  BY <1>1, <1>8 DEF StartDrive, StartFree, Goto, TypeInv
<1>9. ASSUME New \/ Free PROVE FALSE
  <2>1. CASE New
    <3>1. running' = running /\ pc[Ctl] = "free"
      BY <2>1 DEF New
    <3>2. ~running /\ pc[Ctl] # "out"
      BY <1>1, <3>1 DEF CtlGood, DrivePCs
    <3> QED
      BY Zenon, <3>1, <3>2
  <2>2. CASE Free
    <3>1. running' = running /\ pc[Ctl] = "join"
      BY <2>2 DEF Free, flags
    <3>2. ~running /\ pc[Ctl] # "out"
      BY <1>1, <3>1 DEF CtlGood, DrivePCs
    <3> QED
      BY Zenon, <3>1, <3>2
  <2> QED
    BY Zenon, <1>9, <2>1, <2>2
<1>10. ASSUME RunWaits \/ DriveWaits \/ DriveDrains PROVE FALSE
  BY <1>3, <1>10 DEF RunWaits, DriveWaits, DriveDrains, flags
<1>11. ASSUME RunReturns \/ DriveRoot \/ DriveSuspects \/ DriveDeadlock \/ DriveFinish \/ DriveReturns
       PROVE FALSE
  <2>1. \E l \in {"out", "slice", "deadlock", "finish", "drive", "drain"} : pc' = [pc EXCEPT ![Ctl] = l]
    BY <1>11 DEF RunReturns, DriveRoot, DriveSuspects, DriveDeadlock, DriveFinish, DriveReturns, Goto
  <2> QED
    BY <1>1, <2>1 DEF TypeInv
<1> QED
  BY Zenon, <1>4, <1>5, <1>6, <1>7, <1>8, <1>9, <1>10, <1>11 DEF Next, Call, InCall

(* er_mt_executor_run ends a run only when no actor can move, and reports   *)
(* which of the two ends it was.                                            *)
THEOREM RunAlwaysCompletesQuiet == Spec => RunCompletesQuiet
<1>1. MtInv /\ [Next]_vars =>
        [pc'[Ctl] = "run" /\ ~running' /\ (running \/ pc[Ctl] = "out")
           => /\ Quiet
              /\ reason' = IF \E a \in Actors : Parked(a) THEN "quiescent" ELSE "idle"]_vars
  BY Zenon, StopsQuiet
<1> QED
  BY <1>1, ExecutorInvariant, PTL DEF Spec, RunCompletesQuiet

(* A step to the report of a deadlock is taken in a state nothing can move. *)
LEMMA DeadlockQuiet ==
  ASSUME MtInv, Next, pc[Ctl] = "deadlock", pc'[Ctl] = "finish"
  PROVE  Parked(Root) /\ mbox[Root] = 0 /\ Quiet
<1>1. TypeInv /\ CtlGood /\ Ctl \in Threads /\ Root \in Everyone
  BY Zenon, Names DEF MtInv
<1>2. ~(pc'[Ctl] = pc[Ctl])
  OBVIOUS
<1>3. DriveDeadlock
  <2>1. ASSUME NEW w \in Workers, Loop(w) \/ Effect(w) PROVE FALSE
    BY Zenon, <1>2, <2>1, WorkerLeaves
  <2>2. ASSUME NEW x \in Threads, Slice(x) \/ Service(x) PROVE FALSE
    BY Zenon, <1>2, <2>2, SliceLeaves
  <2>3. ASSUME (\E a \in Actors : HostStart(a)) \/ (\E a \in Everyone : Inject(a)) PROVE FALSE
    BY <1>2, <2>3 DEF HostStart, Inject
  <2>4. ASSUME Call PROVE FALSE
    BY <2>4 DEF Call, StartRun, StartDrive, StartFree, New
  <2>5. ASSUME InCall PROVE DriveDeadlock
    BY <2>5 DEF InCall, RunWaits, RunReturns, DriveRoot, DriveSuspects, DriveWaits, AtDrive,
                DriveFinish, DriveDrains, DriveReturns, Free
  <2> QED
    BY Zenon, <2>1, <2>2, <2>3, <2>4, <2>5 DEF Next
<1>4. Stuck
  <2>1. ~Stuck => Goto(Ctl, "drive")
    BY Zenon, <1>3 DEF DriveDeadlock
  <2>2. Goto(Ctl, "drive") => pc'[Ctl] = "drive"
    BY Zenon, <1>1 DEF Goto, TypeInv
  <2> QED
    BY <2>1, <2>2
<1>5. /\ status[Root] = "blocked" /\ busy = 0 /\ queue = <<>> /\ readyBound = 0
      /\ ~HttpOutstanding
  BY Zenon, <1>4 DEF Stuck
<1>6. Parked(Root) /\ mbox[Root] = 0
  BY Zenon, <1>1, <1>5 DEF HttpOutstanding, Parked, MtInv, Waits
<1>7. pc[Ctl] \notin Executing
  BY DEF Executing
<1>8. \A x \in Threads : pc[x] \notin Executing
  BY Zenon, <1>5, <1>7, NoneBusy
<1> QED
  BY Zenon, <1>5, <1>6, <1>8, CalmIsQuiet

(* er_mt_executor_drive reports ER_DRIVE_DEADLOCK only when the root is     *)
(* parked on an empty mailbox and nothing can wake it.                      *)
THEOREM DeadlockAlwaysReal == Spec => DeadlockIsReal
<1>1. MtInv /\ [Next]_vars =>
        [pc[Ctl] = "deadlock" /\ pc'[Ctl] = "finish"
           => Parked(Root) /\ mbox[Root] = 0 /\ Quiet]_vars
  BY Zenon, DeadlockQuiet
<1> QED
  BY <1>1, ExecutorInvariant, PTL DEF Spec, DeadlockIsReal

=============================================================================
