----------------------------- MODULE MtExecutor -----------------------------
(***************************************************************************)
(* The multithreaded executor of the actor runtime.                        *)
(*                                                                         *)
(* A pool of workers runs the actors of one scheduler.  A general worker   *)
(* draws actors from the shared run queue; an actor that starts a host     *)
(* effect is bound to its worker for good and the pool is refilled.  The   *)
(* controller is the thread that calls er_mt_executor_run, or              *)
(* er_mt_executor_drive, which keeps the adopted root actor to itself.     *)
(*                                                                         *)
(* One action is one critical section of the scheduler's mutex, or what a  *)
(* thread does between two of them.  The wait sets of the three kinds of   *)
(* condition variable are explicit.  What an actor computes is not         *)
(* modelled: a slice may end in any of the ways pl_thread_run reports, with *)
(* any request.  Messages are counted; handles are not modelled here.      *)
(***************************************************************************)
EXTENDS Integers, Sequences, FiniteSets

CONSTANTS
  Actors,      \* the actors the scheduler can own
  Root,        \* the adopted actor
  Workers,     \* worker threads, created or not
  Ctl,         \* the controller
  Width,       \* ex->workers
  MaxMail,     \* bound: messages in one mailbox
  None

ASSUME ExecutorAssumption ==
  /\ IsFiniteSet(Workers) /\ IsFiniteSet(Actors)
  /\ Root \notin Actors
  /\ Ctl \notin Workers
  /\ Width \in Nat \ {0}
  /\ Width + Cardinality(Actors) <= Cardinality(Workers)
  /\ MaxMail \in Nat \ {0}
  /\ None \notin Actors \cup {Root} \cup Workers \cup {Ctl}

VARIABLES
  status,      \* er_actor.status; "new" is an actor that does not exist yet
  mbox,        \* length of the mailbox
  http,        \* the actor is parked on a Fetch
  effectful,   \* the actor has started a host effect
  owner,       \* the worker the actor is bound to
  queue,       \* the shared run queue
  pumping,     \* http_pumping: a worker owns the CURLM
  role,        \* role of each worker; "none" is one not created yet
  ready,       \* the worker's bound actor is runnable
  general, readyBound, busy,          \* the counters of the executor
  running, entered, rooted, shutdown, \* its flags; rooted is ex->root # NULL
  reason,      \* ex->reason
  pc,          \* where each thread is
  job,         \* the actor whose slice or service the thread is in
  op,          \* the request it serves with the mutex released
  sysAsleep,   \* threads waiting on sys->cv
  ownAsleep,   \* workers waiting on their own cv
  ctlAsleep    \* the controller waits on controller_cv

actors == <<status, mbox, http, effectful, owner>>
counters == <<general, readyBound, busy>>
flags == <<running, entered, rooted, shutdown, reason>>
asleep == <<sysAsleep, ownAsleep, ctlAsleep>>
pool == <<role, ready>>
vars == <<actors, queue, pumping, pool, counters, flags, pc, job, op, asleep>>

Everyone == Actors \cup {Root}
Threads == Workers \cup {Ctl}

\* Requests that are served in two steps, with the mutex released in between:
\* Send and SendCaps, Spawn, and the host calls ReadBat, ReadFolder and Sleep.
Ops == {None} \cup [kind : {"send"}, to : Everyone] \cup
       [kind : {"spawn"}, to : Actors] \cup [kind : {"host"}, to : {None}]

WorkerPCs == {"none", "loop", "probe", "pump", "pumped", "idle", "slice",
              "service", "settle", "after", "exit"}

\* A thread in one of these is executing its job's actor.
Executing == {"slice", "service", "settle"}

\* An executor that was just created (er_mt_executor_new): Width workers, no
\* spawned actor, the root adopted and not running.
Init ==
  /\ status = [a \in Everyone |-> IF a = Root THEN "runnable" ELSE "new"]
  /\ mbox = [a \in Everyone |-> 0]
  /\ http = [a \in Everyone |-> FALSE]
  /\ effectful = [a \in Actors |-> FALSE]
  /\ owner = [a \in Everyone |-> None]
  /\ queue = <<>>
  /\ pumping = FALSE
  /\ \E first \in {W \in SUBSET Workers : Cardinality(W) = Width} :
       /\ role = [w \in Workers |-> IF w \in first THEN "general" ELSE "none"]
       /\ pc = [x \in Threads |-> IF x \in first THEN "loop"
                                  ELSE IF x = Ctl THEN "out" ELSE "none"]
  /\ ready = [w \in Workers |-> FALSE]
  /\ general = Width /\ readyBound = 0 /\ busy = 0
  /\ running = FALSE /\ entered = FALSE /\ rooted = FALSE /\ shutdown = FALSE
  /\ reason = "idle"
  /\ job = [x \in Threads |-> None]
  /\ op = [x \in Threads |-> None]
  /\ sysAsleep = {} /\ ownAsleep = {} /\ ctlAsleep = FALSE

-----------------------------------------------------------------------------
(***************************************************************************)
(* Waking and queueing.                                                    *)
(***************************************************************************)

Goto(x, where) == pc' = [pc EXCEPT ![x] = where]

\* k times pthread_cond_signal on sys->cv.
SignalSys(k) ==
  sysAsleep' \in {S \in SUBSET sysAsleep :
                    \/ Cardinality(sysAsleep) = Cardinality(S) + k
                    \/ S = {} /\ Cardinality(sysAsleep) <= k}

WakeAll == sysAsleep' = {} /\ ownAsleep' = {} /\ ctlAsleep' = FALSE

\* er_enqueue on each actor of S: a bound actor goes to its worker, the root of a
\* drive to the controller, and the others to the run queue, in the order es.
Shared(a) == owner[a] = None /\ ~(rooted /\ a = Root)
ToQueue(a) == IF Shared(a) THEN <<a>> ELSE <<>>
OwnersOf(S) == {owner[a] : a \in S} \ {None}

Enqueue(S, es) ==
  /\ queue' = queue \o es
  /\ ready' = [w \in Workers |-> ready[w] \/ w \in OwnersOf(S)]
  /\ readyBound' = readyBound + Cardinality({w \in OwnersOf(S) : ~ready[w]})
  /\ ownAsleep' = ownAsleep \ OwnersOf(S)
  /\ ctlAsleep' = (ctlAsleep /\ ~(rooted /\ Root \in S))

\* Enqueue with the signals on sys->cv that go with it.
EnqueueSignal(S, es) == Enqueue(S, es) /\ SignalSys(Len(es))

HttpOutstanding == \E a \in Everyone : http[a]

\* Bug: completion without a look at the private run queues.
CompletesUnlessQueued(b) ==
  running /\ ~rooted /\ b = 0 /\ queue = <<>> /\ ~HttpOutstanding

\* er_mt_maybe_complete_locked, for a caller that has just set busy to b.
Completes(b) ==
  /\ running /\ ~rooted
  /\ b = 0 /\ queue = <<>> /\ readyBound = 0 /\ ~HttpOutstanding

RunReason ==
  IF \E a \in Actors : status[a] = "blocked" THEN "quiescent" ELSE "idle"

MaybeComplete(b) ==
  \/ /\ Completes(b)
     /\ running' = FALSE
     /\ reason' = RunReason
     /\ WakeAll
  \/ /\ ~Completes(b)
     /\ ctlAsleep' = FALSE
     /\ UNCHANGED <<running, reason, sysAsleep, ownAsleep>>

-----------------------------------------------------------------------------
(***************************************************************************)
(* The worker loop (er_mt_worker_main).  A worker at "loop" is about to    *)
(* hold the mutex at the head of the loop; one that sleeps there runs again *)
(* once it has left the wait set.                                          *)
(***************************************************************************)

AtLoop(w) == pc[w] = "loop" /\ w \notin sysAsleep /\ w \notin ownAsleep

SleepOnSys(x) == sysAsleep' = sysAsleep \cup {x}
SleepOnOwn(w) == ownAsleep' = ownAsleep \cup {w}

BoundTo(w) == {a \in Actors : owner[a] = w}

WorkerExit(w) ==
  /\ AtLoop(w) /\ shutdown
  /\ Goto(w, "exit")
  /\ UNCHANGED <<actors, queue, pumping, pool, counters, flags, job, op, asleep>>

\* Between runs, and a spare at any time: wait.
WorkerRest(w) ==
  /\ AtLoop(w) /\ ~shutdown
  /\ ~running \/ role[w] = "spare"
  /\ IF role[w] = "general"
       THEN SleepOnSys(w) /\ UNCHANGED ownAsleep
       ELSE SleepOnOwn(w) /\ UNCHANGED sysAsleep
  /\ UNCHANGED <<actors, queue, pumping, pool, counters, flags, pc, job, op,
                 ctlAsleep>>

\* The worker of a bound actor that is not runnable.
BoundIdle(w) ==
  /\ AtLoop(w) /\ ~shutdown /\ running /\ role[w] = "bound"
  /\ \E a \in BoundTo(w) : status[a] # "runnable"
  /\ IF Completes(busy)
       THEN running' = FALSE /\ reason' = RunReason /\ WakeAll
       ELSE SleepOnOwn(w) /\ UNCHANGED <<running, reason, sysAsleep, ctlAsleep>>
  /\ UNCHANGED <<actors, queue, pumping, pool, counters, entered, rooted,
                 shutdown, pc, job, op>>

BoundRun(w) ==
  /\ AtLoop(w) /\ ~shutdown /\ running /\ role[w] = "bound"
  /\ \E a \in BoundTo(w) : status[a] = "runnable" /\ job' = [job EXCEPT ![w] = a]
  /\ ready[w] /\ readyBound > 0
  /\ ready' = [ready EXCEPT ![w] = FALSE]
  /\ readyBound' = readyBound - 1
  /\ busy' = busy + 1
  /\ Goto(w, "slice")
  /\ UNCHANGED <<actors, queue, pumping, role, general, flags, op, asleep>>

\* er_mt_bind_locked: w keeps a for good; a spare, or a new thread, takes its
\* place in the pool, which gives the locations of the threads as pcs.
Spares == {v \in Workers : role[v] = "spare"}
Unborn == {v \in Workers : role[v] = "none"}
Replacements == IF Spares # {} THEN Spares ELSE Unborn

Bind(w, a, pcs) ==
  /\ role[w] = "general" /\ general > 0
  /\ owner' = [owner EXCEPT ![a] = w]
  /\ \E v \in Replacements :
       /\ role' = [role EXCEPT ![w] = "bound", ![v] = "general"]
       /\ pc' = [pcs EXCEPT ![v] = "loop"]
       /\ ownAsleep' = ownAsleep \ {v}
  /\ general' = (general - 1) + 1
  /\ UNCHANGED <<sysAsleep, ctlAsleep>>

\* Bug: an actor that is effectful already is not bound to its new worker.
GeneralRunUnbound(w) ==
  /\ AtLoop(w) /\ ~shutdown /\ running /\ role[w] = "general"
  /\ queue # <<>>
  /\ queue' = Tail(queue)
  /\ job' = [job EXCEPT ![w] = Head(queue)]
  /\ busy' = busy + 1
  /\ Goto(w, "slice")
  /\ UNCHANGED <<actors, pumping, pool, general, readyBound, flags, op, asleep>>

\* A general worker takes the head of the run queue.
GeneralRun(w) ==
  /\ AtLoop(w) /\ ~shutdown /\ running /\ role[w] = "general"
  /\ queue # <<>>
  /\ Head(queue) \in Actors /\ owner[Head(queue)] = None
  /\ queue' = Tail(queue)
  /\ job' = [job EXCEPT ![w] = Head(queue)]
  /\ busy' = busy + 1
  /\ IF effectful[Head(queue)]
       THEN Bind(w, Head(queue), [pc EXCEPT ![w] = "slice"])
       ELSE Goto(w, "slice") /\ UNCHANGED <<role, owner, general, asleep>>
  /\ UNCHANGED <<status, mbox, http, effectful, pumping, ready, readyBound,
                 flags, op>>

\* The run queue is empty: the worker goes to look at the transfers.
GeneralProbe(w) ==
  /\ AtLoop(w) /\ ~shutdown /\ running /\ role[w] = "general"
  /\ queue = <<>>
  /\ busy' = busy + 1
  /\ Goto(w, "probe")
  /\ UNCHANGED <<actors, queue, pumping, pool, general, readyBound, flags, job,
                 op, asleep>>

\* er_http_mt_pump: the first worker to come owns the CURLM.
Pump(w) ==
  /\ pc[w] = "probe"
  /\ IF ~pumping /\ HttpOutstanding
       THEN pumping' = TRUE /\ Goto(w, "pump")
       ELSE Goto(w, "idle") /\ UNCHANGED pumping
  /\ UNCHANGED <<actors, queue, pool, counters, flags, job, op, asleep>>

\* All sequences that list the members of S once.
Orders(S) == {f \in [1..Cardinality(S) -> S] :
                \A i, j \in 1..Cardinality(S) : f[i] = f[j] => i = j}

\* The transfers that completed during the poll are deposited and their actors
\* resumed (er_http_harvest, er_http_deposit_head, er_http_resume).
PumpEnd(w) ==
  /\ pc[w] = "pump"
  /\ pumping' = FALSE
  /\ \E done \in SUBSET {a \in Everyone : http[a]} :
       /\ http' = [a \in Everyone |-> http[a] /\ a \notin done]
       /\ status' = [a \in Everyone |-> IF a \in done THEN "runnable" ELSE status[a]]
       /\ \E es \in Orders({a \in done : Shared(a)}) : Enqueue(done, es)
  /\ sysAsleep' = {}
  /\ Goto(w, "pumped")
  /\ UNCHANGED <<mbox, effectful, owner, role, general, busy, flags, job, op>>

\* Bugs: the worker waits without a second look at the run queue; the
\* controller is not told.
ProbeEndBlind(w) ==
  /\ pc[w] \in {"pumped", "idle"}
  /\ busy' = busy - 1
  /\ Goto(w, "loop")
  /\ IF Completes(busy - 1)
       THEN running' = FALSE /\ reason' = RunReason /\ WakeAll
       ELSE /\ ctlAsleep' = FALSE
            /\ IF pc[w] = "idle" /\ running THEN SleepOnSys(w) ELSE UNCHANGED sysAsleep
            /\ UNCHANGED <<running, reason, ownAsleep>>
  /\ UNCHANGED <<actors, queue, pumping, pool, general, readyBound, entered,
                 rooted, shutdown, job, op>>

ProbeEndSilent(w) ==
  /\ pc[w] \in {"pumped", "idle"}
  /\ busy' = busy - 1
  /\ Goto(w, "loop")
  /\ IF Completes(busy - 1)
       THEN running' = FALSE /\ reason' = RunReason /\ WakeAll
       ELSE /\ IF pc[w] = "idle" /\ running /\ queue = <<>>
                 THEN SleepOnSys(w) ELSE UNCHANGED sysAsleep
            /\ UNCHANGED <<running, reason, ownAsleep, ctlAsleep>>
  /\ UNCHANGED <<actors, queue, pumping, pool, general, readyBound, entered,
                 rooted, shutdown, job, op>>

\* Back under the mutex after a look at the transfers; without a transfer to
\* pump the worker waits, unless work arrived while the mutex was free.
ProbeEnd(w) ==
  /\ pc[w] \in {"pumped", "idle"}
  /\ busy' = busy - 1
  /\ Goto(w, "loop")
  /\ IF Completes(busy - 1)
       THEN running' = FALSE /\ reason' = RunReason /\ WakeAll
       ELSE /\ ctlAsleep' = FALSE
            /\ IF pc[w] = "idle" /\ running /\ queue = <<>>
                 THEN SleepOnSys(w) ELSE UNCHANGED sysAsleep
            /\ UNCHANGED <<running, reason, ownAsleep>>
  /\ UNCHANGED <<actors, queue, pumping, pool, general, readyBound, entered,
                 rooted, shutdown, job, op>>

Terminated == {"halted", "crashed"}

\* Bugs: the released worker rejoins the pool it was already replaced in; the
\* controller is told only of a completed run.
AfterSliceToPool(w) ==
  /\ pc[w] = "after"
  /\ busy' = busy - 1
  /\ IF owner[job[w]] = w /\ status[job[w]] \in Terminated
       THEN /\ owner' = [owner EXCEPT ![job[w]] = None]
            /\ role' = [role EXCEPT ![w] = "general"]
       ELSE UNCHANGED <<owner, role>>
  /\ MaybeComplete(busy - 1)
  /\ Goto(w, "loop")
  /\ job' = [job EXCEPT ![w] = None]
  /\ UNCHANGED <<status, mbox, http, effectful, queue, pumping, ready, general,
                 readyBound, entered, rooted, shutdown, op>>

AfterSliceSilent(w) ==
  /\ pc[w] = "after"
  /\ busy' = busy - 1
  /\ IF owner[job[w]] = w /\ status[job[w]] \in Terminated
       THEN /\ owner' = [owner EXCEPT ![job[w]] = None]
            /\ role' = [role EXCEPT ![w] = "spare"]
       ELSE UNCHANGED <<owner, role>>
  /\ IF Completes(busy - 1)
       THEN running' = FALSE /\ reason' = RunReason /\ WakeAll
       ELSE UNCHANGED <<running, reason, asleep>>
  /\ Goto(w, "loop")
  /\ job' = [job EXCEPT ![w] = None]
  /\ UNCHANGED <<status, mbox, http, effectful, queue, pumping, ready, general,
                 readyBound, entered, rooted, shutdown, op>>

\* After a slice: a terminated bound actor frees its worker, which stays as a
\* spare (er_mt_release_bound_locked), and the run may be complete.
AfterSlice(w) ==
  /\ pc[w] = "after"
  /\ busy' = busy - 1
  /\ IF owner[job[w]] = w /\ status[job[w]] \in Terminated
       THEN /\ owner' = [owner EXCEPT ![job[w]] = None]
            /\ role' = [role EXCEPT ![w] = "spare"]
       ELSE UNCHANGED <<owner, role>>
  /\ MaybeComplete(busy - 1)
  /\ Goto(w, "loop")
  /\ job' = [job EXCEPT ![w] = None]
  /\ UNCHANGED <<status, mbox, http, effectful, queue, pumping, ready, general,
                 readyBound, entered, rooted, shutdown, op>>

-----------------------------------------------------------------------------
(***************************************************************************)
(* A slice and the service of the request it ends with (pl_thread_run,     *)
(* er_step, er_service), by a worker or by the controller for the root.    *)
(***************************************************************************)

Onward(x) == IF x = Ctl THEN "drive" ELSE "after"

InSlice(x) == pc[x] = "slice" /\ x \notin sysAsleep

\* er_actor_rplan_effect: the first host effect of a spawned actor binds it.
\* Every request is a host effect (pl_ops), so only the root and bound actors
\* make one.
Effect(w) ==
  /\ w \in Workers /\ InSlice(w)
  /\ ~effectful[job[w]]
  /\ effectful' = [effectful EXCEPT ![job[w]] = TRUE]
  /\ Bind(w, job[w], pc)
  /\ UNCHANGED <<status, mbox, http, queue, pumping, ready, readyBound, busy,
                 flags, job, op>>

Requesting(x) == InSlice(x) /\ (x # Ctl => effectful[job[x]])

\* The quantum is used up, or a request is answered on the spot (CloseHandle, a
\* Fetch that fails validation).
Yield(x) ==
  /\ InSlice(x)
  /\ EnqueueSignal({job[x]}, ToQueue(job[x]))
  /\ Goto(x, Onward(x))
  /\ UNCHANGED <<actors, pumping, role, general, busy, flags, job, op>>

\* The actor reaches its normal form, raises, or makes an invalid request.  The
\* root is never marked: its drive ends.
Terminate(x, how) ==
  IF x = Ctl
    THEN Goto(x, "finish") /\ UNCHANGED status
    ELSE Goto(x, "after") /\ status' = [status EXCEPT ![job[x]] = how]

SliceEnds(x, how) ==
  /\ InSlice(x)
  /\ Terminate(x, how)
  /\ UNCHANGED <<mbox, http, effectful, owner, queue, pumping, pool, counters,
                 flags, job, op, asleep>>

RecvPark(x) ==
  /\ Requesting(x)
  /\ mbox[job[x]] = 0
  /\ status' = [status EXCEPT ![job[x]] = "blocked"]
  /\ Goto(x, Onward(x))
  /\ UNCHANGED <<mbox, http, effectful, owner, queue, pumping, pool, counters,
                 flags, job, op, asleep>>

RecvTake(x) ==
  /\ Requesting(x)
  /\ mbox[job[x]] > 0
  /\ mbox' = [mbox EXCEPT ![job[x]] = @ - 1]
  /\ EnqueueSignal({job[x]}, ToQueue(job[x]))
  /\ Goto(x, Onward(x))
  /\ UNCHANGED <<status, http, effectful, owner, pumping, role, general, busy,
                 flags, job, op>>

\* The request is taken up and the mutex released (er_service_unlock).  Bounds:
\* at most MaxMail messages on their way to an actor, and as many spawned actors
\* as Actors has members.
Exists(a) == status[a] # "new"
Sending(a) == {x \in Threads : op[x] # None /\ op[x].kind = "send" /\ op[x].to = a}
Room(a) == mbox[a] + Cardinality(Sending(a)) < MaxMail
Spawning(a) == \E x \in Threads : op[x] # None /\ op[x].kind = "spawn" /\ op[x].to = a

BeginService(x) ==
  /\ Requesting(x)
  /\ \E o \in Ops \ {None} :
       /\ o.kind = "send" => Exists(o.to) /\ Room(o.to)
       /\ o.kind = "spawn" => ~Exists(o.to) /\ ~Spawning(o.to)
       /\ op' = [op EXCEPT ![x] = o]
  /\ Goto(x, "service")
  /\ UNCHANGED <<actors, queue, pumping, pool, counters, flags, job, asleep>>

\* Bug: a message also wakes an actor that is parked on a Fetch.
Resting(a) == status[a] = "blocked"

\* er_deliver: the message wakes an actor that is parked on Recv, and only
\* that; the actor if it becomes runnable, and what it adds to the run queue.
Parked(a) == status[a] = "blocked" /\ ~http[a]
Woken(a) == IF Parked(a) THEN {a} ELSE {}
WokenToQueue(a) == IF Parked(a) THEN ToQueue(a) ELSE <<>>

Deliver(a) ==
  /\ status' = [status EXCEPT ![a] = IF Parked(a) THEN "runnable" ELSE @]
  /\ mbox' = [mbox EXCEPT ![a] = IF Parked(a) THEN @ ELSE @ + 1]

\* The mutex is taken again: the payload could not be pinned, or the request is
\* carried out, and the actor goes on.
ServiceFails(x) ==
  /\ pc[x] = "service"
  /\ op[x].kind # "host"
  /\ Terminate(x, "crashed")
  /\ op' = [op EXCEPT ![x] = None]
  /\ UNCHANGED <<mbox, http, effectful, owner, queue, pumping, pool, counters,
                 flags, job, asleep>>

EndHost(x) ==
  /\ pc[x] = "service" /\ op[x].kind = "host"
  /\ EnqueueSignal({job[x]}, ToQueue(job[x]))
  /\ op' = [op EXCEPT ![x] = None]
  /\ Goto(x, Onward(x))
  /\ UNCHANGED <<actors, pumping, role, general, busy, flags, job>>

EndSend(x) ==
  /\ pc[x] = "service" /\ op[x].kind = "send"
  /\ Deliver(op[x].to)
  /\ EnqueueSignal(Woken(op[x].to) \cup {job[x]},
                   WokenToQueue(op[x].to) \o ToQueue(job[x]))
  /\ op' = [op EXCEPT ![x] = None]
  /\ Goto(x, Onward(x))
  /\ UNCHANGED <<http, effectful, owner, pumping, role, general, busy, flags, job>>

EndSpawn(x) ==
  /\ pc[x] = "service" /\ op[x].kind = "spawn"
  /\ status' = [status EXCEPT ![op[x].to] = "runnable"]
  /\ EnqueueSignal({op[x].to, job[x]}, ToQueue(op[x].to) \o ToQueue(job[x]))
  /\ op' = [op EXCEPT ![x] = None]
  /\ Goto(x, Onward(x))
  /\ UNCHANGED <<mbox, http, effectful, owner, pumping, role, general, busy,
                 flags, job>>

\* Fetch: wait until nobody polls, then register the transfer and park
\* (er_http_curlm_settle, er_http_dispatch, er_http_park).
Settle(x) ==
  /\ pumping
  /\ Goto(x, "settle")
  /\ SleepOnSys(x)
  /\ UNCHANGED <<actors, ownAsleep, ctlAsleep>>

Dispatch(x) ==
  /\ ~pumping
  /\ http' = [http EXCEPT ![job[x]] = TRUE]
  /\ status' = [status EXCEPT ![job[x]] = "blocked"]
  /\ sysAsleep' = {}
  /\ Goto(x, Onward(x))
  /\ UNCHANGED <<mbox, effectful, owner, ownAsleep, ctlAsleep>>

Fetch(x) ==
  /\ Requesting(x) \/ (pc[x] = "settle" /\ x \notin sysAsleep)
  /\ Settle(x) \/ Dispatch(x)
  /\ UNCHANGED <<queue, pumping, pool, counters, flags, job, op>>

-----------------------------------------------------------------------------
(***************************************************************************)
(* The host: the controller's calls, and injections from other threads.    *)
(***************************************************************************)

\* er_scheduler_actor and er_actor_start by the embedder, between runs.
HostStart(a) ==
  /\ pc[Ctl] = "out" /\ ~Exists(a) /\ ~Spawning(a)
  /\ status' = [status EXCEPT ![a] = "runnable"]
  /\ EnqueueSignal({a}, ToQueue(a))
  /\ UNCHANGED <<mbox, http, effectful, owner, pumping, role, general, busy,
                 flags, pc, job, op>>

\* er_scheduler_inject, by any host thread at any time.
Inject(a) ==
  /\ Exists(a) /\ status[a] \notin Terminated /\ Room(a)
  /\ Deliver(a)
  /\ EnqueueSignal(Woken(a), WokenToQueue(a))
  /\ UNCHANGED <<http, effectful, owner, pumping, role, general, busy, flags, pc,
                 job, op>>

\* er_mt_executor_run.
StartRun ==
  /\ pc[Ctl] = "out"
  /\ entered' = TRUE /\ rooted' = FALSE
  /\ IF busy = 0 /\ queue = <<>> /\ readyBound = 0 /\ ~HttpOutstanding
       THEN running' = FALSE /\ reason' = RunReason
       ELSE running' = TRUE /\ reason' = "idle"
  /\ WakeAll
  /\ Goto(Ctl, "run")
  /\ UNCHANGED <<actors, queue, pumping, pool, counters, shutdown, job, op>>

RunWaits ==
  /\ pc[Ctl] = "run" /\ ~ctlAsleep /\ running
  /\ ctlAsleep' = TRUE
  /\ UNCHANGED <<actors, queue, pumping, pool, counters, flags, pc, job, op,
                 sysAsleep, ownAsleep>>

RunReturns ==
  /\ pc[Ctl] = "run" /\ ~ctlAsleep /\ ~running
  /\ entered' = FALSE
  /\ Goto(Ctl, "out")
  /\ UNCHANGED <<actors, queue, pumping, pool, counters, running, rooted,
                 shutdown, reason, job, op, asleep>>

\* er_remove_from_queue: q without its first a.
First(q, a) == CHOOSE i \in DOMAIN q : q[i] = a /\ \A j \in 1..(i - 1) : q[j] # a
Without(q, a) ==
  IF \E i \in DOMAIN q : q[i] = a
    THEN SubSeq(q, 1, First(q, a) - 1) \o SubSeq(q, First(q, a) + 1, Len(q))
    ELSE q

\* er_mt_executor_drive, with a computation armed on the root.
StartDrive ==
  /\ pc[Ctl] = "out"
  /\ entered' = TRUE /\ rooted' = TRUE /\ running' = TRUE
  /\ queue' = Without(queue, Root)
  /\ status' = [status EXCEPT ![Root] = "runnable"]
  /\ WakeAll
  /\ Goto(Ctl, "drive")
  /\ job' = [job EXCEPT ![Ctl] = Root]
  /\ UNCHANGED <<mbox, http, effectful, owner, pumping, pool, counters, shutdown,
                 reason, op>>

AtDrive == pc[Ctl] = "drive" /\ ~ctlAsleep

DriveRoot ==
  /\ AtDrive /\ status[Root] = "runnable"
  /\ Goto(Ctl, "slice")
  /\ UNCHANGED <<actors, queue, pumping, pool, counters, flags, job, op, asleep>>

\* Nothing can wake the root: no worker is busy, no actor runnable, no transfer
\* outstanding.
Stuck ==
  /\ status[Root] = "blocked"
  /\ busy = 0 /\ queue = <<>> /\ readyBound = 0 /\ ~HttpOutstanding

\* The mutex is released to enter the mutator scope, and the test repeated.
DriveSuspects ==
  /\ AtDrive /\ Stuck
  /\ Goto(Ctl, "deadlock")
  /\ UNCHANGED <<actors, queue, pumping, pool, counters, flags, job, op, asleep>>

DriveWaits ==
  /\ AtDrive /\ status[Root] # "runnable" /\ ~Stuck
  /\ ctlAsleep' = TRUE
  /\ UNCHANGED <<actors, queue, pumping, pool, counters, flags, pc, job, op,
                 sysAsleep, ownAsleep>>

\* Bug: the test is not repeated.
DeadlockAtOnce ==
  /\ pc[Ctl] = "deadlock"
  /\ Goto(Ctl, "finish")
  /\ status' = [status EXCEPT ![Root] = "runnable"]
  /\ UNCHANGED <<mbox, http, effectful, owner, queue, pumping, pool, counters,
                 flags, job, op, asleep>>

DriveDeadlock ==
  /\ pc[Ctl] = "deadlock"
  /\ IF Stuck
       THEN Goto(Ctl, "finish") /\ status' = [status EXCEPT ![Root] = "runnable"]
       ELSE Goto(Ctl, "drive") /\ UNCHANGED status
  /\ UNCHANGED <<mbox, http, effectful, owner, queue, pumping, pool, counters,
                 flags, job, op, asleep>>

\* The label "done": stop the workers, wait for the busy ones and the pump.
DriveFinish ==
  /\ pc[Ctl] = "finish"
  /\ running' = FALSE
  /\ WakeAll
  /\ Goto(Ctl, "drain")
  /\ UNCHANGED <<actors, queue, pumping, pool, counters, entered, rooted,
                 shutdown, reason, job, op>>

DriveDrains ==
  /\ pc[Ctl] = "drain" /\ ~ctlAsleep
  /\ busy # 0 \/ pumping
  /\ ctlAsleep' = TRUE
  /\ UNCHANGED <<actors, queue, pumping, pool, counters, flags, pc, job, op,
                 sysAsleep, ownAsleep>>

DriveReturns ==
  /\ pc[Ctl] = "drain" /\ ~ctlAsleep
  /\ busy = 0 /\ ~pumping
  /\ rooted' = FALSE /\ entered' = FALSE
  /\ Goto(Ctl, "out")
  /\ job' = [job EXCEPT ![Ctl] = None]
  /\ UNCHANGED <<actors, queue, pumping, pool, counters, running, shutdown,
                 reason, op, asleep>>

\* er_mt_executor_free: stop and join the workers, and give the runnable bound
\* actors back to the run queue.
StartFree ==
  /\ pc[Ctl] = "out"
  /\ ~entered /\ ~running /\ busy = 0
  /\ shutdown' = TRUE
  /\ WakeAll
  /\ Goto(Ctl, "join")
  /\ UNCHANGED <<actors, queue, pumping, pool, counters, running, entered,
                 rooted, reason, job, op>>

Free ==
  /\ pc[Ctl] = "join"
  /\ \A w \in Workers : role[w] # "none" => pc[w] = "exit"
  /\ \E es \in Orders({a \in Actors : owner[a] # None /\ status[a] = "runnable"}) :
       queue' = queue \o es
  /\ owner' = [a \in Everyone |-> None]
  /\ ready' = [w \in Workers |-> FALSE]
  /\ readyBound' = 0
  /\ role' = [w \in Workers |-> "none"]
  /\ general' = 0
  /\ pc' = [x \in Threads |-> IF x = Ctl THEN "free" ELSE "none"]
  /\ UNCHANGED <<status, mbox, http, effectful, pumping, busy, flags, job, op,
                 asleep>>

\* er_mt_executor_new on the same scheduler.
New ==
  /\ pc[Ctl] = "free"
  /\ \E first \in {W \in SUBSET Workers : Cardinality(W) = Width} :
       /\ role' = [w \in Workers |-> IF w \in first THEN "general" ELSE "none"]
       /\ pc' = [x \in Threads |-> IF x \in first THEN "loop"
                                   ELSE IF x = Ctl THEN "out" ELSE "none"]
  /\ general' = Width
  /\ shutdown' = FALSE
  /\ UNCHANGED <<actors, queue, pumping, ready, readyBound, busy, running,
                 entered, rooted, reason, job, op, asleep>>

-----------------------------------------------------------------------------
Loop(w) ==
  \/ WorkerExit(w) \/ WorkerRest(w) \/ BoundIdle(w) \/ BoundRun(w)
  \/ GeneralRun(w) \/ GeneralProbe(w)
  \/ Pump(w) \/ PumpEnd(w) \/ ProbeEnd(w) \/ AfterSlice(w)

Slice(x) ==
  \/ Yield(x) \/ \E how \in Terminated : SliceEnds(x, how)
  \/ RecvPark(x) \/ RecvTake(x) \/ BeginService(x) \/ Fetch(x)

Service(x) == ServiceFails(x) \/ EndHost(x) \/ EndSend(x) \/ EndSpawn(x)

Call == StartRun \/ StartDrive \/ StartFree \/ New

InCall ==
  \/ RunWaits \/ RunReturns
  \/ DriveRoot \/ DriveSuspects \/ DriveWaits \/ DriveDeadlock
  \/ DriveFinish \/ DriveDrains \/ DriveReturns
  \/ Free

Next ==
  \/ \E w \in Workers : Loop(w) \/ Effect(w)
  \/ \E x \in Threads : Slice(x) \/ Service(x)
  \/ \E a \in Actors : HostStart(a)
  \/ \E a \in Everyone : Inject(a)
  \/ Call \/ InCall

Spec == Init /\ [][Next]_vars

\* Every thread that can take a step takes one: the worker threads and the
\* controller are scheduled, a slice ends with its fuel quantum, a host call and
\* a bounded poll return, and the host starts no call it does not finish.
Fairness ==
  /\ \A w \in Workers : WF_vars(Loop(w)) /\ WF_vars(Slice(w) \/ Service(w))
  /\ WF_vars(InCall \/ Slice(Ctl) \/ Service(Ctl))

FairSpec == Spec /\ Fairness

-----------------------------------------------------------------------------
(***************************************************************************)
(* Properties.                                                             *)
(***************************************************************************)

Runners(a) == {x \in Threads : pc[x] \in Executing /\ job[x] = a}
Queued(a) == {i \in DOMAIN queue : queue[i] = a}
ReadyOn(a) == {w \in Workers : owner[a] = w /\ ready[w]}

\* A runnable actor is in exactly one place: once in the run queue, or ready on
\* its own worker, or executed by one thread.  An actor that is not runnable is
\* in none, so the thread that builds a message or a Fetch result in its heap
\* (er_recv_ready, er_http_resume) has the heap to itself.  The root is never
\* queued.
RunnableInOnePlace ==
  /\ \A a \in Actors :
       Cardinality(Queued(a)) + Cardinality(ReadyOn(a)) + Cardinality(Runners(a))
         = IF status[a] = "runnable" THEN 1 ELSE 0
  /\ Queued(Root) = {}
  /\ Runners(Root) \subseteq {Ctl}
  /\ Runners(Root) # {} => status[Root] = "runnable"

BusyPCs == WorkerPCs \ {"none", "loop", "exit"}

\* The counters that er_mt_maybe_complete_locked and er_mt_executor_drive rely on
\* are exact, the shared pool has its configured width, and one worker at most
\* owns the CURLM.
CountersExact ==
  /\ general = Cardinality({w \in Workers : role[w] = "general"})
  /\ pc[Ctl] # "free" => general = Width
  /\ readyBound = Cardinality({w \in Workers : ready[w]})
  /\ busy = Cardinality({w \in Workers : pc[w] \in BusyPCs})
  /\ Cardinality({w \in Workers : pc[w] = "pump"}) = IF pumping THEN 1 ELSE 0

\* An actor that has started a host effect is executed by the worker it is bound
\* to and by no other, that worker executes no other actor, and a bound worker
\* back at the head of its loop never holds a terminated actor.
BoundForGood ==
  /\ \A w \in Workers :
       /\ role[w] = "bound" <=> BoundTo(w) # {}
       /\ Cardinality(BoundTo(w)) <= 1
       /\ pc[w] \in Executing /\ role[w] = "bound" => BoundTo(w) = {job[w]}
       /\ pc[w] = "loop" => \A a \in BoundTo(w) : status[a] \notin Terminated
  /\ \A a \in Actors : \A x \in Runners(a) : effectful[a] => owner[a] = x

\* Nothing of the scheduler can move by itself: every actor is terminated or
\* parked on Recv with an empty mailbox, and no service is under way.
Quiet ==
  /\ \A a \in Actors : Parked(a) \/ status[a] \in Terminated \cup {"new"}
  /\ \A a \in Actors : Parked(a) => mbox[a] = 0
  /\ \A x \in Threads : pc[x] \notin Executing

\* er_mt_executor_run stops the workers only when nothing can move, and reports
\* "no live actors: every actor halted or crashed" or "live actors remain, all
\* receive-blocked" accordingly.
RunCompletesQuiet ==
  [][pc'[Ctl] = "run" /\ ~running' /\ (running \/ pc[Ctl] = "out")
       => /\ Quiet
          /\ reason' = IF \E a \in Actors : Parked(a) THEN "quiescent" ELSE "idle"]_vars

\* er_mt_executor_drive reports ER_DRIVE_DEADLOCK only when "it parked on Recv and
\* nothing can ever wake it": the root is parked, its mailbox is empty, and
\* nothing else can move.
DeadlockIsReal ==
  [][pc[Ctl] = "deadlock" /\ pc'[Ctl] = "finish"
       => Parked(Root) /\ mbox[Root] = 0 /\ Quiet]_vars

\* A runnable actor of a running executor is executed, or the run ends first:
\* er_enqueue's single signals lose no wakeup.
RunnableRuns ==
  \A a \in Actors :
    running /\ status[a] = "runnable" ~> Runners(a) # {} \/ ~running

\* A run, or a drive whose root is parked, that nothing can move any more comes to
\* its end, unless an injection moves it again.
Ended == ~entered \/ (rooted /\ ~Parked(Root)) \/ ~Quiet
QuietCallReturns == ~Ended ~> Ended

\* A drive that has its result returns, and er_mt_executor_free joins every worker.
CallReturns ==
  /\ pc[Ctl] = "finish" ~> pc[Ctl] = "out"
  /\ pc[Ctl] = "join" ~> pc[Ctl] = "free"

\* What the comment on er_http_mt_pump relies on when a worker goes to sleep
\* ("then cond_wait is correct: the owner broadcasts on completion"), and the
\* broadcast of er_http_dispatch is there for ("wake one to take ownership of the
\* CURLM pump"): while a transfer is outstanding, a worker polls it or a general
\* worker is awake to do so.
FetchHasPump ==
  running /\ HttpOutstanding =>
    pumping \/ \E w \in Workers : role[w] = "general" /\ w \notin sysAsleep

=============================================================================
