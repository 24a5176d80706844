----------------------------- MODULE DetExecutor -----------------------------
(***************************************************************************)
(* The deterministic executor of the actor runtime, its event log and its  *)
(* replay.                                                                 *)
(*                                                                         *)
(* One OS thread runs every actor: it takes the head of the run queue, runs *)
(* it for one quantum and serves the request it stopped at.  Everything    *)
(* that comes from outside the program (the result of a host effect, the   *)
(* outcome of a Fetch, a message the embedder injects) is appended to a    *)
(* log.  Replay runs the same program and the same embedder on a fresh     *)
(* scheduler, takes those answers from the log and checks that each        *)
(* request it meets is the one that was logged.                            *)
(*                                                                         *)
(* The state the two executions must share is the record s.  What a        *)
(* program computes is not modelled; what is used is that it is a function *)
(* of what the program has seen: prog maps an actor and its history to what *)
(* the actor does next, is extended the first time a history is reached    *)
(* and is never changed.  The embedder's calls are kept in script in the   *)
(* same way.  path is a history variable: the states the recording went    *)
(* through.                                                                *)
(***************************************************************************)
EXTENDS Integers, Sequences, FiniteSets

CONSTANTS
  Boot,        \* scheduler-owned actors the embedder creates before it runs any
  MaxActors,   \* bound: actors of one scheduler, the adopted root included
  MaxSteps,    \* bound: histories at which the program does not just finish
  MaxCalls,    \* bound: calls the embedder makes
  Ops,         \* what programs may do
  Args,        \* arguments of host effects, as their hashes
  Results,     \* what a host effect or a Fetch can answer
  None

ASSUME DetAssumption ==
  /\ Boot \in Nat /\ MaxActors \in Nat /\ Boot < MaxActors
  /\ MaxSteps \in Nat /\ MaxCalls \in Nat
  /\ None \notin 0..(MaxActors - 1)
  /\ None \notin Args /\ None \notin {"drive", "run", "deadlock"}

VARIABLES
  phase,       \* "record", then "replay", or "unreadable" if the log was lost
  s,           \* the scheduler, its actors and the embedder's position
  inflight,    \* actors whose transfer is in flight (in replay: the stubs)
  done,        \* the completion FIFO, empty in replay
  log,         \* the events
  cursor,      \* events consumed by the replay
  aborted,     \* a check of the replay failed and the process aborted
  prog,        \* what an actor does at each history met so far
  script,      \* the calls the embedder made
  path,        \* the states of the recording, with the events logged by then
  pos,         \* the state of path the replay should be in
  crash        \* the state of path at which a direct effect first failed, or 0

vars ==
  <<phase, s, inflight, done, log, cursor, aborted, prog, script, path, pos, crash>>

Root == 0
Ids == 0..(MaxActors - 1)

\* What an actor can do when it runs: stop, or ask for something.
Effects == {"io", "readbat", "readfolder"}
Plain == {"yield", "done", "exn", "malformed", "recv", "sleep", "spawn"}
Acts == [op : Plain] \cup [op : Effects \cup {"fetch"}, arg : Args]
          \cup [op : {"send", "close"}, to : Nat]
          \cup [op : {"sendcaps"}, to : Nat, caps : Seq(Nat)]

\* A payload is a snapshot of what the sender computed; it is named by the sender
\* (None is the embedder) and the point it was sent at.
Payloads == [from : Ids \cup {None}, at : Nat]
Messages == [payload : Payloads, caps : Seq(Ids)]

\* What an actor has seen, on which everything it does depends: its own acts, the
\* values that answered them and the arming of the root by a drive.
Seen == Acts \cup [op : {"armed"}] \cup [answer : Results] \cup [value : Nat]
          \cup [mail : Payloads, caps : Seq(Nat)]

Statuses == {"none", "new", "runnable", "blocked", "halted", "crashed"}

\* er_scheduler and its actors; status "none" is an actor that does not exist,
\* "new" one that was not started.  cur is the actor in a slice, call the call of
\* the embedder that is running, calls how many it has made and ret what the last
\* one returned.
Schedulers ==
  [next : Nat, status : [Ids -> Statuses], queue : Seq(Ids),
   mbox : [Ids -> Seq(Messages)], handle : [Ids -> Seq(Ids \cup {None})],
   http : [Ids -> Args \cup {None}], hist : [Ids -> Seq(Seen)],
   cur : Ids \cup {None}, call : {None, "drive", "run"}, calls : Nat,
   ret : {None, "done", "exn", "deadlock", "quiescent", "idle"}]

-----------------------------------------------------------------------------
(***************************************************************************)
(* The scheduler, as functions of its state.                               *)
(***************************************************************************)

\* er_register: an actor knows itself by handle 0.
Register(u) ==
  [u EXCEPT !.next = @ + 1, !.status[u.next] = "new", !.handle[u.next] = <<u.next>>]

\* The scheduler once the embedder has adopted its own thread and created its
\* first actors.
Fresh ==
  [next   |-> Boot + 1,
   status |-> [a \in Ids |-> IF a = Root THEN "runnable"
                             ELSE IF a <= Boot THEN "new" ELSE "none"],
   queue  |-> <<>>,
   mbox   |-> [a \in Ids |-> <<>>],
   handle |-> [a \in Ids |-> IF a <= Boot THEN <<a>> ELSE <<>>],
   http   |-> [a \in Ids |-> None],
   hist   |-> [a \in Ids |-> <<>>],
   cur    |-> None,
   call   |-> None,
   calls  |-> 0,
   ret    |-> None]

Note(u, a, v) == [u EXCEPT !.hist[a] = Append(@, v)]

\* er_enqueue, with no MT executor attached.
Enqueue(u, a) == [u EXCEPT !.queue = Append(@, a)]

\* pl_thread_deposit and the end of every service that answers at once.
Ready(u, a, v) ==
  [u EXCEPT !.hist[a] = Append(@, v), !.status[a] = "runnable", !.queue = Append(@, a)]

\* er_handle_get: handle h of actor a, or None.
HandleGet(u, a, h) == IF h < Len(u.handle[a]) THEN u.handle[a][h + 1] ELSE None

\* er_recv_ready: the head of the mailbox goes to the receiver, its capabilities
\* under fresh handles.
RecvReady(u, a) ==
  LET m == Head(u.mbox[a])
      minted == [i \in 1..Len(m.caps) |-> Len(u.handle[a]) + i - 1]
  IN  Ready([u EXCEPT !.mbox[a] = Tail(@), !.handle[a] = @ \o m.caps],
            a, [mail |-> m.payload, caps |-> minted])

\* er_deliver: an actor that waits on Recv takes the message at once.
Deliver(u, to, m) ==
  LET w == [u EXCEPT !.mbox[to] = Append(@, m)]
  IN  IF u.status[to] = "blocked" /\ u.http[to] = None THEN RecvReady(w, to) ELSE w

\* The call of the embedder returns.
Return(u, v) == [u EXCEPT !.call = None, !.ret = v]

\* er_crash; the root's continuation is abandoned instead and the drive returns
\* (er_root_unwind).
Crash(u, a) ==
  IF a = Root THEN Return(u, "exn") ELSE [u EXCEPT !.status[a] = "crashed"]

\* PL_RUN_DONE.
Finish(u, a) ==
  IF a = Root THEN Return(u, "done") ELSE [u EXCEPT !.status[a] = "halted"]

\* Send and SendCaps of er_service: a handle that is not live crashes the sender.
Send(u, a, h, caps) ==
  LET to == HandleGet(u, a, h)
      refs == [i \in 1..Len(caps) |-> HandleGet(u, a, caps[i])]
      m == [payload |-> [from |-> a, at |-> Len(u.hist[a])], caps |-> refs]
  IN  IF to = None \/ \E i \in 1..Len(caps) : refs[i] = None
      THEN Crash(u, a)
      ELSE Ready(Deliver(u, to, m), a, [value |-> 0])

\* Mutant of Spawn: the first closed handle is used again.
SpawnReusing(u, a) ==
  LET child == u.next
      born == Enqueue([Register(u) EXCEPT !.status[child] = "runnable"], child)
      slots == {i \in 1..(Len(u.handle[a]) + 1) :
                  i = Len(u.handle[a]) + 1 \/ u.handle[a][i] = None}
      slot == CHOOSE i \in slots : \A j \in slots : i <= j
      table == [i \in DOMAIN u.handle[a] \cup {slot} |->
                  IF i = slot THEN child ELSE u.handle[a][i]]
  IN  Ready([born EXCEPT !.handle[a] = table], a, [value |-> slot - 1])

\* Spawn: the child is queued before the parent.
Spawn(u, a) ==
  LET child == u.next
      born == Enqueue([Register(u) EXCEPT !.status[child] = "runnable"], child)
  IN  Ready([born EXCEPT !.handle[a] = Append(@, child)], a,
            [value |-> Len(u.handle[a])])

\* Mutant of Recv: the actor parks without looking at its mailbox.
RecvBlind(u, a) == [u EXCEPT !.status[a] = "blocked"]

Recv(u, a) ==
  IF u.mbox[a] = <<>> THEN [u EXCEPT !.status[a] = "blocked"] ELSE RecvReady(u, a)

\* CloseHandle: an unknown handle is ignored.
CloseHandle(u, a, h) ==
  Ready(IF h < Len(u.handle[a]) THEN [u EXCEPT !.handle[a][h + 1] = None] ELSE u,
        a, [value |-> 0])

\* The end of a slice that asks nothing of the outside: er_step, the switch of
\* er_scheduler_drive and the internal requests of er_service.
EndSlice(u, o) ==
  LET a == u.cur
      w == Note([u EXCEPT !.cur = None], a, o)
  IN  CASE o.op = "yield"     -> Enqueue(w, a)
        [] o.op = "done"      -> Finish(w, a)
        [] o.op = "exn"       -> Crash(w, a)
        [] o.op = "malformed" -> Crash(w, a)
        [] o.op = "recv"      -> Recv(w, a)
        [] o.op = "send"      -> Send(w, a, o.to, <<>>)
        [] o.op = "sendcaps"  -> Send(w, a, o.to, o.caps)
        [] o.op = "spawn"     -> Spawn(w, a)
        [] o.op = "sleep"     -> Ready(w, a, [value |-> 0])
        [] o.op = "close"     -> CloseHandle(w, a, o.to)

\* A host effect answers.  A direct effect is answered inside the slice; ReadBat
\* and ReadFolder are requests.
Answer(u, o, r) ==
  LET a == u.cur
  IN  IF o.op = "io" THEN Note(Note(u, a, o), a, [answer |-> r])
      ELSE Ready(Note([u EXCEPT !.cur = None], a, o), a, [answer |-> r])

\* er_http_park.
Park(u, o) ==
  LET a == u.cur
  IN  [Note([u EXCEPT !.cur = None], a, o)
         EXCEPT !.status[a] = "blocked", !.http[a] = o.arg]

\* A Fetch that fails validation is answered where it is served.
Refuse(u, o, r) ==
  LET a == u.cur IN Ready(Note([u EXCEPT !.cur = None], a, o), a, [answer |-> r])

\* er_http_resume of a parked actor.
Resume(u, a, r) == Ready([u EXCEPT !.http[a] = None], a, [answer |-> r])

Dequeue(u) == [u EXCEPT !.cur = Head(u.queue), !.queue = Tail(@)]

\* The run queue is empty and no transfer is outstanding.
Verdict(u) ==
  IF u.call = "drive" THEN Return([u EXCEPT !.status[Root] = "runnable"], "deadlock")
  ELSE Return(u, IF \E a \in Ids : u.status[a] = "blocked" THEN "quiescent" ELSE "idle")

-----------------------------------------------------------------------------
(***************************************************************************)
(* The program and the embedder.                                           *)
(***************************************************************************)

\* What the running actor can do next, at a history the program has not met.
\* Handles are the ones it holds and the first one it does not.
Choices(u) ==
  LET held == 0..Len(u.handle[u.cur])
      rows == {<<>>} \cup {<<h>> : h \in held}
  IN  IF Cardinality(DOMAIN prog) >= MaxSteps THEN {[op |-> "done"]}
      ELSE [op : Ops \cap Plain]
           \cup [op : Ops \cap (Effects \cup {"fetch"}), arg : Args]
           \cup [op : Ops \cap {"send", "close"}, to : held]
           \cup [op : Ops \cap {"sendcaps"}, to : held, caps : rows]

\* The history the running actor has reached, and what it can do there.
Reached == <<s.cur, s.hist[s.cur]>>
Options == IF Reached \in DOMAIN prog THEN {prog[Reached]} ELSE Choices(s)

\* The running actor does o.
Does(o) ==
  prog' = [k \in DOMAIN prog \cup {Reached} |-> IF k = Reached THEN o ELSE prog[k]]

Calls ==
  [op : {"drive", "run"}] \cup [op : {"start", "inject"}, to : Ids]

\* The contract of each call (the embedder starts an actor once, and injects into
\* an actor it has).
Callable(u, c) ==
  /\ c.op = "start" => u.status[c.to] = "new"
  /\ c.op = "inject" => u.status[c.to] # "none"

\* The embedder, between two calls, makes call c.
Embedder(c) ==
  /\ s.call = None
  /\ Callable(s, c)
  /\ IF s.calls < Len(script)
     THEN c = script[s.calls + 1] /\ script' = script
     ELSE /\ phase = "record" /\ Len(script) < MaxCalls
          /\ script' = Append(script, c)

-----------------------------------------------------------------------------
(***************************************************************************)
(* Recording and replaying.                                                *)
(***************************************************************************)

Event(kind, a, hash, data) == [kind |-> kind, actor |-> a, hash |-> hash, data |-> data]

\* er_event; kind stands for its kind and, for a Fetch, its op: "FetchV" is one that
\* failed validation.
Events == [kind : Effects \cup {"Fetch", "FetchV"}, actor : Ids, hash : Args, data : Results]
            \cup [kind : {"inject"}, actor : Ids, hash : {None}, data : Payloads]

\* er_replay_next and the check of the event against the request at hand.
Agrees(kind, a, hash) ==
  /\ cursor < Len(log)
  /\ log[cursor + 1].kind = kind
  /\ log[cursor + 1].actor = a
  /\ log[cursor + 1].hash = hash

\* The state of the execution becomes u; the recording remembers it.
Step(u) ==
  /\ s' = u
  /\ IF phase = "record"
     THEN path' = Append(path, [s |-> u, n |-> Len(log')]) /\ pos' = pos
     ELSE path' = path /\ pos' = pos + 1
  /\ UNCHANGED <<phase, aborted>>

\* The execution becomes u and meets no event.
Silent(u) == UNCHANGED <<log, cursor>> /\ Step(u)

\* The recording appends e and becomes u.
Record(e, u) == log' = Append(log, e) /\ cursor' = cursor /\ Step(u)

\* The replay consumes an event and becomes u.
Consume(u) == cursor' = cursor + 1 /\ log' = log /\ Step(u)

\* An ax_assume of the replay fails.
Diverge == aborted' = TRUE /\ UNCHANGED <<phase, s, log, cursor, path, pos>>

\* A slice ends in a way that involves nothing outside.
Slice ==
  /\ s.cur # None
  /\ \E o \in Options :
       /\ o.op \notin Effects \cup {"fetch"}
       /\ o.op = "spawn" => s.next < MaxActors
       /\ Does(o)
       /\ Silent(EndSlice(s, o))
  /\ UNCHANGED <<inflight, done, script, crash>>

\* er_io_hook, and the ReadBat and ReadFolder branches of er_service.
HostEffect ==
  /\ s.cur # None
  /\ \E o \in Options :
       /\ o.op \in Effects
       /\ Does(o)
       /\ \/ /\ phase = "record"
             /\ \E r \in Results :
                  Record(Event(o.op, s.cur, o.arg, r), Answer(s, o, r))
          \/ /\ phase = "replay" /\ Agrees(o.op, s.cur, o.arg)
             /\ Consume(Answer(s, o, log[cursor + 1].data))
          \/ phase = "replay" /\ ~Agrees(o.op, s.cur, o.arg) /\ Diverge
  /\ UNCHANGED <<inflight, done, script, crash>>

\* A direct effect that fails raises an error no program can catch, before
\* anything is logged.
HostError ==
  /\ phase = "record" /\ s.cur # None
  /\ \E o \in Options :
       /\ o.op = "io"
       /\ Does(o)
       /\ Silent(Crash(Note([s EXCEPT !.cur = None], s.cur, o), s.cur))
  /\ crash' = IF crash = 0 THEN Len(path) ELSE crash
  /\ UNCHANGED <<inflight, done, script>>

\* Mutant of RefusalNext: whose validation failure it is is not looked at.
RefusalNextOfAnyone == cursor < Len(log) /\ log[cursor + 1].kind = "FetchV"

\* The replay meets a validation failure of the running actor next.
RefusalNext ==
  /\ cursor < Len(log)
  /\ log[cursor + 1].kind = "FetchV" /\ log[cursor + 1].actor = s.cur

\* er_http_service.  Whether the request is valid is for curl to say; the replay
\* does not ask again but looks at the next event.
Fetch ==
  /\ s.cur # None
  /\ \E o \in Options :
       /\ o.op = "fetch"
       /\ Does(o)
       /\ \/ /\ phase = "record"
             /\ \E r \in Results :
                  Record(Event("FetchV", s.cur, o.arg, r), Refuse(s, o, r))
             /\ inflight' = inflight
          \/ /\ phase = "replay" /\ RefusalNext
             /\ IF log[cursor + 1].hash = o.arg
                THEN Consume(Refuse(s, o, log[cursor + 1].data))
                ELSE Diverge
             /\ inflight' = inflight
          \/ /\ phase = "replay" => ~RefusalNext
             /\ Silent(Park(s, o))
             /\ inflight' = inflight \cup {s.cur}
  /\ UNCHANGED <<done, script, crash>>

\* er_http_pump and er_http_wait_for_done, between two slices of a recording:
\* transfer a is over and moves to the completion FIFO (an iteration of
\* er_http_harvest).  Nobody is resumed.
Harvest(a) ==
  /\ phase = "record" /\ s.call # None /\ s.cur = None
  /\ a \in inflight
  /\ inflight' = inflight \ {a} /\ done' = Append(done, a)
  /\ UNCHANGED <<phase, s, log, cursor, aborted, prog, script, path, pos, crash>>

\* An iteration of the loop of er_scheduler_run or er_scheduler_drive that finds
\* an actor to run.
Schedule ==
  /\ s.call # None /\ s.cur = None /\ s.queue # <<>>
  /\ Silent(Dequeue(s))
  /\ UNCHANGED <<inflight, done, prog, script, crash>>

\* er_http_idle in a recording: once there is a completion, deposit exactly one.
Deposit ==
  /\ phase = "record" /\ s.call # None /\ s.cur = None /\ s.queue = <<>>
  /\ done # <<>>
  /\ \E r \in Results :
       LET a == Head(done)
       IN  Record(Event("Fetch", a, s.http[a], r), Resume(s, a, r))
  /\ done' = Tail(done)
  /\ UNCHANGED <<inflight, prog, script, crash>>

\* er_http_idle in a replay: the next event says who is resumed.
Redeposit ==
  /\ phase = "replay" /\ s.call # None /\ s.cur = None /\ s.queue = <<>>
  /\ \E a \in Ids : s.http[a] # None
  /\ IF \E a \in Ids : s.http[a] # None /\ Agrees("Fetch", a, s.http[a])
     THEN LET e == log[cursor + 1]
          IN  Consume(Resume(s, e.actor, e.data)) /\ inflight' = inflight \ {e.actor}
     ELSE Diverge /\ inflight' = inflight
  /\ UNCHANGED <<done, prog, script, crash>>

\* Mutant of Stop: completions that were harvested are forgotten.
StopUnlessInFlight ==
  /\ s.call # None /\ s.cur = None /\ s.queue = <<>>
  /\ inflight = {}
  /\ Silent(Verdict(s))
  /\ UNCHANGED <<inflight, done, prog, script, crash>>

\* The loop has nothing to run and nothing to wait for.
Stop ==
  /\ s.call # None /\ s.cur = None /\ s.queue = <<>>
  /\ IF phase = "record" THEN inflight = {} /\ done = <<>>
     ELSE \A a \in Ids : s.http[a] = None
  /\ Silent(Verdict(s))
  /\ UNCHANGED <<inflight, done, prog, script, crash>>

-----------------------------------------------------------------------------
(***************************************************************************)
(* The embedder's calls.                                                   *)
(***************************************************************************)

Called(u) == [u EXCEPT !.calls = @ + 1, !.ret = None]

Started(u, a) == Enqueue([Called(u) EXCEPT !.status[a] = "runnable"], a)
Driven(u) == Ready([Called(u) EXCEPT !.call = "drive"], Root, [op |-> "armed"])
Entered(u) == [Called(u) EXCEPT !.call = "run"]

\* What the embedder injects at each point, and the injection.
Injection(u) == [from |-> None, at |-> u.calls]
Injected(u, a) == Deliver(Called(u), a, [payload |-> Injection(u), caps |-> <<>>])

\* er_actor_start.
Start(a) ==
  /\ Embedder([op |-> "start", to |-> a])
  /\ Silent(Started(s, a))
  /\ UNCHANGED <<inflight, done, prog, crash>>

\* er_scheduler_drive: the root, armed with a new computation, is queued.
Drive ==
  /\ Embedder([op |-> "drive"])
  /\ Silent(Driven(s))
  /\ UNCHANGED <<inflight, done, prog, crash>>

\* er_scheduler_run.
Run ==
  /\ Embedder([op |-> "run"])
  /\ Silent(Entered(s))
  /\ UNCHANGED <<inflight, done, prog, crash>>

\* er_scheduler_inject: mail for an actor that is gone is dropped and not logged.
Inject(a) ==
  /\ Embedder([op |-> "inject", to |-> a])
  /\ \/ s.status[a] \in {"halted", "crashed"} /\ Silent(Called(s))
     \/ /\ s.status[a] \notin {"halted", "crashed"} /\ phase = "record"
        /\ Record(Event("inject", a, None, Injection(s)), Injected(s, a))
     \/ /\ s.status[a] \notin {"halted", "crashed"} /\ phase = "replay"
        /\ IF Agrees("inject", a, None) /\ log[cursor + 1].data = Injection(s)
           THEN Consume(Injected(s, a))
           ELSE Diverge
  /\ UNCHANGED <<inflight, done, prog, crash>>

\* er_log_read_file of a file whose header announces count events and that holds
\* the events evs: a short file gives no log at all.
ReadFile(count, evs) == IF Len(evs) < count THEN None ELSE evs

\* The embedder writes the log, frees the scheduler (transfers still in flight
\* are dropped) and replays what it reads back.  Writing may have stopped at any
\* event.
Reload ==
  /\ phase = "record" /\ s.call = None
  /\ \E n \in 0..Len(log) :
       LET read == ReadFile(Len(log), SubSeq(log, 1, n))
       IN  IF read = None
           THEN phase' = "unreadable" /\ UNCHANGED <<s, log, inflight, done, pos>>
           ELSE /\ phase' = "replay" /\ log' = read
                /\ s' = Fresh /\ pos' = 1
                /\ inflight' = {} /\ done' = <<>>
  /\ UNCHANGED <<cursor, aborted, prog, script, path, crash>>

Init ==
  /\ phase = "record"
  /\ s = Fresh
  /\ inflight = {} /\ done = <<>>
  /\ log = <<>> /\ cursor = 0 /\ aborted = FALSE
  /\ prog = <<>> /\ script = <<>>
  /\ path = <<[s |-> Fresh, n |-> 0]>> /\ pos = 0 /\ crash = 0

Next ==
  /\ phase # "unreadable" /\ ~aborted
  /\ \/ Slice \/ HostEffect \/ HostError \/ Fetch
     \/ Schedule \/ Deposit \/ Redeposit \/ Stop
     \/ \E a \in Ids : Harvest(a) \/ Start(a) \/ Inject(a)
     \/ Drive \/ Run \/ Reload

Spec == Init /\ [][Next]_vars
-----------------------------------------------------------------------------
(***************************************************************************)
(* Properties.                                                             *)
(***************************************************************************)

Queued(u, a) == \E i \in DOMAIN u.queue : u.queue[i] = a
Live(u, a) == Queued(u, a) \/ u.cur = a

\* The actors that can run are exactly the ones that are queued, once, or running;
\* the root is one of them only inside a drive.  An actor parked on Recv has no
\* mail and one parked on a Fetch is not waiting for mail.
QueueSound(u) ==
  /\ \A i, j \in DOMAIN u.queue : u.queue[i] = u.queue[j] => i = j
  /\ u.cur # None => ~Queued(u, u.cur) /\ u.call # None
  /\ \A a \in Ids : a # Root \/ u.call = "drive" =>
                     (Live(u, a) <=> u.status[a] = "runnable")
  /\ u.call # "drive" => ~Live(u, Root) /\ u.status[Root] = "runnable"
  /\ u.status[Root] \in {"runnable", "blocked"}
  /\ \A a \in Ids : /\ u.status[a] = "none" <=> a >= u.next
                    /\ u.http[a] # None => u.status[a] = "blocked"
                    /\ u.status[a] = "blocked" /\ u.http[a] = None => u.mbox[a] = <<>>

\* The run queue is an intrusive list: an actor that is queued twice, or queued
\* while it runs, would cut it, and one that is not queued when it can run is
\* lost; er_scheduler_run aborts if it meets the root.  None of this happens, no
\* wakeup is lost between Recv and a delivery, and an actor is parked on a Fetch
\* exactly while its transfer is in flight or waits in the completion FIFO, once.
RunQueueSound ==
  /\ QueueSound(s)
  /\ \A i, j \in DOMAIN done : done[i] = done[j] => i = j
  /\ \A i \in DOMAIN done : done[i] \notin inflight
  /\ \A a \in Ids : s.http[a] # None
                     <=> a \in inflight \/ \E i \in DOMAIN done : done[i] = a

\* A replay of a complete log goes through the states of the recording one by
\* one, having consumed at each of them exactly the events the recording had
\* logged, and none of its checks fails: the same actors run in the same order,
\* see the same answers and are left in the same state, whatever the program,
\* the order in which transfers completed and the answers of the host.  The one
\* limit is a direct effect that failed: it was not logged, and the replay goes
\* exactly as far as the slice that asked for it.
ReplayReproduces ==
  phase = "replay" /\ (crash = 0 \/ pos <= crash) =>
    /\ pos \in DOMAIN path
    /\ s = path[pos].s /\ cursor = path[pos].n
    /\ aborted => pos = crash

\* A handle never comes to mean another actor: it names the actor it was minted
\* for until it is closed, and nobody after that, however many capabilities are
\* received or children spawned since.
HandlesNeverRetarget ==
  [][phase' = phase =>
       \A a \in Ids : \A h \in DOMAIN s.handle[a] :
         /\ h \in DOMAIN s'.handle[a]
         /\ s'.handle[a][h] \in {s.handle[a][h], None}]_vars

\* er_scheduler_drive reports a deadlock only when there is one: the root waits
\* for a message, nobody can run, nobody waits for a transfer and no parked
\* actor has mail.
DeadlockIsReal ==
  [][s.call = "drive" /\ s'.ret = "deadlock" =>
       /\ s.status[Root] = "blocked"
       /\ \A a \in Ids : /\ s.status[a] \in {"none", "new", "halted", "crashed", "blocked"}
                         /\ s.status[a] = "blocked" => s.http[a] = None /\ s.mbox[a] = <<>>
       /\ inflight = {} /\ done = <<>>]_vars
=============================================================================
