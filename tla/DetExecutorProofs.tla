-------------------------- MODULE DetExecutorProofs --------------------------
(***************************************************************************)
(* The deterministic executor: what each of its functions does to the run  *)
(* queue, the mailboxes and the handles; then its types, the soundness of  *)
(* its run queue, the meaning of its handles and of a reported deadlock.   *)
(* The last part is the replay, with an invariant of its own: each state   *)
(* of the recording follows from the one before, the program, the script   *)
(* and the log, and a replay is at one of them.                            *)
(***************************************************************************)
EXTENDS DetExecutor, TLAPS

Distinct(q) == \A i, j \in DOMAIN q : q[i] = q[j] => i = j
Within(q, b) == \E i \in DOMAIN q : q[i] = b

\* An element appended to a sequence that does not hold it is in it, once.
LEMMA Appended ==
  ASSUME NEW S, NEW q \in Seq(S), NEW a \in S
  PROVE  /\ Append(q, a) \in Seq(S)
         /\ \A b : Within(Append(q, a), b) <=> Within(q, b) \/ b = a
         /\ Distinct(q) /\ ~Within(q, a) => Distinct(Append(q, a))
<1> DEFINE r == Append(q, a)
<1>1. /\ r \in Seq(S) /\ DOMAIN q = 1..Len(q) /\ DOMAIN r = 1..(Len(q) + 1)
      /\ Len(q) \in Nat /\ r[Len(q) + 1] = a
      /\ \A i \in 1..Len(q) : r[i] = q[i]
  OBVIOUS
<1> HIDE DEF r
<1>2. ASSUME NEW b PROVE Within(r, b) <=> Within(q, b) \/ b = a
  BY <1>1 DEF Within
<1>3. Distinct(q) /\ ~Within(q, a) => Distinct(r)
  BY <1>1 DEF Within, Distinct
<1> QED BY Zenon, <1>1, <1>2, <1>3 DEF r

\* A sequence is not empty once something is appended to it.
LEMMA NotEmpty ==
  ASSUME NEW S, NEW q \in Seq(S), NEW a \in S
  PROVE  Append(q, a) # <<>>
<1>1. Len(Append(q, a)) = Len(q) + 1 /\ Len(q) \in Nat
  OBVIOUS
<1> QED BY <1>1

Extends(p, r) == \A h \in DOMAIN p : h \in DOMAIN r /\ r[h] = p[h]

\* A sequence keeps its elements when another one follows.
LEMMA Joined ==
  ASSUME NEW S, NEW p \in Seq(S), NEW q \in Seq(S)
  PROVE  Extends(p, p \o q)
<1> DEFINE r == p \o q
<1>1. /\ r \in Seq(S) /\ Len(p) \in Nat /\ DOMAIN p = 1..Len(p) /\ Len(q) \in Nat
      /\ DOMAIN r = 1..Len(r) /\ Len(r) = Len(p) + Len(q)
      /\ \A h \in 1..Len(p) : r[h] = p[h]
  OBVIOUS
<1> HIDE DEF r
<1>2. Extends(p, r)
  BY <1>1 DEF Extends
<1> QED BY Zenon, <1>2 DEF r

\* The tail of a sequence without duplicates is what is left without its head.
LEMMA Removed ==
  ASSUME NEW S, NEW q \in Seq(S), q # <<>>
  PROVE  /\ Head(q) \in S /\ Tail(q) \in Seq(S) /\ Within(q, Head(q))
         /\ \A b : Within(Tail(q), b) \/ b = Head(q) <=> Within(q, b)
         /\ Distinct(q) => Distinct(Tail(q)) /\ ~Within(Tail(q), Head(q))
<1> DEFINE r == Tail(q)
<1>1. /\ r \in Seq(S) /\ DOMAIN q = 1..Len(q) /\ DOMAIN r = 1..(Len(q) - 1)
      /\ Len(q) \in Nat \ {0} /\ Head(q) = q[1] /\ Head(q) \in S
      /\ \A i \in 1..(Len(q) - 1) : r[i] = q[i + 1]
  OBVIOUS
<1> HIDE DEF r
<1>2. Within(q, Head(q))
  BY <1>1 DEF Within
<1>3. ASSUME NEW b PROVE Within(r, b) \/ b = Head(q) <=> Within(q, b)
  <2>1. ASSUME Within(r, b) PROVE Within(q, b)
    <3>1. PICK i \in 1..(Len(q) - 1) : r[i] = b
      BY Zenon, <1>1, <2>1 DEF Within
    <3>2. i + 1 \in 1..Len(q) /\ q[i + 1] = b
      BY <1>1, <3>1
    <3> QED BY Zenon, <1>1, <3>2 DEF Within
  <2>2. ASSUME Within(q, b), b # Head(q) PROVE Within(r, b)
    <3>1. PICK i \in 1..Len(q) : q[i] = b
      BY Zenon, <1>1, <2>2 DEF Within
    <3>2. i - 1 \in 1..(Len(q) - 1) /\ r[i - 1] = b
      BY <1>1, <3>1, <2>2
    <3> QED BY Zenon, <1>1, <3>2 DEF Within
  <2> QED BY Zenon, <1>2, <2>1, <2>2
<1>4. ASSUME Distinct(q) PROVE Distinct(r) /\ ~Within(r, Head(q))
  <2>1. ASSUME NEW i \in 1..(Len(q) - 1), NEW j \in 1..(Len(q) - 1), r[i] = r[j]
        PROVE  i = j
    <3>1. i + 1 \in 1..Len(q) /\ j + 1 \in 1..Len(q) /\ q[i + 1] = q[j + 1]
      BY <1>1, <2>1
    <3> QED BY <1>1, <3>1, <1>4 DEF Distinct
  <2>2. ASSUME NEW i \in 1..(Len(q) - 1), r[i] = Head(q) PROVE FALSE
    <3>1. i + 1 \in 1..Len(q) /\ 1 \in 1..Len(q) /\ q[i + 1] = q[1]
      BY <1>1, <2>2
    <3> QED BY <1>1, <3>1, <1>4 DEF Distinct
  <2> QED BY Zenon, <1>1, <2>1, <2>2 DEF Distinct, Within
<1> QED BY Zenon, <1>1, <1>2, <1>3, <1>4 DEF r

-----------------------------------------------------------------------------
(***************************************************************************)
(* The functions of the scheduler, one field at a time.                    *)
(***************************************************************************)

\* A note changes the history of one actor only.
LEMMA NoteFields ==
  ASSUME NEW u \in Schedulers, NEW a \in Ids, NEW v \in Seen
  PROVE  /\ Note(u, a, v) \in Schedulers
         /\ Note(u, a, v).next = u.next /\ Note(u, a, v).status = u.status
         /\ Note(u, a, v).queue = u.queue /\ Note(u, a, v).mbox = u.mbox
         /\ Note(u, a, v).handle = u.handle /\ Note(u, a, v).http = u.http
         /\ Note(u, a, v).cur = u.cur /\ Note(u, a, v).call = u.call
         /\ Note(u, a, v).calls = u.calls /\ Note(u, a, v).ret = u.ret
<1> DEFINE h == [u.hist EXCEPT ![a] = Append(@, v)]
<1>1. h \in [Ids -> Seq(Seen)]
  BY DEF Schedulers
<1>2. Note(u, a, v) = [u EXCEPT !.hist = h]
  BY Zenon DEF Note
<1> HIDE DEF h
<1> QED BY Zenon, <1>1, <1>2 DEF Schedulers

\* Ready appends the actor to the queue and makes it runnable.
LEMMA ReadyFields ==
  ASSUME NEW u \in Schedulers, NEW a \in Ids, NEW v \in Seen
  PROVE  /\ Ready(u, a, v) \in Schedulers
         /\ Ready(u, a, v).next = u.next
         /\ Ready(u, a, v).status = [u.status EXCEPT ![a] = "runnable"]
         /\ Ready(u, a, v).queue = Append(u.queue, a)
         /\ Ready(u, a, v).mbox = u.mbox /\ Ready(u, a, v).handle = u.handle
         /\ Ready(u, a, v).http = u.http /\ Ready(u, a, v).cur = u.cur
         /\ Ready(u, a, v).call = u.call /\ Ready(u, a, v).calls = u.calls
         /\ Ready(u, a, v).ret = u.ret
<1> DEFINE h == [u.hist EXCEPT ![a] = Append(@, v)]
           g == [u.status EXCEPT ![a] = "runnable"]
           q == Append(u.queue, a)
<1>1. g \in [Ids -> Statuses] /\ q \in Seq(Ids) /\ h \in [Ids -> Seq(Seen)]
  BY DEF Schedulers, Statuses
<1>2. Ready(u, a, v) = [u EXCEPT !.hist = h, !.status = g, !.queue = q]
  BY Zenon DEF Ready, Schedulers
<1> HIDE DEF h, g, q
<1>3. Ready(u, a, v) \in Schedulers
  BY Zenon, <1>1, <1>2 DEF Schedulers
<1>4. /\ Ready(u, a, v).status = g /\ Ready(u, a, v).queue = q
      /\ Ready(u, a, v).next = u.next /\ Ready(u, a, v).mbox = u.mbox
      /\ Ready(u, a, v).handle = u.handle /\ Ready(u, a, v).http = u.http
      /\ Ready(u, a, v).cur = u.cur /\ Ready(u, a, v).call = u.call
      /\ Ready(u, a, v).calls = u.calls /\ Ready(u, a, v).ret = u.ret
  BY Zenon, <1>1, <1>2 DEF Schedulers
<1> QED BY Zenon, <1>3, <1>4 DEF g, q
-----------------------------------------------------------------------------
(***************************************************************************)
(* The run queue.  While a request is served, some actors are neither      *)
(* queued nor running though they are about to be: the holes.              *)
(***************************************************************************)

Hole(u, H) ==
  /\ u \in Schedulers /\ u.next <= MaxActors /\ u.cur = None /\ H \subseteq Ids
  /\ Distinct(u.queue)
  /\ \A b \in H : ~Within(u.queue, b) /\ u.http[b] = None /\ u.status[b] # "none"
  /\ \A b \in Ids \ H :
       /\ b # Root \/ u.call = "drive" =>
            (Within(u.queue, b) <=> u.status[b] = "runnable")
       /\ u.status[b] = "blocked" /\ u.http[b] = None => u.mbox[b] = <<>>
  /\ u.call # "drive" =>
       Root \notin H /\ ~Within(u.queue, Root) /\ u.status[Root] = "runnable"
  /\ u.status[Root] \in {"runnable", "blocked"}
  /\ \A b \in Ids : /\ u.status[b] = "none" <=> b >= u.next
                    /\ u.http[b] # None => u.status[b] = "blocked"

\* A sound scheduler that runs nobody is one without holes.
LEMMA NoHole ==
  ASSUME NEW u \in Schedulers, u.next <= MaxActors, u.cur = None
  PROVE  QueueSound(u) <=> Hole(u, {})
<1>1. None \notin Ids
  BY Zenon, DetAssumption DEF Ids
<1>2. \A b : Queued(u, b) <=> Within(u.queue, b)
  BY Zenon DEF Queued, Within
<1>3. \A b \in Ids : Live(u, b) <=> Within(u.queue, b)
  BY Zenon, <1>1, <1>2 DEF Live
<1>4. Root \in Ids
  BY DetAssumption DEF Root, Ids
<1> QED BY Zenon, <1>1, <1>2, <1>3, <1>4 DEF QueueSound, Hole, Distinct

\* In w, actor a is queued and runnable; nothing else of u has changed but the
\* handles and the histories.
Fills(u, a, w) ==
  /\ w \in Schedulers /\ w.next = u.next
  /\ w.status = [u.status EXCEPT ![a] = "runnable"]
  /\ w.queue = Append(u.queue, a) /\ w.mbox = u.mbox /\ w.http = u.http
  /\ w.cur = u.cur /\ w.call = u.call

\* An actor that is queued and made runnable is no hole any more.
LEMMA Filled ==
  ASSUME NEW u, NEW H, Hole(u, H), NEW a \in H, NEW w, Fills(u, a, w)
  PROVE  Hole(w, H \ {a})
<1>2. /\ w \in Schedulers /\ w.next = u.next
      /\ w.status = [u.status EXCEPT ![a] = "runnable"]
      /\ w.queue = Append(u.queue, a) /\ w.mbox = u.mbox /\ w.http = u.http
      /\ w.cur = u.cur /\ w.call = u.call
  BY Zenon DEF Fills
<1>1. u \in Schedulers /\ a \in Ids /\ u.queue \in Seq(Ids) /\ u.status \in [Ids -> Statuses]
  BY Zenon DEF Hole, Schedulers
<1>3. /\ \A b : Within(w.queue, b) <=> Within(u.queue, b) \/ b = a
      /\ Distinct(u.queue) /\ ~Within(u.queue, a) => Distinct(w.queue)
  BY <1>1, <1>2, Appended
<1>4. w.status[a] = "runnable" /\ \A b \in Ids \ {a} : w.status[b] = u.status[b]
  BY Zenon, <1>1, <1>2
<1>5. Root \in Ids
  BY DetAssumption DEF Root, Ids
<1>6. Distinct(w.queue)
  BY Zenon, <1>3 DEF Hole
<1>7. \A b \in H \ {a} : ~Within(w.queue, b) /\ w.http[b] = None /\ w.status[b] # "none"
  BY <1>2, <1>3, <1>4 DEF Hole
<1>8. ASSUME NEW b \in Ids \ (H \ {a})
      PROVE  /\ b # Root \/ w.call = "drive" =>
                  (Within(w.queue, b) <=> w.status[b] = "runnable")
             /\ w.status[b] = "blocked" /\ w.http[b] = None => w.mbox[b] = <<>>
  <2>1. CASE b = a
    BY Zenon, <2>1, <1>3, <1>4
  <2>2. CASE b # a
    BY <2>2, <1>2, <1>3, <1>4 DEF Hole
  <2> QED BY Zenon, <2>1, <2>2
<1>9. /\ w.call # "drive" =>
           Root \notin H \ {a} /\ ~Within(w.queue, Root) /\ w.status[Root] = "runnable"
      /\ w.status[Root] \in {"runnable", "blocked"}
  BY Zenon, <1>2, <1>3, <1>4, <1>5 DEF Hole
<1>10. \A b \in Ids : /\ w.status[b] = "none" <=> b >= w.next
                      /\ w.http[b] # None => w.status[b] = "blocked"
  BY <1>2, <1>4 DEF Hole
<1>11. w.next <= MaxActors /\ w.cur = None /\ H \ {a} \subseteq Ids
  BY Zenon, <1>2 DEF Hole
<1> QED BY ONLY Zenon, <1>6, <1>7, <1>8, <1>9, <1>10, <1>11, <1>2 DEF Hole

\* An actor that becomes ready is no hole any more.
LEMMA ReadyHole ==
  ASSUME NEW u, NEW H, Hole(u, H), NEW a \in H, NEW v \in Seen
  PROVE  Hole(Ready(u, a, v), H \ {a})
<1>1. u \in Schedulers /\ a \in Ids
  BY Zenon DEF Hole
<1>2. Fills(u, a, Ready(u, a, v))
  BY <1>1, ReadyFields DEF Fills
<1> QED BY Zenon, <1>2, Filled

\* Enqueueing changes the queue only.
LEMMA EnqueueFields ==
  ASSUME NEW u \in Schedulers, NEW a \in Ids
  PROVE  /\ Enqueue(u, a) \in Schedulers /\ Enqueue(u, a).next = u.next
         /\ Enqueue(u, a).status = u.status
         /\ Enqueue(u, a).queue = Append(u.queue, a)
         /\ Enqueue(u, a).mbox = u.mbox /\ Enqueue(u, a).handle = u.handle
         /\ Enqueue(u, a).http = u.http /\ Enqueue(u, a).cur = u.cur
         /\ Enqueue(u, a).call = u.call /\ Enqueue(u, a).calls = u.calls
         /\ Enqueue(u, a).ret = u.ret
<1> DEFINE q == Append(u.queue, a)
<1>1. q \in Seq(Ids)
  BY DEF Schedulers
<1>2. Enqueue(u, a) = [u EXCEPT !.queue = q]
  BY Zenon DEF Enqueue, Schedulers
<1> HIDE DEF q
<1>3. /\ Enqueue(u, a) \in Schedulers /\ Enqueue(u, a).next = u.next
      /\ Enqueue(u, a).status = u.status /\ Enqueue(u, a).queue = q
      /\ Enqueue(u, a).mbox = u.mbox /\ Enqueue(u, a).handle = u.handle
      /\ Enqueue(u, a).http = u.http /\ Enqueue(u, a).cur = u.cur
      /\ Enqueue(u, a).call = u.call /\ Enqueue(u, a).calls = u.calls
      /\ Enqueue(u, a).ret = u.ret
  BY Zenon, <1>1, <1>2 DEF Schedulers
<1> QED BY Zenon, <1>3 DEF q

\* A runnable actor that is queued is no hole any more.
LEMMA EnqueueHole ==
  ASSUME NEW u, NEW H, Hole(u, H), NEW a \in H, u.status[a] = "runnable"
  PROVE  Hole(Enqueue(u, a), H \ {a})
<1>1. u \in Schedulers /\ a \in Ids /\ u.status \in [Ids -> Statuses]
  BY Zenon DEF Hole, Schedulers
<1>2. u.status = [u.status EXCEPT ![a] = "runnable"]
  BY Zenon, <1>1
<1>3. Fills(u, a, Enqueue(u, a))
  <2> DEFINE w == Enqueue(u, a)
  <2>1. /\ w \in Schedulers /\ w.next = u.next /\ w.status = u.status
        /\ w.queue = Append(u.queue, a) /\ w.mbox = u.mbox /\ w.http = u.http
        /\ w.cur = u.cur /\ w.call = u.call
    BY Zenon, <1>1, EnqueueFields
  <2> HIDE DEF w
  <2> QED BY Zenon, <1>2, <2>1 DEF Fills, w
<1> QED BY Zenon, <1>3, Filled

\* The running actor leaves its slice: it is the one hole.
LEMMA Leaving ==
  ASSUME NEW u \in Schedulers, u.next <= MaxActors, QueueSound(u), u.cur # None,
         NEW o \in Seen
  PROVE  /\ Hole(Note([u EXCEPT !.cur = None], u.cur, o), {u.cur})
         /\ Note([u EXCEPT !.cur = None], u.cur, o).status = u.status
         /\ Note([u EXCEPT !.cur = None], u.cur, o).http = u.http
         /\ Note([u EXCEPT !.cur = None], u.cur, o).handle = u.handle
         /\ Note([u EXCEPT !.cur = None], u.cur, o).call = u.call
         /\ Note([u EXCEPT !.cur = None], u.cur, o).next = u.next
         /\ Note([u EXCEPT !.cur = None], u.cur, o).calls = u.calls
         /\ Note([u EXCEPT !.cur = None], u.cur, o).ret = u.ret
         /\ u.status[u.cur] = "runnable"
<1> DEFINE x == [u EXCEPT !.cur = None]
           w == Note(x, u.cur, o)
<1>0. u.cur \in Ids /\ None \notin Ids /\ Root \in Ids
  BY DetAssumption DEF Schedulers, Ids, Root
<1>1. /\ x \in Schedulers /\ x.next = u.next /\ x.status = u.status
      /\ x.queue = u.queue /\ x.mbox = u.mbox /\ x.http = u.http /\ x.cur = None
      /\ x.call = u.call /\ x.handle = u.handle /\ x.calls = u.calls
      /\ x.ret = u.ret
  BY Zenon DEF Schedulers
<1> HIDE DEF x
<1>2. /\ w \in Schedulers /\ w.next = u.next /\ w.status = u.status
      /\ w.queue = u.queue /\ w.mbox = u.mbox /\ w.http = u.http /\ w.cur = None
      /\ w.call = u.call /\ w.handle = u.handle /\ w.calls = u.calls
      /\ w.ret = u.ret
  BY <1>0, <1>1, NoteFields
<1> HIDE DEF w
<1>3. \A b : Queued(u, b) <=> Within(u.queue, b)
  BY Zenon DEF Queued, Within
<1>4. \A b \in Ids \ {u.cur} : Live(u, b) <=> Within(u.queue, b)
  BY Zenon, <1>3 DEF Live
<1>5. Live(u, u.cur) /\ ~Within(u.queue, u.cur)
  BY Zenon, <1>3 DEF Live, QueueSound
<1>6. u.call # "drive" => u.cur # Root
  BY Zenon DEF QueueSound, Live
<1>7. u.status[u.cur] = "runnable"
  BY Zenon, <1>0, <1>5, <1>6 DEF QueueSound
<1>8. u.http[u.cur] = None
  BY Zenon, <1>0, <1>7 DEF QueueSound
<1>9. Hole(w, {u.cur})
  BY <1>0, <1>2, <1>3, <1>4, <1>5, <1>6, <1>7, <1>8 DEF Hole, QueueSound, Distinct
<1> QED BY Zenon, <1>2, <1>7, <1>9 DEF w, x

\* Handles are only added and closed.
Grows(u, w) ==
  \A a \in Ids : \A h \in DOMAIN u.handle[a] :
    /\ h \in DOMAIN w.handle[a]
    /\ w.handle[a][h] \in {u.handle[a][h], None}

\* An actor that does not exist yet has no handles.
Blank(u) == \A b \in Ids : b >= u.next => u.handle[b] = <<>>

\* The call goes on, has returned because the root is done, or has just begun.
Ends(u, w) ==
  \/ w.call = u.call /\ w.ret = u.ret
  \/ w.call = None /\ w.ret \in {"done", "exn"}
  \/ w.ret = None

\* What no request of the program touches, and what it keeps of the handles.
Keeps(u, w) ==
  /\ w.http = u.http /\ w.calls = u.calls /\ Ends(u, w)
  /\ Blank(u) => Grows(u, w) /\ Blank(w)

\* Keeping composes.
LEMMA KeepsTwice ==
  ASSUME NEW u, NEW v, NEW w, Keeps(u, v), Keeps(v, w)
  PROVE  Keeps(u, w)
BY Zenon DEF Keeps, Ends, Grows, Blank

\* Leaving a slice and becoming ready keep everything.
LEMMA ReadyKeeps ==
  ASSUME NEW u \in Schedulers, NEW a \in Ids, NEW v \in Seen
  PROVE  Keeps(u, Ready(u, a, v))
<1> DEFINE w == Ready(u, a, v)
<1>1. /\ w.http = u.http /\ w.calls = u.calls /\ w.call = u.call /\ w.ret = u.ret
      /\ w.handle = u.handle /\ w.next = u.next
  BY Zenon, ReadyFields
<1> HIDE DEF w
<1>2. Keeps(u, w)
  BY Zenon, <1>1 DEF Keeps, Ends, Grows, Blank
<1> QED BY Zenon, <1>2 DEF w

Mailboxes == [Ids -> Seq(Messages)]
Tables == [Ids -> Seq(Ids \cup {None})]

\* Mailboxes mb leave no actor of u parked on Recv with mail, except holes.
NoMail(u, H, mb) ==
  \A b \in Ids \ H : u.status[b] = "blocked" /\ u.http[b] = None => mb[b] = <<>>

Mailed(u, mb, hd) == [u EXCEPT !.mbox = mb, !.handle = hd]

\* A state that differs in the mailbox and the handles of a hole has the same
\* holes.
LEMMA HoleMail ==
  ASSUME NEW u, NEW H, Hole(u, H), NEW mb \in Mailboxes, NEW hd \in Tables,
         NoMail(u, H, mb)
  PROVE  /\ Hole(Mailed(u, mb, hd), H)
         /\ Mailed(u, mb, hd).http = u.http
         /\ Mailed(u, mb, hd).status = u.status
         /\ Mailed(u, mb, hd).next = u.next
         /\ Mailed(u, mb, hd).calls = u.calls
         /\ Mailed(u, mb, hd).call = u.call /\ Mailed(u, mb, hd).ret = u.ret
         /\ Mailed(u, mb, hd).handle = hd
         /\ Mailed(u, mb, hd).mbox = mb
<1> DEFINE w == Mailed(u, mb, hd)
<1>1. u \in Schedulers
  BY Zenon DEF Hole
<1>2. /\ w \in Schedulers /\ w.next = u.next /\ w.status = u.status
      /\ w.queue = u.queue /\ w.http = u.http /\ w.cur = u.cur /\ w.call = u.call
      /\ w.calls = u.calls /\ w.ret = u.ret /\ w.mbox = mb /\ w.handle = hd
  BY Zenon, <1>1 DEF Schedulers, Mailed, Mailboxes, Tables
<1> HIDE DEF w
<1>3. Hole(w, H)
  BY <1>2 DEF Hole, NoMail
<1> QED BY Zenon, <1>2, <1>3 DEF w

HasMail(u, a) == u.mbox[a] # <<>>

\* A receiver that takes the head of its mailbox is queued.
LEMMA RecvReadyHole ==
  ASSUME NEW u, NEW H, Hole(u, H), NEW a \in H, HasMail(u, a)
  PROVE  /\ Hole(RecvReady(u, a), H \ {a})
         /\ Keeps(u, RecvReady(u, a))
         /\ RecvReady(u, a).call = u.call
         /\ \A b \in Ids \ {a} : RecvReady(u, a).status[b] = u.status[b]
<1> DEFINE m == Head(u.mbox[a])
           minted == [i \in 1..Len(m.caps) |-> Len(u.handle[a]) + i - 1]
           v == [mail |-> m.payload, caps |-> minted]
           mb == [u.mbox EXCEPT ![a] = Tail(@)]
           hd == [u.handle EXCEPT ![a] = @ \o m.caps]
           w == Mailed(u, mb, hd)
<1>1. /\ u \in Schedulers /\ a \in Ids /\ u.mbox \in Mailboxes
      /\ u.handle \in Tables /\ u.status \in [Ids -> Statuses]
  BY Zenon DEF Hole, Schedulers, Mailboxes, Tables
<1>2. m \in Messages /\ mb \in Mailboxes
      /\ \A b \in Ids \ {a} : mb[b] = u.mbox[b]
  BY <1>1 DEF Mailboxes, HasMail
<1>3. m.payload \in Payloads /\ m.caps \in Seq(Ids)
  BY Zenon, <1>2 DEF Messages
<1> HIDE DEF m
<1>4. minted \in Seq(Nat)
  <2>1. Len(m.caps) \in Nat /\ Len(u.handle[a]) \in Nat
    BY <1>1, <1>3 DEF Tables
  <2>2. \A i \in 1..Len(m.caps) : Len(u.handle[a]) + i - 1 \in Nat
    BY <2>1
  <2> QED BY <2>1, <2>2
<1>5. v \in Seen
  BY Zenon, <1>3, <1>4 DEF Seen
<1>6. /\ hd \in Tables
      /\ \A b \in Ids : \A h \in DOMAIN u.handle[b] :
           h \in DOMAIN hd[b] /\ hd[b][h] = u.handle[b][h]
      /\ \A b \in Ids \ {a} : hd[b] = u.handle[b]
  <2> DEFINE old == u.handle[a]
             new == old \o m.caps
  <2>1. old \in Seq(Ids \cup {None}) /\ m.caps \in Seq(Ids \cup {None})
    BY <1>1, <1>3 DEF Tables
  <2>2. new \in Seq(Ids \cup {None})
    BY <2>1
  <2>3. Extends(old, new)
    BY Zenon, <2>1, Joined
  <2> HIDE DEF new
  <2>4. hd \in Tables /\ hd[a] = new /\ \A b \in Ids \ {a} : hd[b] = u.handle[b]
    BY Zenon, <1>1, <2>2 DEF Tables, new
  <2> QED BY Zenon, <2>3, <2>4 DEF Extends
<1>7. RecvReady(u, a) = Ready(w, a, v)
  BY Zenon, <1>1 DEF RecvReady, Schedulers, Mailed, m
<1> HIDE DEF mb, hd, v, minted
<1>8. NoMail(u, H, mb)
  BY Zenon, <1>2 DEF Hole, NoMail
<1>9. /\ Hole(w, H) /\ w.http = u.http /\ w.calls = u.calls /\ w.ret = u.ret /\ w.call = u.call
      /\ w.handle = hd /\ w.status = u.status /\ w.next = u.next
  BY <1>2, <1>6, <1>8, HoleMail
<1>16. ~(a >= u.next)
  BY Zenon, <1>1 DEF Hole
<1>10. Keeps(u, w)
  BY Zenon, <1>6, <1>9, <1>16 DEF Keeps, Ends, Grows, Blank
<1>11. w \in Schedulers
  BY Zenon, <1>9 DEF Hole
<1> HIDE DEF w
<1>12. Hole(Ready(w, a, v), H \ {a})
  BY Zenon, <1>5, <1>9, ReadyHole
<1>13. Keeps(w, Ready(w, a, v))
  BY Zenon, <1>1, <1>5, <1>11, ReadyKeeps
<1>14. Ready(w, a, v).call = w.call
       /\ Ready(w, a, v).status = [w.status EXCEPT ![a] = "runnable"]
  BY Zenon, <1>1, <1>5, <1>11, ReadyFields
<1>15. Keeps(u, Ready(w, a, v))
  BY Zenon, <1>10, <1>13, KeepsTwice
<1> QED BY Zenon, <1>1, <1>7, <1>9, <1>12, <1>14, <1>15

AllRun(u, H) == \A b \in H : u.status[b] = "runnable"

\* A delivery wakes the receiver if it waits for it, and nobody else.
LEMMA DeliverHole ==
  ASSUME NEW u, NEW H, Hole(u, H), NEW to \in Ids, NEW m \in Messages,
         AllRun(u, H)
  PROVE  /\ Hole(Deliver(u, to, m), H)
         /\ Keeps(u, Deliver(u, to, m))
         /\ Deliver(u, to, m).call = u.call
         /\ AllRun(Deliver(u, to, m), H)
<1> DEFINE mb == [u.mbox EXCEPT ![to] = Append(@, m)]
           w == Mailed(u, mb, u.handle)
<1>1. u \in Schedulers /\ u.mbox \in Mailboxes /\ u.handle \in Tables
  BY Zenon DEF Hole, Schedulers, Mailboxes, Tables
<1>2. mb \in Mailboxes /\ mb[to] # <<>> /\ \A b \in Ids \ {to} : mb[b] = u.mbox[b]
  <2> DEFINE q == Append(u.mbox[to], m)
  <2>1. u.mbox[to] \in Seq(Messages)
    BY Zenon, <1>1 DEF Mailboxes
  <2>2. q \in Seq(Messages) /\ q # <<>>
    BY <2>1, NotEmpty
  <2> HIDE DEF q
  <2> QED BY Zenon, <1>1, <2>2 DEF Mailboxes, q
<1>3. [u EXCEPT !.mbox[to] = Append(@, m)] = w
  BY Zenon, <1>1 DEF Schedulers, Mailed
<1> HIDE DEF mb
<1>4. CASE ~(u.status[to] = "blocked" /\ u.http[to] = None)
  <2>1. Deliver(u, to, m) = w
    BY Zenon, <1>3, <1>4 DEF Deliver
  <2>2. NoMail(u, H, mb)
    BY Zenon, <1>2, <1>4 DEF Hole, NoMail
  <2>3. /\ Hole(w, H) /\ w.http = u.http /\ w.calls = u.calls /\ w.ret = u.ret /\ w.call = u.call
        /\ w.handle = u.handle /\ w.status = u.status /\ w.next = u.next
    BY <1>1, <1>2, <2>2, HoleMail
  <2> QED BY Zenon, <2>1, <2>3 DEF Keeps, Ends, Grows, Blank, AllRun
<1>5. CASE u.status[to] = "blocked" /\ u.http[to] = None
  <2>1. Deliver(u, to, m) = RecvReady(w, to)
    BY Zenon, <1>3, <1>5 DEF Deliver
  <2>2. to \notin H /\ (to = Root => u.call = "drive")
    BY Zenon, <1>5 DEF Hole, AllRun
  <2>3. ~Within(u.queue, to)
    BY Zenon, <1>5, <2>2 DEF Hole
  <2> DEFINE K == H \cup {to}
  <2>4. Hole(u, K) /\ to \in K /\ K \ {to} = H
    BY Zenon, <1>5, <2>2, <2>3 DEF Hole
  <2>5. NoMail(u, K, mb)
    BY Zenon, <1>2 DEF Hole, NoMail
  <2> HIDE DEF K
  <2>6. /\ Hole(w, K) /\ w.http = u.http /\ w.calls = u.calls /\ w.ret = u.ret
        /\ w.call = u.call /\ w.handle = u.handle /\ w.status = u.status /\ w.mbox = mb
        /\ w.next = u.next
    BY <1>1, <1>2, <2>4, <2>5, HoleMail
  <2> HIDE DEF w
  <2>7. /\ Hole(RecvReady(w, to), K \ {to}) /\ Keeps(w, RecvReady(w, to))
        /\ RecvReady(w, to).call = w.call
        /\ \A b \in Ids \ {to} : RecvReady(w, to).status[b] = w.status[b]
    <3>1. HasMail(w, to)
      BY Zenon, <1>2, <2>6 DEF HasMail
    <3> QED BY <3>1, <2>4, <2>6, RecvReadyHole
  <2>8. H \subseteq Ids
    BY Zenon DEF Hole
  <2>9. Keeps(u, w)
    BY Zenon, <2>6 DEF Keeps, Ends, Grows, Blank
  <2>10. Keeps(u, RecvReady(w, to))
    BY Zenon, <2>7, <2>9, KeepsTwice
  <2> QED BY <2>1, <2>2, <2>4, <2>6, <2>7, <2>8, <2>10 DEF AllRun
<1> QED BY Zenon, <1>4, <1>5

-----------------------------------------------------------------------------
(***************************************************************************)
(* The end of a slice.                                                     *)
(***************************************************************************)

\* The result of serving a request: no holes, and nothing lost.
Served(u, w) == Hole(w, {}) /\ Keeps(u, w)

\* An actor that crashes or finishes leaves the queue for good; the root ends its
\* drive.
LEMMA EndedHole ==
  ASSUME NEW u, NEW a, Hole(u, {a}), u.status[a] = "runnable"
  PROVE  Served(u, Crash(u, a)) /\ Served(u, Finish(u, a))
<1>0. Root \in Ids
  BY DetAssumption DEF Root, Ids
<1>1. u \in Schedulers /\ a \in Ids /\ u.status \in [Ids -> Statuses] /\ Root \in Ids
  BY Zenon, <1>0 DEF Hole, Schedulers
<1>2. ASSUME NEW r \in {"done", "exn"}, a = Root
      PROVE  Served(u, Return(u, r))
  <2> DEFINE w == Return(u, r)
  <2>1. /\ w \in Schedulers /\ w.next = u.next /\ w.status = u.status
        /\ w.queue = u.queue /\ w.mbox = u.mbox /\ w.http = u.http
        /\ w.handle = u.handle /\ w.cur = u.cur /\ w.call = None /\ w.calls = u.calls
        /\ w.ret = r
    BY Zenon, <1>1 DEF Return, Schedulers
  <2> HIDE DEF w
  <2>2. Hole(w, {})
    BY <1>2, <2>1, DetAssumption DEF Hole
  <2>3. Keeps(u, w)
    BY Zenon, <2>1 DEF Keeps, Ends, Grows, Blank
  <2> QED BY Zenon, <2>2, <2>3 DEF Served, w
<1>3. ASSUME NEW st \in {"crashed", "halted"}, a # Root
      PROVE  Served(u, [u EXCEPT !.status[a] = st])
  <2> DEFINE g == [u.status EXCEPT ![a] = st]
             w == [u EXCEPT !.status = g]
  <2>1. /\ g \in [Ids -> Statuses] /\ g[a] = st
        /\ \A b \in Ids \ {a} : g[b] = u.status[b]
    BY Zenon, <1>1 DEF Statuses
  <2>2. [u EXCEPT !.status[a] = st] = w
    BY Zenon, <1>1 DEF Schedulers
  <2> HIDE DEF g
  <2>3. /\ w \in Schedulers /\ w.next = u.next /\ w.status = g
        /\ w.queue = u.queue /\ w.mbox = u.mbox /\ w.http = u.http
        /\ w.handle = u.handle /\ w.cur = u.cur /\ w.call = u.call /\ w.calls = u.calls
        /\ w.ret = u.ret
    BY Zenon, <1>1, <2>1 DEF Schedulers
  <2> HIDE DEF w
  <2>4. Hole(w, {})
    BY <1>1, <1>3, <2>1, <2>3 DEF Hole
  <2>5. Keeps(u, w)
    BY Zenon, <2>3 DEF Keeps, Ends, Grows, Blank
  <2> QED BY Zenon, <2>2, <2>4, <2>5 DEF Served
<1> QED BY Zenon, <1>2, <1>3 DEF Crash, Finish

\* An actor that asks for a message takes one or is parked with an empty mailbox.
LEMMA RecvHole ==
  ASSUME NEW u, NEW a, Hole(u, {a}), u.call = "drive" \/ a # Root
  PROVE  Served(u, Recv(u, a))
<1>0. Root \in Ids
  BY DetAssumption DEF Root, Ids
<1>1. u \in Schedulers /\ a \in Ids /\ u.status \in [Ids -> Statuses] /\ Root \in Ids
  BY Zenon, <1>0 DEF Hole, Schedulers
<1>2. CASE u.mbox[a] # <<>>
  <2>1. Recv(u, a) = RecvReady(u, a)
    BY Zenon, <1>2 DEF Recv
  <2>2. Hole(RecvReady(u, a), {a} \ {a}) /\ Keeps(u, RecvReady(u, a))
    BY Zenon, <1>2, RecvReadyHole DEF HasMail
  <2>3. {a} \ {a} = {}
    BY Zenon
  <2> QED BY Zenon, <2>1, <2>2, <2>3 DEF Served
<1>3. CASE u.mbox[a] = <<>>
  <2> DEFINE g == [u.status EXCEPT ![a] = "blocked"]
             w == [u EXCEPT !.status = g]
  <2>1. /\ g \in [Ids -> Statuses] /\ g[a] = "blocked"
        /\ \A b \in Ids \ {a} : g[b] = u.status[b]
    BY Zenon, <1>1 DEF Statuses
  <2>2. Recv(u, a) = w
    BY Zenon, <1>1, <1>3 DEF Recv, Schedulers
  <2> HIDE DEF g
  <2>3. /\ w \in Schedulers /\ w.next = u.next /\ w.status = g
        /\ w.queue = u.queue /\ w.mbox = u.mbox /\ w.http = u.http
        /\ w.handle = u.handle /\ w.cur = u.cur /\ w.call = u.call /\ w.calls = u.calls
        /\ w.ret = u.ret
    BY Zenon, <1>1, <2>1 DEF Schedulers
  <2> HIDE DEF w
  <2>4. Hole(w, {})
    BY <1>1, <1>3, <2>1, <2>3 DEF Hole
  <2>5. Keeps(u, w)
    BY Zenon, <2>3 DEF Keeps, Ends, Grows, Blank
  <2> QED BY Zenon, <2>2, <2>4, <2>5 DEF Served
<1> QED BY Zenon, <1>2, <1>3

\* An answered request.
LEMMA AnsweredHole ==
  ASSUME NEW u, NEW a, Hole(u, {a}), NEW v \in Seen
  PROVE  Served(u, Ready(u, a, v))
<1>1. u \in Schedulers /\ a \in Ids
  BY Zenon DEF Hole
<1>2. Hole(Ready(u, a, v), {a} \ {a})
  BY Zenon, ReadyHole
<1>3. {a} \ {a} = {}
  BY Zenon
<1> QED BY Zenon, <1>1, <1>2, <1>3, ReadyKeeps DEF Served

\* A handle names an actor or nobody.
LEMMA HandleGetType ==
  ASSUME NEW u \in Schedulers, NEW a \in Ids, NEW h \in Nat
  PROVE  HandleGet(u, a, h) \in Ids \cup {None}
<1>1. u.handle[a] \in Seq(Ids \cup {None})
  BY Zenon DEF Schedulers
<1>2. CASE h < Len(u.handle[a])
  <2>1. h + 1 \in 1..Len(u.handle[a])
    BY <1>1, <1>2
  <2> QED BY <1>1, <1>2, <2>1 DEF HandleGet
<1> QED BY Zenon, <1>2 DEF HandleGet

\* A send through live handles delivers and answers the sender; any other crashes
\* it.
LEMMA SendHole ==
  ASSUME NEW u, NEW a, Hole(u, {a}), u.status[a] = "runnable",
         NEW h \in Nat, NEW caps \in Seq(Nat)
  PROVE  Served(u, Send(u, a, h, caps))
<1> DEFINE to == HandleGet(u, a, h)
           refs == [i \in 1..Len(caps) |-> HandleGet(u, a, caps[i])]
           m == [payload |-> [from |-> a, at |-> Len(u.hist[a])], caps |-> refs]
           bad == to = None \/ \E i \in 1..Len(caps) : refs[i] = None
           w == Deliver(u, to, m)
<1>1. u \in Schedulers /\ a \in Ids
  BY Zenon DEF Hole
<1>2. to \in Ids \cup {None} /\ \A i \in 1..Len(caps) : refs[i] \in Ids \cup {None}
  BY <1>1, HandleGetType
<1>3. Send(u, a, h, caps) = IF bad THEN Crash(u, a) ELSE Ready(w, a, [value |-> 0])
  BY Zenon DEF Send
<1>4. CASE bad
  BY Zenon, <1>3, <1>4, EndedHole
<1>5. CASE ~bad
  <2>1. to \in Ids /\ \A i \in 1..Len(caps) : refs[i] \in Ids
    BY Zenon, <1>2, <1>5
  <2>2. refs \in Seq(Ids)
    <3>1. Len(caps) \in Nat
      OBVIOUS
    <3>2. refs \in [1..Len(caps) -> Ids]
      BY Zenon, <2>1
    <3> QED BY <3>1, <3>2
  <2>3. Len(u.hist[a]) \in Nat
    BY <1>1 DEF Schedulers
  <2> HIDE DEF to, refs
  <2>4. m \in Messages
    BY Zenon, <1>1, <2>2, <2>3 DEF Messages, Payloads
  <2>5. AllRun(u, {a})
    BY Zenon DEF AllRun
  <2> HIDE DEF m
  <2>6. Hole(w, {a}) /\ Keeps(u, w)
    BY Zenon, <2>1, <2>4, <2>5, DeliverHole
  <2>7. [value |-> 0] \in Seen
    BY Zenon DEF Seen
  <2> HIDE DEF w
  <2>8. Served(w, Ready(w, a, [value |-> 0]))
    BY Zenon, <2>6, <2>7, AnsweredHole
  <2>9. Served(u, Ready(w, a, [value |-> 0]))
    BY Zenon, <2>6, <2>8, KeepsTwice DEF Served
  <2> QED BY Zenon, <1>3, <1>5, <2>9
<1> QED BY Zenon, <1>4, <1>5

\* Closing a handle changes nothing but that handle.
LEMMA CloseHole ==
  ASSUME NEW u, NEW a, Hole(u, {a}), NEW h \in Nat
  PROVE  Served(u, CloseHandle(u, a, h))
<1> DEFINE old == u.handle[a]
           new == [old EXCEPT ![h + 1] = None]
           hd == [u.handle EXCEPT ![a] = new]
           w == Mailed(u, u.mbox, hd)
<1>1. u \in Schedulers /\ a \in Ids /\ ~(a >= u.next)
  BY Zenon DEF Hole
<1>2. u.mbox \in Mailboxes /\ u.handle \in Tables
  BY Zenon, <1>1 DEF Schedulers, Mailboxes, Tables
<1>3. [value |-> 0] \in Seen
  BY Zenon DEF Seen
<1>4. CASE h < Len(old)
  <2>1. old \in Seq(Ids \cup {None})
    BY Zenon, <1>1, <1>2 DEF Tables
  <2>2. /\ new \in Seq(Ids \cup {None}) /\ DOMAIN new = DOMAIN old
        /\ \A i \in DOMAIN old : new[i] \in {old[i], None}
    <3> HIDE DEF old
    <3>1. /\ Len(old) \in Nat /\ DOMAIN old = 1..Len(old)
          /\ old \in [1..Len(old) -> Ids \cup {None}]
      BY <2>1
    <3>2. /\ new \in [1..Len(old) -> Ids \cup {None}] /\ DOMAIN new = DOMAIN old
          /\ \A i \in DOMAIN old : new[i] \in {old[i], None}
      BY Zenon, <3>1
    <3> HIDE DEF new
    <3> QED BY <3>1, <3>2
  <2>3. CloseHandle(u, a, h) = Ready(w, a, [value |-> 0])
    <3>1. [u EXCEPT !.handle[a][h + 1] = None] = w
      BY Zenon, <1>1, <1>2 DEF Mailed, Schedulers
    <3> QED BY Zenon, <1>4, <3>1 DEF CloseHandle
  <2> HIDE DEF new
  <2>4. /\ hd \in Tables /\ hd[a] = new
        /\ \A b \in Ids \ {a} : hd[b] = u.handle[b]
    BY Zenon, <1>1, <1>2, <2>2 DEF Tables
  <2>5. NoMail(u, {a}, u.mbox)
    BY Zenon DEF NoMail, Hole
  <2> HIDE DEF hd
  <2>6. /\ Hole(w, {a}) /\ w.http = u.http /\ w.calls = u.calls /\ w.handle = hd
        /\ w.next = u.next /\ w.call = u.call /\ w.ret = u.ret
    BY <1>2, <2>4, <2>5, HoleMail
  <2> HIDE DEF w
  <2>7. Keeps(u, w)
    BY Zenon, <1>1, <2>2, <2>4, <2>6 DEF Keeps, Ends, Grows, Blank
  <2>8. Served(w, Ready(w, a, [value |-> 0]))
    BY Zenon, <1>3, <2>6, AnsweredHole
  <2>9. Served(u, Ready(w, a, [value |-> 0]))
    BY Zenon, <2>7, <2>8, KeepsTwice DEF Served
  <2> QED BY Zenon, <2>3, <2>9
<1>5. CASE ~(h < Len(old))
  BY Zenon, <1>3, <1>5, AnsweredHole DEF CloseHandle
<1> QED BY Zenon, <1>4, <1>5

\* A child is queued before its parent.
LEMMA SpawnHole ==
  ASSUME NEW u, NEW a, Hole(u, {a}), u.status[a] = "runnable", u.next < MaxActors
  PROVE  Served(u, Spawn(u, a))
<1> DEFINE c == u.next
           g == [u.status EXCEPT ![c] = "runnable"]
           hd == [u.handle EXCEPT ![c] = <<c>>]
           x == [u EXCEPT !.next = c + 1, !.status = g, !.handle = hd]
           y == Enqueue(x, c)
           hd2 == [hd EXCEPT ![a] = Append(@, c)]
           z == Mailed(y, y.mbox, hd2)
           v == [value |-> Len(u.handle[a])]
<1>0. Root \in Ids /\ MaxActors \in Nat /\ Ids = 0..(MaxActors - 1)
  BY DetAssumption DEF Root, Ids
<1>1. /\ u \in Schedulers /\ a \in Ids /\ u.next \in Nat /\ ~(a >= u.next)
      /\ u.status \in [Ids -> Statuses] /\ u.handle \in Tables
      /\ u.mbox \in Mailboxes
  BY Zenon DEF Hole, Schedulers, Tables, Mailboxes
<1>2. c \in Ids /\ c # a /\ c + 1 \in Nat /\ c + 1 <= MaxActors
  BY <1>0, <1>1
<1>3. /\ u.status[c] = "none" /\ c # Root /\ ~Within(u.queue, c) /\ u.http[c] = None
  <2>1. c >= u.next
    BY <1>1
  <2> QED BY Zenon, <1>0, <1>1, <1>2, <2>1 DEF Hole
<1>4. /\ g \in [Ids -> Statuses] /\ g[c] = "runnable"
      /\ \A b \in Ids \ {c} : g[b] = u.status[b]
  BY Zenon, <1>1, <1>2 DEF Statuses
<1>5. <<c>> \in Seq(Ids \cup {None})
  BY <1>2
<1>6. /\ hd \in Tables /\ hd[c] = <<c>>
      /\ \A b \in Ids \ {c} : hd[b] = u.handle[b]
  BY Zenon, <1>1, <1>2, <1>5 DEF Tables
<1>7. [Register(u) EXCEPT !.status[c] = "runnable"] = x
  BY Zenon, <1>1, <1>2 DEF Register, Schedulers, Tables
<1>8. Len(u.handle[a]) \in Nat /\ u.handle[a] \in Seq(Ids \cup {None})
  BY <1>1 DEF Tables
<1>9. v \in Seen
  BY Zenon, <1>8 DEF Seen
<1> HIDE DEF g, hd
<1>10. /\ x \in Schedulers /\ x.next = c + 1 /\ x.status = g /\ x.handle = hd
       /\ x.queue = u.queue /\ x.mbox = u.mbox /\ x.http = u.http /\ x.cur = u.cur
       /\ x.call = u.call /\ x.calls = u.calls /\ x.ret = u.ret
  BY Zenon, <1>1, <1>2, <1>4, <1>6 DEF Schedulers, Tables
<1> HIDE DEF x, c
<1>11. Hole(x, {a, c})
  <2>1. \A b \in Ids : x.status[b] = "none" <=> b >= x.next
    <3>1. \A b \in Ids : b >= x.next <=> b >= u.next /\ b # c
      BY <1>0, <1>1, <1>10 DEF c
    <3>2. x.status[c] # "none" /\ \A b \in Ids \ {c} : x.status[b] = u.status[b]
      BY Zenon, <1>4, <1>10
    <3> QED BY Zenon, <3>1, <3>2 DEF Hole
  <2>2. \A b \in Ids : x.http[b] # None => x.status[b] = "blocked"
    BY Zenon, <1>3, <1>4, <1>10 DEF Hole
  <2>3. \A b \in Ids \ {a, c} :
          /\ b # Root \/ x.call = "drive" =>
               (Within(x.queue, b) <=> x.status[b] = "runnable")
          /\ x.status[b] = "blocked" /\ x.http[b] = None => x.mbox[b] = <<>>
    BY <1>4, <1>10 DEF Hole
  <2>4. \A b \in {a, c} : ~Within(x.queue, b) /\ x.http[b] = None /\ x.status[b] # "none"
    BY <1>1, <1>2, <1>3, <1>4, <1>10 DEF Hole
  <2>5. /\ x.call # "drive" =>
             Root \notin {a, c} /\ ~Within(x.queue, Root) /\ x.status[Root] = "runnable"
        /\ x.status[Root] \in {"runnable", "blocked"}
    BY Zenon, <1>0, <1>3, <1>4, <1>10 DEF Hole
  <2>6. x.next <= MaxActors /\ x.cur = None /\ {a, c} \subseteq Ids /\ Distinct(x.queue)
    BY Zenon, <1>1, <1>2, <1>10 DEF Hole
  <2> QED BY ONLY <1>10, <2>1, <2>2, <2>3, <2>4, <2>5, <2>6, Zenon DEF Hole
<1>12. {a, c} \ {c} = {a}
  BY Zenon, <1>2
<1>13. Hole(y, {a})
  BY <1>4, <1>10, <1>11, <1>12, EnqueueHole
<1>14. /\ y.next = c + 1 /\ y.handle = hd /\ y.mbox = u.mbox /\ y.http = u.http
       /\ y.call = u.call /\ y.calls = u.calls /\ y.ret = u.ret
  BY Zenon, <1>2, <1>10, EnqueueFields
<1> HIDE DEF y
<1>15. /\ hd2 \in Tables /\ Extends(u.handle[a], hd2[a])
       /\ \A b \in Ids \ {a} : hd2[b] = hd[b]
  <2> DEFINE new == Append(u.handle[a], c)
  <2>1. new \in Seq(Ids \cup {None})
    BY <1>2, <1>8
  <2>2. Extends(u.handle[a], new)
    BY <1>8, <1>2 DEF Extends
  <2> HIDE DEF new
  <2>3. hd2 = [hd EXCEPT ![a] = new]
    BY Zenon, <1>1, <1>2, <1>6 DEF Tables, new
  <2> QED BY Zenon, <1>1, <1>6, <2>1, <2>2, <2>3 DEF Tables
<1>16. NoMail(y, {a}, y.mbox) /\ y.mbox \in Mailboxes
  BY Zenon, <1>1, <1>13, <1>14 DEF NoMail, Hole
<1>17. Spawn(u, a) = Ready(z, a, v)
  <2>1. y \in Schedulers
    BY Zenon, <1>13 DEF Hole
  <2>2. [y EXCEPT !.handle[a] = Append(@, c)] = z
    BY Zenon, <2>1, <1>1, <1>14 DEF Mailed, Schedulers
  <2> QED BY Zenon, <1>7, <2>2 DEF Spawn, y, c
<1> HIDE DEF hd2, v
<1>18. /\ Hole(z, {a}) /\ z.http = u.http /\ z.calls = u.calls /\ z.handle = hd2
       /\ z.next = c + 1 /\ z.call = u.call /\ z.ret = u.ret
  BY <1>13, <1>14, <1>15, <1>16, HoleMail
<1> HIDE DEF z
<1>19. Keeps(u, z)
  <2>1. ASSUME Blank(u) PROVE Grows(u, z)
    <3>1. u.handle[c] = <<>>
      BY <1>1, <1>2, <2>1 DEF Blank, c
    <3> QED BY <3>1, <1>6, <1>15, <1>18 DEF Grows, Extends
  <2>2. ASSUME Blank(u), NEW b \in Ids, b >= z.next PROVE z.handle[b] = <<>>
    <3>1. b # c /\ b # a /\ b >= u.next
      BY <1>0, <1>1, <1>18, <2>2 DEF c
    <3> QED BY Zenon, <3>1, <1>6, <1>15, <1>18, <2>2 DEF Blank
  <2> QED BY Zenon, <1>18, <2>1, <2>2 DEF Keeps, Ends, Blank
<1>20. Served(z, Ready(z, a, v))
  BY Zenon, <1>9, <1>18, AnsweredHole
<1>21. Served(u, Ready(z, a, v))
  BY Zenon, <1>19, <1>20, KeepsTwice DEF Served
<1> QED BY Zenon, <1>17, <1>21

-----------------------------------------------------------------------------
(***************************************************************************)
(* Every function of the scheduler keeps it sound.                         *)
(***************************************************************************)

Sound(u) == u \in Schedulers /\ u.next <= MaxActors /\ QueueSound(u) /\ Blank(u)

Inner(o) == o.op \notin Effects \cup {"fetch"}

\* Serving leaves a sound scheduler that runs nobody.
LEMMA ServedSound ==
  ASSUME NEW u, NEW w, Blank(u), Served(u, w)
  PROVE  /\ Sound(w) /\ w.cur = None /\ w.http = u.http /\ w.calls = u.calls
         /\ Grows(u, w) /\ Ends(u, w)
<1>1. Hole(w, {}) /\ Keeps(u, w)
  BY Zenon DEF Served
<1>2. w \in Schedulers /\ w.next <= MaxActors /\ w.cur = None
  BY Zenon, <1>1 DEF Hole
<1> QED BY Zenon, <1>1, <1>2, NoHole DEF Sound, Keeps

\* The running actor has left its slice and noted what it did.
Left(u, o) == Note([u EXCEPT !.cur = None], u.cur, o)

\* The slice is over: one hole, everything else as before.
LEMMA LeftFields ==
  ASSUME NEW u, Sound(u), u.cur # None, NEW o \in Seen
  PROVE  /\ Hole(Left(u, o), {u.cur}) /\ Left(u, o).status[u.cur] = "runnable"
         /\ u.cur = Root => Left(u, o).call = "drive"
         /\ Left(u, o).http = u.http /\ Left(u, o).calls = u.calls
         /\ Left(u, o).call = u.call /\ Left(u, o).ret = u.ret
         /\ Blank(Left(u, o)) /\ Grows(u, Left(u, o))
         /\ u.cur \in Ids /\ Left(u, o).cur = None
<1>1. u \in Schedulers /\ u.next <= MaxActors /\ QueueSound(u) /\ Blank(u)
  BY Zenon DEF Sound
<1>2. /\ Hole(Left(u, o), {u.cur}) /\ u.status[u.cur] = "runnable"
      /\ Left(u, o).status = u.status /\ Left(u, o).http = u.http
      /\ Left(u, o).handle = u.handle /\ Left(u, o).call = u.call
      /\ Left(u, o).next = u.next /\ Left(u, o).calls = u.calls
      /\ Left(u, o).ret = u.ret
  BY Zenon, <1>1, Leaving DEF Left
<1>3. u.cur \in Ids /\ (u.cur = Root => u.call = "drive")
  BY Zenon, <1>1 DEF Schedulers, QueueSound, Live
<1>4. Blank(Left(u, o)) /\ Grows(u, Left(u, o))
  BY Zenon, <1>1, <1>2 DEF Blank, Grows
<1>5. Left(u, o).cur = None
  BY Zenon, <1>2 DEF Hole
<1> QED BY Zenon, <1>2, <1>3, <1>4, <1>5

\* What a step does to a sound scheduler.
Steps(u, w) == Sound(w) /\ Grows(u, w) /\ Ends(u, w)

\* The end of a slice that asks nothing of the outside keeps the scheduler sound.
LEMMA EndSliceSound ==
  ASSUME NEW u, Sound(u), u.cur # None, NEW o \in Acts, Inner(o),
         o.op = "spawn" => u.next < MaxActors
  PROVE  /\ Steps(u, EndSlice(u, o)) /\ EndSlice(u, o).http = u.http
         /\ EndSlice(u, o).calls = u.calls /\ EndSlice(u, o).cur = None
<1> DEFINE a == u.cur
           w == Left(u, o)
           z == EndSlice(u, o)
<1>1. o \in Seen /\ [value |-> 0] \in Seen
  BY Zenon DEF Seen
<1>2. /\ Hole(w, {a}) /\ w.status[a] = "runnable" /\ (a = Root => w.call = "drive")
      /\ w.http = u.http /\ w.calls = u.calls /\ Blank(w) /\ Grows(u, w)
      /\ a \in Ids /\ w.call = u.call /\ w.ret = u.ret
  BY Zenon, <1>1, LeftFields
<1>3. w.next = u.next
  <2>1. [u EXCEPT !.cur = None] \in Schedulers /\ [u EXCEPT !.cur = None].next = u.next
    BY Zenon DEF Sound, Schedulers
  <2> QED BY Zenon, <1>1, <1>2, <2>1, NoteFields DEF Left
<1>4. /\ o.op \in Plain \cup {"send", "close", "sendcaps"}
      /\ o.op \in {"send", "close", "sendcaps"} => o.to \in Nat
      /\ o.op = "sendcaps" => o.caps \in Seq(Nat)
  BY Zenon DEF Acts, Inner, Plain, Effects
<1>5. z = CASE o.op = "yield"     -> Enqueue(w, a)
            [] o.op = "done"      -> Finish(w, a)
            [] o.op = "exn"       -> Crash(w, a)
            [] o.op = "malformed" -> Crash(w, a)
            [] o.op = "recv"      -> Recv(w, a)
            [] o.op = "send"      -> Send(w, a, o.to, <<>>)
            [] o.op = "sendcaps"  -> Send(w, a, o.to, o.caps)
            [] o.op = "spawn"     -> Spawn(w, a)
            [] o.op = "sleep"     -> Ready(w, a, [value |-> 0])
            [] o.op = "close"     -> CloseHandle(w, a, o.to)
  BY Zenon DEF EndSlice, Left
<1> HIDE DEF w, z
<1>6. Served(w, z)
  <2>1. CASE o.op = "yield"
    <3>1. z = Enqueue(w, a)
      BY Zenon, <1>5, <2>1
    <3>2. {a} \ {a} = {} /\ w \in Schedulers
      BY Zenon, <1>2 DEF Hole
    <3>3. Hole(z, {})
      BY <1>2, <3>1, <3>2, EnqueueHole
    <3>4. z.http = w.http /\ z.calls = w.calls /\ z.handle = w.handle /\ z.next = w.next
          /\ z.call = w.call /\ z.ret = w.ret
      BY Zenon, <1>2, <3>1, <3>2, EnqueueFields
    <3> QED BY Zenon, <3>3, <3>4 DEF Served, Keeps, Ends, Grows, Blank
  <2>2. CASE o.op = "done"
    BY Zenon, <1>2, <1>5, <2>2, EndedHole
  <2>3. CASE o.op \in {"exn", "malformed"}
    BY Zenon, <1>2, <1>5, <2>3, EndedHole
  <2>4. CASE o.op = "recv"
    BY Zenon, <1>2, <1>5, <2>4, RecvHole
  <2>5. CASE o.op = "send"
    <3>1. <<>> \in Seq(Nat)
      OBVIOUS
    <3> QED BY Zenon, <1>2, <1>4, <1>5, <2>5, <3>1, SendHole
  <2>6. CASE o.op = "sendcaps"
    BY Zenon, <1>2, <1>4, <1>5, <2>6, SendHole
  <2>7. CASE o.op = "spawn"
    BY Zenon, <1>2, <1>3, <1>5, <2>7, SpawnHole
  <2>8. CASE o.op = "sleep"
    BY Zenon, <1>1, <1>2, <1>5, <2>8, AnsweredHole
  <2>9. CASE o.op = "close"
    BY Zenon, <1>2, <1>4, <1>5, <2>9, CloseHole
  <2> QED BY Zenon, <1>4, <2>1, <2>2, <2>3, <2>4, <2>5, <2>6, <2>7, <2>8, <2>9 DEF Plain
<1>7. /\ Sound(z) /\ z.cur = None /\ z.http = w.http /\ z.calls = w.calls
      /\ Grows(w, z) /\ Ends(w, z)
  BY Zenon, <1>2, <1>6, ServedSound
<1>8. Grows(u, z) /\ Ends(u, z)
  BY Zenon, <1>2, <1>7 DEF Grows, Ends
<1> QED BY Zenon, <1>2, <1>7, <1>8 DEF Steps, z

\* A request answered where it is served keeps the scheduler sound.
LEMMA RefuseSound ==
  ASSUME NEW u, Sound(u), u.cur # None, NEW o \in Acts, NEW r \in Results
  PROVE  /\ Steps(u, Refuse(u, o, r)) /\ Refuse(u, o, r).http = u.http
         /\ Refuse(u, o, r).calls = u.calls
<1> DEFINE w == Left(u, o)
           z == Ready(w, u.cur, [answer |-> r])
<1>1. o \in Seen /\ [answer |-> r] \in Seen
  BY Zenon DEF Seen
<1>2. /\ Hole(w, {u.cur}) /\ w.http = u.http /\ w.calls = u.calls
      /\ Blank(w) /\ Grows(u, w) /\ w.call = u.call /\ w.ret = u.ret
  BY Zenon, <1>1, LeftFields
<1>3. Refuse(u, o, r) = z
  BY Zenon DEF Refuse, Left
<1> HIDE DEF w
<1>4. Served(w, z)
  BY Zenon, <1>1, <1>2, AnsweredHole
<1> HIDE DEF z
<1>5. Sound(z) /\ z.http = w.http /\ z.calls = w.calls /\ Grows(w, z) /\ Ends(w, z)
  BY Zenon, <1>2, <1>4, ServedSound
<1>6. Grows(u, z) /\ Ends(u, z)
  BY Zenon, <1>2, <1>5 DEF Grows, Ends
<1> QED BY Zenon, <1>2, <1>3, <1>5, <1>6 DEF Steps

\* The answer of a host effect keeps the scheduler sound.
LEMMA AnswerSound ==
  ASSUME NEW u, Sound(u), u.cur # None, NEW o \in Acts, NEW r \in Results
  PROVE  /\ Steps(u, Answer(u, o, r)) /\ Answer(u, o, r).http = u.http
         /\ Answer(u, o, r).calls = u.calls
<1>1. CASE o.op = "io"
  <2> DEFINE x == Note(u, u.cur, o)
             w == Note(x, u.cur, [answer |-> r])
  <2>1. o \in Seen /\ [answer |-> r] \in Seen
    BY Zenon DEF Seen
  <2>2. u \in Schedulers /\ u.cur \in Ids
    BY Zenon DEF Sound, Schedulers
  <2>3. /\ x \in Schedulers /\ x.next = u.next /\ x.status = u.status
        /\ x.queue = u.queue /\ x.mbox = u.mbox /\ x.handle = u.handle
        /\ x.http = u.http /\ x.cur = u.cur /\ x.call = u.call /\ x.calls = u.calls
        /\ x.ret = u.ret
    BY <2>1, <2>2, NoteFields
  <2> HIDE DEF x
  <2>4. /\ w \in Schedulers /\ w.next = u.next /\ w.status = u.status
        /\ w.queue = u.queue /\ w.mbox = u.mbox /\ w.handle = u.handle
        /\ w.http = u.http /\ w.cur = u.cur /\ w.call = u.call /\ w.calls = u.calls
        /\ w.ret = u.ret
    BY <2>1, <2>2, <2>3, NoteFields
  <2>5. Answer(u, o, r) = w
    BY Zenon, <1>1 DEF Answer, x
  <2> HIDE DEF w
  <2>6. QueueSound(w)
    BY <2>4 DEF Sound, QueueSound, Live, Queued
  <2> QED BY Zenon, <2>4, <2>5, <2>6 DEF Steps, Ends, Sound, Blank, Grows
<1>2. CASE o.op # "io"
  BY Zenon, <1>2, RefuseSound DEF Answer, Refuse
<1> QED BY Zenon, <1>1, <1>2

\* Parking on a Fetch keeps the scheduler sound.
LEMMA ParkSound ==
  ASSUME NEW u, Sound(u), u.cur # None, NEW o \in Acts, o.op = "fetch"
  PROVE  /\ Steps(u, Park(u, o)) /\ o.arg \in Args /\ u.cur \in Ids
         /\ Park(u, o).http = [u.http EXCEPT ![u.cur] = o.arg]
         /\ Park(u, o).calls = u.calls
<1> DEFINE a == u.cur
           w == Left(u, o)
           g == [w.status EXCEPT ![a] = "blocked"]
           f == [w.http EXCEPT ![a] = o.arg]
           z == [w EXCEPT !.status = g, !.http = f]
<1>0. Root \in Ids /\ None \notin Args
  BY DetAssumption DEF Root, Ids
<1>1. o \in Seen
  BY Zenon DEF Seen
<1>2. o.arg \in Args
  BY Zenon DEF Acts, Plain
<1>3. /\ Hole(w, {a}) /\ w.http = u.http /\ w.calls = u.calls
      /\ (a = Root => w.call = "drive") /\ w.call = u.call /\ w.ret = u.ret
      /\ Blank(w) /\ Grows(u, w) /\ a \in Ids
  BY Zenon, <1>1, LeftFields
<1>4. w \in Schedulers
  BY Zenon, <1>3 DEF Hole
<1>5. Park(u, o) = [w EXCEPT !.status[a] = "blocked", !.http[a] = o.arg]
  BY Zenon DEF Park, Left
<1> HIDE DEF w
<1>6. Park(u, o) = z
  BY Zenon, <1>4, <1>5 DEF Schedulers
<1>7. /\ g \in [Ids -> Statuses] /\ g[a] = "blocked"
      /\ \A b \in Ids \ {a} : g[b] = w.status[b]
  BY Zenon, <1>3, <1>4 DEF Schedulers, Statuses
<1>8. /\ f \in [Ids -> Args \cup {None}] /\ f[a] = o.arg
      /\ \A b \in Ids \ {a} : f[b] = w.http[b]
  BY Zenon, <1>2, <1>3, <1>4 DEF Schedulers
<1>9. f = [u.http EXCEPT ![a] = o.arg]
  BY Zenon, <1>3
<1> HIDE DEF f, g
<1>10. /\ z \in Schedulers /\ z.next = w.next /\ z.status = g /\ z.queue = w.queue
       /\ z.mbox = w.mbox /\ z.handle = w.handle /\ z.http = f /\ z.cur = w.cur
       /\ z.call = w.call /\ z.calls = w.calls /\ z.ret = w.ret
  BY Zenon, <1>4, <1>7, <1>8 DEF Schedulers
<1> HIDE DEF z
<1>11. Hole(z, {})
  <2>1. /\ z.next <= MaxActors /\ z.cur = None /\ Distinct(z.queue)
        /\ ~Within(z.queue, a) /\ w.status[a] # "none"
        /\ w.call # "drive" => a # Root
    BY Zenon, <1>3, <1>10 DEF Hole
  <2>2. /\ z.call # "drive" => ~Within(z.queue, Root) /\ g[Root] = "runnable"
        /\ g[Root] \in {"runnable", "blocked"}
    BY Zenon, <1>0, <1>3, <1>7, <1>10, <2>1 DEF Hole
  <2>3. ASSUME NEW b \in Ids
        PROVE  /\ b # Root \/ z.call = "drive" => (Within(z.queue, b) <=> g[b] = "runnable")
               /\ g[b] = "blocked" /\ f[b] = None => z.mbox[b] = <<>>
               /\ g[b] = "none" <=> b >= z.next
               /\ f[b] # None => g[b] = "blocked"
    <3>1. CASE b = a
      BY <1>0, <1>2, <1>3, <1>7, <1>8, <1>10, <2>1, <3>1 DEF Hole
    <3>2. CASE b # a
      BY <1>3, <1>7, <1>8, <1>10, <3>2 DEF Hole
    <3> QED BY Zenon, <3>1, <3>2
  <2> QED BY Zenon, <1>10, <2>1, <2>2, <2>3 DEF Hole
<1>13. Blank(z) /\ Grows(u, z) /\ Ends(u, z)
  BY Zenon, <1>3, <1>10 DEF Blank, Grows, Ends
<1>14. z.next <= MaxActors /\ z.cur = None
  BY Zenon, <1>11 DEF Hole
<1>15. Sound(z)
  BY Zenon, <1>10, <1>11, <1>13, <1>14, NoHole DEF Sound
<1> QED BY Zenon, <1>2, <1>3, <1>6, <1>9, <1>10, <1>13, <1>15 DEF Steps

\* A sound scheduler that runs nobody has no holes.
LEMMA Settled ==
  ASSUME NEW u, Sound(u), u.cur = None
  PROVE  Hole(u, {}) /\ Blank(u) /\ u \in Schedulers
BY Zenon, NoHole DEF Sound

\* One without holes is sound.
LEMMA Unsettled ==
  ASSUME NEW u, Hole(u, {}), Blank(u)
  PROVE  Sound(u)
<1>1. u \in Schedulers /\ u.next <= MaxActors /\ u.cur = None
  BY Zenon DEF Hole
<1> QED BY Zenon, <1>1, NoHole DEF Sound

\* Resuming an actor that waits for a transfer keeps the scheduler sound.
LEMMA ResumeSound ==
  ASSUME NEW u, Sound(u), u.cur = None, NEW a \in Ids, u.http[a] # None,
         NEW r \in Results
  PROVE  /\ Steps(u, Resume(u, a, r))
         /\ Resume(u, a, r).http = [u.http EXCEPT ![a] = None]
         /\ Resume(u, a, r).calls = u.calls
<1> DEFINE f == [u.http EXCEPT ![a] = None]
           w == [u EXCEPT !.http = f]
           z == Ready(w, a, [answer |-> r])
<1>1. Hole(u, {}) /\ Blank(u) /\ u \in Schedulers
  BY Zenon, Settled
<1>2. [answer |-> r] \in Seen
  BY Zenon DEF Seen
<1>3. f \in [Ids -> Args \cup {None}] /\ f[a] = None /\ \A b \in Ids \ {a} : f[b] = u.http[b]
  BY Zenon, <1>1 DEF Schedulers
<1>4. Resume(u, a, r) = z
  BY Zenon, <1>1 DEF Resume, Schedulers
<1> HIDE DEF f
<1>5. /\ w \in Schedulers /\ w.next = u.next /\ w.status = u.status
      /\ w.queue = u.queue /\ w.mbox = u.mbox /\ w.handle = u.handle
      /\ w.http = f /\ w.cur = u.cur /\ w.call = u.call /\ w.calls = u.calls
      /\ w.ret = u.ret
  BY Zenon, <1>1, <1>3 DEF Schedulers
<1> HIDE DEF w
<1>6. u.status[a] = "blocked" /\ ~Within(u.queue, a)
  BY Zenon, <1>1 DEF Hole
<1>7. Hole(w, {a})
  BY <1>1, <1>3, <1>5, <1>6 DEF Hole
<1>8. Served(w, z)
  BY Zenon, <1>2, <1>7, AnsweredHole
<1>9. Blank(w) /\ Grows(u, w) /\ Ends(u, w)
  BY Zenon, <1>1, <1>5 DEF Blank, Grows, Ends
<1> HIDE DEF z
<1>10. Sound(z) /\ z.http = w.http /\ z.calls = w.calls /\ Grows(w, z) /\ Ends(w, z)
  BY Zenon, <1>8, <1>9, ServedSound
<1>11. Grows(u, z) /\ Ends(u, z)
  BY Zenon, <1>5, <1>9, <1>10 DEF Grows, Ends
<1> QED BY Zenon, <1>4, <1>5, <1>10, <1>11 DEF Steps, f

\* Taking the head of the queue keeps the scheduler sound.
LEMMA DequeueSound ==
  ASSUME NEW u, Sound(u), u.cur = None, u.call # None, u.queue # <<>>
  PROVE  /\ Steps(u, Dequeue(u)) /\ Dequeue(u).http = u.http
         /\ Dequeue(u).calls = u.calls
<1> DEFINE a == Head(u.queue)
           q == Tail(u.queue)
           w == [u EXCEPT !.cur = a, !.queue = q]
<1>1. Hole(u, {}) /\ Blank(u) /\ u \in Schedulers /\ u.queue \in Seq(Ids)
  BY Settled DEF Schedulers
<1>2. /\ q \in Seq(Ids) /\ a \in Ids /\ Within(u.queue, a)
      /\ \A b : Within(q, b) \/ b = a <=> Within(u.queue, b)
      /\ Distinct(u.queue) => Distinct(q) /\ ~Within(q, a)
  BY Zenon, <1>1, Removed
<1>3. Dequeue(u) = w
  BY Zenon, <1>1 DEF Dequeue, Schedulers
<1> HIDE DEF a, q
<1>4. /\ w \in Schedulers /\ w.next = u.next /\ w.status = u.status
      /\ w.queue = q /\ w.mbox = u.mbox /\ w.handle = u.handle
      /\ w.http = u.http /\ w.cur = a /\ w.call = u.call /\ w.calls = u.calls
      /\ w.ret = u.ret
  BY Zenon, <1>1, <1>2 DEF Schedulers
<1> HIDE DEF w
<1>5. \A b : Queued(w, b) <=> Within(q, b)
  BY Zenon, <1>4 DEF Queued, Within
<1>6. \A b \in Ids : Live(w, b) <=> Within(u.queue, b)
  BY Zenon, <1>2, <1>4, <1>5 DEF Live
<1>7. Root \in Ids
  BY DetAssumption DEF Root, Ids
<1>8. QueueSound(w)
  BY <1>1, <1>2, <1>4, <1>5, <1>6, <1>7 DEF QueueSound, Hole, Distinct
<1> QED BY Zenon, <1>1, <1>3, <1>4, <1>8 DEF Steps, Ends, Sound, Blank, Grows

\* The verdict of a call that finds nothing to do keeps the scheduler sound.
LEMMA VerdictSound ==
  ASSUME NEW u, Sound(u), u.cur = None, u.http[Root] = None,
         u.queue = <<>>
  PROVE  /\ Sound(Verdict(u)) /\ Grows(u, Verdict(u)) /\ Verdict(u).http = u.http
         /\ Verdict(u).calls = u.calls /\ Verdict(u).call = None
<1> DEFINE g == [u.status EXCEPT ![Root] = "runnable"]
           v == IF \E a \in Ids : u.status[a] = "blocked" THEN "quiescent" ELSE "idle"
<1>0. Root \in Ids /\ None # "drive"
  BY DetAssumption DEF Root, Ids
<1>1. Hole(u, {}) /\ Blank(u) /\ u \in Schedulers
  BY Zenon, Settled
<1>2. CASE u.call = "drive" /\ u.queue = <<>>
  <2> DEFINE w == [u EXCEPT !.status = g, !.call = None, !.ret = "deadlock"]
  <2>1. Verdict(u) = w
    BY Zenon, <1>1, <1>2 DEF Verdict, Return, Schedulers
  <2>2. /\ g \in [Ids -> Statuses] /\ g[Root] = "runnable"
        /\ \A b \in Ids \ {Root} : g[b] = u.status[b]
    BY Zenon, <1>0, <1>1 DEF Schedulers, Statuses
  <2> HIDE DEF g
  <2>3. /\ w \in Schedulers /\ w.next = u.next /\ w.status = g
        /\ w.queue = u.queue /\ w.mbox = u.mbox /\ w.handle = u.handle
        /\ w.http = u.http /\ w.cur = u.cur /\ w.call = None /\ w.calls = u.calls
    BY Zenon, <1>1, <2>2 DEF Schedulers
  <2> HIDE DEF w
  <2>4. ~Within(u.queue, Root)
    BY <1>2 DEF Within
  <2>5. Hole(w, {})
    BY <1>0, <1>1, <2>2, <2>3, <2>4 DEF Hole
  <2>6. Blank(w) /\ Grows(u, w)
    BY Zenon, <1>1, <2>3 DEF Blank, Grows
  <2> QED BY Zenon, <2>1, <2>3, <2>5, <2>6, Unsettled
<1>3. CASE u.call # "drive"
  <2> DEFINE w == [u EXCEPT !.call = None, !.ret = v]
  <2>1. Verdict(u) = w
    BY Zenon, <1>3 DEF Verdict, Return
  <2>2. v \in {"quiescent", "idle"}
    BY Zenon
  <2> HIDE DEF v
  <2>3. /\ w \in Schedulers /\ w.next = u.next /\ w.status = u.status
        /\ w.queue = u.queue /\ w.mbox = u.mbox /\ w.handle = u.handle
        /\ w.http = u.http /\ w.cur = u.cur /\ w.call = None /\ w.calls = u.calls
    BY Zenon, <1>1, <2>2 DEF Schedulers
  <2> HIDE DEF w
  <2>4. Hole(w, {})
    BY <1>0, <1>1, <1>3, <2>3 DEF Hole
  <2>5. Blank(w) /\ Grows(u, w)
    BY Zenon, <1>1, <2>3 DEF Blank, Grows
  <2> QED BY Zenon, <2>1, <2>3, <2>4, <2>5, Unsettled
<1> QED BY Zenon, <1>2, <1>3

\* Between two calls nobody runs, and the next call is counted.
LEMMA CalledFields ==
  ASSUME NEW u, Sound(u), u.call = None
  PROVE  /\ Hole(Called(u), {}) /\ Blank(Called(u)) /\ Grows(u, Called(u))
         /\ Called(u).next = u.next /\ Called(u).status = u.status
         /\ Called(u).queue = u.queue /\ Called(u).mbox = u.mbox
         /\ Called(u).handle = u.handle /\ Called(u).http = u.http
         /\ Called(u).cur = None /\ Called(u).call = None
         /\ Called(u).calls = u.calls + 1 /\ Called(u).ret = None
<1>1. u.cur = None
  BY Zenon DEF Sound, QueueSound
<1>2. Hole(u, {}) /\ Blank(u) /\ u \in Schedulers
  BY Zenon, <1>1, Settled
<1> DEFINE w == Called(u)
           n == u.calls + 1
<1>6. n \in Nat
  BY <1>2 DEF Schedulers
<1>7. w = [u EXCEPT !.calls = n, !.ret = None]
  BY Zenon, <1>2 DEF Called, Schedulers
<1> HIDE DEF w, n
<1>3. /\ w \in Schedulers /\ w.next = u.next /\ w.status = u.status
      /\ w.queue = u.queue /\ w.mbox = u.mbox /\ w.handle = u.handle
      /\ w.http = u.http /\ w.cur = u.cur /\ w.call = None
      /\ w.calls = n /\ w.ret = None
  BY Zenon, <1>2, <1>6, <1>7 DEF Schedulers
<1>4. Hole(w, {})
  BY <1>2, <1>3 DEF Hole
<1>5. Blank(w) /\ Grows(u, w)
  BY Zenon, <1>2, <1>3 DEF Blank, Grows
<1> QED BY Zenon, <1>1, <1>3, <1>4, <1>5 DEF w, n

\* Starting an actor that was not started keeps the scheduler sound.
LEMMA StartedSound ==
  ASSUME NEW u, Sound(u), u.call = None, NEW a \in Ids, u.status[a] = "new"
  PROVE  /\ Steps(u, Started(u, a)) /\ Started(u, a).http = u.http
         /\ Started(u, a).calls = u.calls + 1
<1> DEFINE w == Called(u)
           g == [w.status EXCEPT ![a] = "runnable"]
           x == [w EXCEPT !.status = g]
           z == Enqueue(x, a)
<1>0. Root \in Ids /\ None # "drive"
  BY DetAssumption DEF Root, Ids
<1>1. /\ Hole(w, {}) /\ Blank(w) /\ Grows(u, w) /\ w.http = u.http
      /\ w.calls = u.calls + 1 /\ w.status = u.status /\ w.call = None /\ w.ret = None
  BY Zenon, CalledFields
<1> HIDE DEF w
<1>2. w \in Schedulers
  BY Zenon, <1>1 DEF Hole
<1>3. Started(u, a) = z
  BY Zenon, <1>2 DEF Started, Schedulers, w
<1>4. /\ g \in [Ids -> Statuses] /\ g[a] = "runnable"
      /\ \A b \in Ids \ {a} : g[b] = w.status[b]
  BY Zenon, <1>2 DEF Schedulers, Statuses
<1> HIDE DEF g
<1>5. /\ x \in Schedulers /\ x.next = w.next /\ x.status = g /\ x.queue = w.queue
      /\ x.mbox = w.mbox /\ x.handle = w.handle /\ x.http = w.http /\ x.cur = w.cur
      /\ x.call = w.call /\ x.calls = w.calls /\ x.ret = w.ret
  BY Zenon, <1>2, <1>4 DEF Schedulers
<1> HIDE DEF x
<1>6. a # Root
  BY Zenon, <1>1 DEF Hole
<1>7. ~Within(w.queue, a) /\ w.http[a] = None
  BY Zenon, <1>1, <1>6 DEF Hole
<1>8. Hole(x, {a})
  <2>1. /\ x.next <= MaxActors /\ x.cur = None /\ Distinct(x.queue)
        /\ ~Within(x.queue, Root) /\ g[Root] = "runnable"
    BY Zenon, <1>0, <1>1, <1>4, <1>5, <1>6 DEF Hole
  <2>2. ASSUME NEW b \in Ids
        PROVE  /\ b # a => /\ b # Root \/ x.call = "drive" =>
                                  (Within(x.queue, b) <=> g[b] = "runnable")
                           /\ g[b] = "blocked" /\ x.http[b] = None => x.mbox[b] = <<>>
               /\ g[b] = "none" <=> b >= x.next
               /\ x.http[b] # None => g[b] = "blocked"
    <3>1. CASE b = a
      BY Zenon, <1>1, <1>4, <1>5, <1>7, <3>1 DEF Hole
    <3>2. CASE b # a
      BY <1>1, <1>4, <1>5, <3>2 DEF Hole
    <3> QED BY Zenon, <3>1, <3>2
  <2>3. ~Within(x.queue, a) /\ x.http[a] = None /\ g[a] # "none"
    BY Zenon, <1>4, <1>5, <1>7
  <2> QED BY Zenon, <1>5, <1>6, <2>1, <2>2, <2>3 DEF Hole
<1>9. {a} \ {a} = {}
  BY Zenon
<1>10. Hole(z, {})
  BY <1>4, <1>5, <1>8, <1>9, EnqueueHole
<1>11. z.handle = x.handle /\ z.next = x.next /\ z.http = x.http /\ z.calls = x.calls
       /\ z.ret = x.ret
  BY Zenon, <1>5, EnqueueFields
<1> HIDE DEF z
<1>12. Blank(z) /\ Grows(u, z) /\ Ends(u, z)
  BY <1>1, <1>5, <1>11 DEF Blank, Grows, Ends
<1> QED BY Zenon, <1>1, <1>3, <1>5, <1>10, <1>11, <1>12, Unsettled DEF Steps

\* Arming the root and entering a drive keeps the scheduler sound.
LEMMA DrivenSound ==
  ASSUME NEW u, Sound(u), u.call = None
  PROVE  Steps(u, Driven(u)) /\ Driven(u).http = u.http /\ Driven(u).calls = u.calls + 1
<1> DEFINE w == Called(u)
           x == [w EXCEPT !.call = "drive"]
           z == Ready(x, Root, [op |-> "armed"])
<1>0. Root \in Ids /\ None # "drive"
  BY DetAssumption DEF Root, Ids
<1>1. /\ Hole(w, {}) /\ Blank(w) /\ Grows(u, w) /\ w.http = u.http
      /\ w.calls = u.calls + 1 /\ w.call = None /\ w.ret = None
  BY Zenon, CalledFields
<1>2. Driven(u) = z
  BY Zenon DEF Driven
<1> HIDE DEF w
<1>3. w \in Schedulers
  BY Zenon, <1>1 DEF Hole
<1>4. /\ x \in Schedulers /\ x.next = w.next /\ x.status = w.status /\ x.queue = w.queue
      /\ x.mbox = w.mbox /\ x.handle = w.handle /\ x.http = w.http /\ x.cur = w.cur
      /\ x.call = "drive" /\ x.calls = w.calls /\ x.ret = w.ret
  BY Zenon, <1>3 DEF Schedulers
<1> HIDE DEF x
<1>5. Hole(x, {Root})
  BY <1>0, <1>1, <1>4 DEF Hole
<1>6. [op |-> "armed"] \in Seen
  BY Zenon DEF Seen
<1>7. Served(x, z)
  BY Zenon, <1>5, <1>6, AnsweredHole
<1> HIDE DEF z
<1>8. Blank(x) /\ Grows(u, x)
  BY Zenon, <1>1, <1>4 DEF Blank, Grows
<1>9. Sound(z) /\ z.http = x.http /\ z.calls = x.calls /\ Grows(x, z) /\ Ends(x, z)
  BY Zenon, <1>7, <1>8, ServedSound
<1>11. \/ z.ret = None
       \/ z.call = None /\ z.ret \in {"done", "exn"}
  BY Zenon, <1>1, <1>4, <1>9 DEF Ends
<1>10. Grows(u, z) /\ Ends(u, z)
  BY Zenon, <1>8, <1>9, <1>11 DEF Grows, Ends
<1> QED BY Zenon, <1>1, <1>2, <1>4, <1>9, <1>10 DEF Steps

\* Entering a run keeps the scheduler sound.
LEMMA EnteredSound ==
  ASSUME NEW u, Sound(u), u.call = None
  PROVE  Steps(u, Entered(u)) /\ Entered(u).http = u.http /\ Entered(u).calls = u.calls + 1
<1> DEFINE w == Called(u)
           x == [w EXCEPT !.call = "run"]
<1>0. None # "drive"
  BY Zenon, DetAssumption
<1>1. /\ Hole(w, {}) /\ Blank(w) /\ Grows(u, w) /\ w.http = u.http
      /\ w.calls = u.calls + 1 /\ w.call = None /\ w.ret = None
  BY Zenon, CalledFields
<1>2. Entered(u) = x
  BY Zenon DEF Entered
<1> HIDE DEF w
<1>3. w \in Schedulers
  BY Zenon, <1>1 DEF Hole
<1>4. /\ x \in Schedulers /\ x.next = w.next /\ x.status = w.status /\ x.queue = w.queue
      /\ x.mbox = w.mbox /\ x.handle = w.handle /\ x.http = w.http /\ x.cur = w.cur
      /\ x.call = "run" /\ x.calls = w.calls /\ x.ret = w.ret
  BY Zenon, <1>3 DEF Schedulers
<1> HIDE DEF x
<1>5. Hole(x, {})
  BY <1>0, <1>1, <1>4 DEF Hole
<1>6. Blank(x) /\ Grows(u, x) /\ Ends(u, x)
  BY Zenon, <1>1, <1>4 DEF Blank, Grows, Ends
<1> QED BY Zenon, <1>1, <1>2, <1>4, <1>5, <1>6, Unsettled DEF Steps

\* Injecting a message keeps the scheduler sound.
LEMMA InjectedSound ==
  ASSUME NEW u, Sound(u), u.call = None, NEW a \in Ids
  PROVE  /\ Steps(u, Injected(u, a)) /\ Injected(u, a).http = u.http
         /\ Injected(u, a).calls = u.calls + 1
<1> DEFINE w == Called(u)
           m == [payload |-> Injection(u), caps |-> <<>>]
           z == Deliver(w, a, m)
<1>1. /\ Hole(w, {}) /\ Blank(w) /\ Grows(u, w) /\ w.http = u.http
      /\ w.calls = u.calls + 1 /\ w.ret = None
  BY Zenon, CalledFields
<1>2. m \in Messages
  <2>1. u.calls \in Nat /\ <<>> \in Seq(Ids)
    BY DEF Sound, Schedulers
  <2> QED BY Zenon, <2>1 DEF Messages, Payloads, Injection
<1>3. Injected(u, a) = z
  BY Zenon DEF Injected
<1>4. AllRun(w, {})
  BY Zenon DEF AllRun
<1> HIDE DEF w, m
<1>5. Hole(z, {}) /\ Keeps(w, z)
  BY Zenon, <1>1, <1>2, <1>4, DeliverHole
<1> HIDE DEF z
<1>6. Blank(z) /\ Grows(w, z) /\ z.http = w.http /\ z.calls = w.calls /\ Ends(w, z)
  BY Zenon, <1>1, <1>5 DEF Keeps
<1>7. Grows(u, z) /\ Ends(u, z)
  BY Zenon, <1>1, <1>6 DEF Grows, Ends
<1> QED BY Zenon, <1>1, <1>3, <1>5, <1>6, <1>7, Unsettled DEF Steps

\* A new scheduler is sound.
LEMMA FreshSound == Sound(Fresh) /\ Fresh.calls = 0 /\ \A a \in Ids : Fresh.http[a] = None
<1>0. Root \in Ids /\ None # "drive" /\ Boot \in Nat /\ MaxActors \in Nat
      /\ Boot + 1 <= MaxActors /\ Ids = 0..(MaxActors - 1)
  BY DetAssumption DEF Root, Ids
<1> DEFINE w == Fresh
<1>1. /\ w.next = Boot + 1 /\ w.queue = <<>> /\ w.cur = None /\ w.call = None
      /\ w.calls = 0 /\ w.ret = None
      /\ w.status = [a \in Ids |-> IF a = Root THEN "runnable"
                                   ELSE IF a <= Boot THEN "new" ELSE "none"]
      /\ w.mbox = [a \in Ids |-> <<>>]
      /\ w.handle = [a \in Ids |-> IF a <= Boot THEN <<a>> ELSE <<>>]
      /\ w.http = [a \in Ids |-> None]
      /\ w.hist = [a \in Ids |-> <<>>]
  BY Zenon DEF Fresh
<1>2. w.status \in [Ids -> Statuses] /\ w.http \in [Ids -> Args \cup {None}]
  BY Zenon, <1>1 DEF Statuses
<1>3. /\ w.mbox \in [Ids -> Seq(Messages)] /\ w.hist \in [Ids -> Seq(Seen)]
      /\ w.queue \in Seq(Ids)
  BY <1>1
<1>4. w.handle \in [Ids -> Seq(Ids \cup {None})]
  <2>1. <<>> \in Seq(Ids \cup {None}) /\ \A a \in Ids : <<a>> \in Seq(Ids \cup {None})
    OBVIOUS
  <2> QED BY Zenon, <1>1, <2>1
<1>5. w \in Schedulers
  <2>1. w = [next |-> w.next, status |-> w.status, queue |-> w.queue, mbox |-> w.mbox,
             handle |-> w.handle, http |-> w.http, hist |-> w.hist, cur |-> w.cur,
             call |-> w.call, calls |-> w.calls, ret |-> w.ret]
    BY Zenon DEF Fresh
  <2>2. /\ w.next \in Nat /\ w.calls \in Nat /\ w.cur \in Ids \cup {None}
        /\ w.call \in {None, "drive", "run"}
        /\ w.ret \in {None, "done", "exn", "deadlock", "quiescent", "idle"}
    BY <1>0, <1>1
  <2> HIDE DEF w
  <2> QED BY ONLY Zenon, <1>2, <1>3, <1>4, <2>1, <2>2 DEF Schedulers
<1> HIDE DEF w
<1>6. \A b : ~Within(w.queue, b)
  BY <1>1 DEF Within
<1>7. Distinct(w.queue)
  BY <1>1 DEF Distinct
<1>8. \A b \in Ids : w.status[b] = "none" <=> b >= w.next
  BY <1>0, <1>1 DEF Root
<1>9. \A b \in Ids : /\ w.http[b] = None /\ w.mbox[b] = <<>>
                     /\ b # Root => w.status[b] # "runnable"
                     /\ w.status[b] # "blocked"
  BY Zenon, <1>1
<1>10. w.status[Root] = "runnable"
  BY Zenon, <1>0, <1>1
<1>11. Hole(w, {})
  BY Zenon, <1>0, <1>1, <1>5, <1>6, <1>7, <1>8, <1>9, <1>10 DEF Hole
<1>12. Blank(w)
  BY <1>0, <1>1 DEF Blank
<1> QED BY Zenon, <1>1, <1>9, <1>11, <1>12, Unsettled DEF w

------------------------------------------------------------------------------
\* The executor as a whole.

\* An actor is parked on a Fetch exactly while its transfer is in flight or in the
\* completion FIFO, once.
Transfers(h, fl, dn) ==
  /\ fl \in SUBSET Ids /\ dn \in Seq(Ids)
  /\ Distinct(dn) /\ \A i \in DOMAIN dn : dn[i] \notin fl
  /\ \A a \in Ids : h[a] # None <=> a \in fl \/ Within(dn, a)

Programs(P) == \A k \in DOMAIN P : P[k] \in Acts

\* The types of what is not the scheduler.
Typed ==
  /\ log \in Seq(Events) /\ cursor \in 0..Len(log)
  /\ script \in Seq(Calls) /\ aborted \in BOOLEAN /\ Programs(prog) /\ pos \in Nat

Inv ==
  /\ phase \in {"record", "replay", "unreadable"}
  /\ Typed
  /\ Sound(s)
  /\ Transfers(s.http, inflight, done)
  /\ phase = "replay" => done = <<>>
  /\ s.call # None => s.ret = None

\* What HandlesNeverRetarget and DeadlockIsReal say of a step.
Kept == phase' = phase => Grows(s, s')
Real ==
  s.call = "drive" /\ s'.ret = "deadlock" =>
    /\ s.status[Root] = "blocked"
    /\ \A a \in Ids : /\ s.status[a] \in {"none", "new", "halted", "crashed", "blocked"}
                      /\ s.status[a] = "blocked" => s.http[a] = None /\ s.mbox[a] = <<>>
    /\ inflight = {} /\ done = <<>>

Good == Inv' /\ Kept /\ Real

\* A step of the scheduler that leaves the transfers consistent is good.
LEMMA Moves ==
  ASSUME Inv, Steps(s, s'), Transfers(s'.http, inflight', done'), Typed',
         phase' = phase, done' = done \/ phase = "record"
  PROVE  Good
<1>1. Sound(s') /\ Grows(s, s') /\ Ends(s, s')
  BY Zenon DEF Steps
<1>2. s'.call # None => s'.ret = None
  BY Zenon, <1>1 DEF Ends, Inv
<1>3. ~(s.call = "drive" /\ s'.ret = "deadlock")
  <2>1. None # "drive" /\ None # "deadlock"
    BY Zenon, DetAssumption
  <2> QED BY Zenon, <1>1, <2>1 DEF Ends, Inv
<1>4. phase' = "replay" => done' = <<>>
  BY Zenon DEF Inv
<1>5. Inv'
  BY Zenon, <1>1, <1>2, <1>4 DEF Inv
<1> QED BY Zenon, <1>1, <1>3, <1>5 DEF Good, Kept, Real

\* A step that leaves the scheduler alone is good.
LEMMA Stays ==
  ASSUME Inv, s' = s, Transfers(s'.http, inflight', done'), Typed',
         phase' = phase, done' = done \/ phase = "record"
  PROVE  Good
<1>1. Steps(s, s')
  BY Zenon DEF Steps, Ends, Grows, Inv
<1> QED BY Zenon, <1>1, Moves

\* What an event changes.
LEMMA RecordTyped ==
  ASSUME Inv, NEW e \in Events, NEW u, Record(e, u), Programs(prog)', script' \in Seq(Calls)
  PROVE  Typed' /\ s' = u /\ phase' = phase /\ aborted' = aborted
<1>1. log \in Seq(Events) /\ cursor \in 0..Len(log) /\ pos \in Nat /\ aborted \in BOOLEAN
  BY Zenon DEF Inv, Typed
<1>2. /\ log' \in Seq(Events) /\ cursor' \in 0..Len(log')
  BY <1>1 DEF Record
<1>3. pos' \in Nat /\ s' = u /\ phase' = phase /\ aborted' = aborted
  BY <1>1 DEF Record, Step
<1> QED BY Zenon, <1>1, <1>2, <1>3 DEF Typed

\* What a silent step changes.
LEMMA SilentTyped ==
  ASSUME Inv, NEW u, Silent(u), Programs(prog)', script' \in Seq(Calls)
  PROVE  Typed' /\ s' = u /\ phase' = phase /\ aborted' = aborted
<1>1. log \in Seq(Events) /\ cursor \in 0..Len(log) /\ pos \in Nat /\ aborted \in BOOLEAN
  BY Zenon DEF Inv, Typed
<1>2. pos' \in Nat /\ s' = u /\ phase' = phase /\ aborted' = aborted
  BY <1>1 DEF Silent, Step
<1>3. log' = log /\ cursor' = cursor
  BY Zenon DEF Silent
<1> QED BY Zenon, <1>1, <1>2, <1>3 DEF Typed

\* What consuming an event changes.
LEMMA ConsumeTyped ==
  ASSUME Inv, NEW u, Consume(u), cursor < Len(log), Programs(prog)',
         script' \in Seq(Calls)
  PROVE  Typed' /\ s' = u /\ phase' = phase /\ aborted' = aborted
<1>1. log \in Seq(Events) /\ cursor \in 0..Len(log) /\ pos \in Nat /\ aborted \in BOOLEAN
  BY Zenon DEF Inv, Typed
<1>2. pos' \in Nat /\ s' = u /\ phase' = phase /\ aborted' = aborted
  BY <1>1 DEF Consume, Step
<1>3. Len(log) \in Nat /\ log' = log /\ cursor' = cursor + 1
  BY <1>1 DEF Consume
<1>4. cursor' \in 0..Len(log')
  BY <1>1, <1>3
<1> QED BY Zenon, <1>1, <1>2, <1>3, <1>4 DEF Typed

\* What a failed check changes.
LEMMA DivergeTyped ==
  ASSUME Inv, Diverge, Programs(prog)', script' \in Seq(Calls)
  PROVE  Typed' /\ s' = s /\ phase' = phase
BY Zenon DEF Diverge, Inv, Typed

\* The program only grows, by acts.
LEMMA DoesTyped ==
  ASSUME Inv, NEW o \in Acts, Does(o)
  PROVE  Programs(prog)'
BY Zenon DEF Does, Inv, Typed, Programs

\* Whatever an actor does is an act.
LEMMA OptionsTyped ==
  ASSUME Inv, s.cur # None, NEW o \in Options
  PROVE  o \in Acts
<1>1. s.cur \in Ids /\ s.handle[s.cur] \in Seq(Ids \cup {None})
  BY Zenon DEF Inv, Sound, Schedulers
<1>2. Len(s.handle[s.cur]) \in Nat
  BY <1>1
<1>3. CASE Reached \in DOMAIN prog
  BY Zenon, <1>3 DEF Options, Inv, Typed, Programs
<1>4. CASE Reached \notin DOMAIN prog
  <2>1. o \in Choices(s)
    BY Zenon, <1>4 DEF Options
  <2> DEFINE held == 0..Len(s.handle[s.cur])
             rows == {<<>>} \cup {<<h>> : h \in held}
  <2>2. held \subseteq Nat
    BY <1>2
  <2>3. rows \subseteq Seq(Nat)
    <3>1. \A h \in Nat : <<h>> \in Seq(Nat)
      OBVIOUS
    <3>2. <<>> \in Seq(Nat)
      OBVIOUS
    <3> QED BY Zenon, <2>2, <3>1, <3>2
  <2>4. \/ o = [op |-> "done"]
        \/ o \in [op : Ops \cap Plain]
        \/ o \in [op : Ops \cap (Effects \cup {"fetch"}), arg : Args]
        \/ o \in [op : Ops \cap {"send", "close"}, to : held]
        \/ o \in [op : Ops \cap {"sendcaps"}, to : held, caps : rows]
    BY Zenon, <2>1 DEF Choices
  <2> HIDE DEF held, rows
  <2>5. CASE o = [op |-> "done"]
    BY Zenon, <2>5 DEF Acts, Plain
  <2>6. CASE o \in [op : Ops \cap Plain]
    BY Zenon, <2>6 DEF Acts
  <2>7. CASE o \in [op : Ops \cap (Effects \cup {"fetch"}), arg : Args]
    BY Zenon, <2>7 DEF Acts
  <2>8. CASE o \in [op : Ops \cap {"send", "close"}, to : held]
    BY Zenon, <2>2, <2>8 DEF Acts
  <2>9. CASE o \in [op : Ops \cap {"sendcaps"}, to : held, caps : rows]
    BY Zenon, <2>2, <2>3, <2>9 DEF Acts
  <2> QED BY Zenon, <2>4, <2>5, <2>6, <2>7, <2>8, <2>9
<1> QED BY Zenon, <1>3, <1>4
\* An answer in the log is a result.
LEMMA AnswerTyped ==
  ASSUME Inv, cursor < Len(log), log[cursor + 1].kind # "inject"
  PROVE  /\ log[cursor + 1].data \in Results /\ log[cursor + 1].actor \in Ids
<1>1. log \in Seq(Events) /\ cursor \in 0..Len(log)
  BY Zenon DEF Inv, Typed
<1>2. cursor + 1 \in 1..Len(log)
  BY <1>1
<1>3. log[cursor + 1] \in Events
  BY <1>1, <1>2
<1> QED BY Zenon, <1>3 DEF Events

\* A request to the host has an argument, and what it logs is an event.
LEMMA EventTyped ==
  ASSUME NEW o \in Acts, o.op \in Effects \cup {"fetch"}, NEW a \in Ids, NEW r \in Results
  PROVE  /\ o.arg \in Args
         /\ o.op \in Effects => Event(o.op, a, o.arg, r) \in Events
         /\ Event("FetchV", a, o.arg, r) \in Events
<1>1. o.arg \in Args
  BY Zenon DEF Acts, Plain, Effects
<1> QED BY Zenon, <1>1 DEF Event, Events

-----------------------------------------------------------------------------
(***************************************************************************)
(* Every step is good.                                                     *)
(***************************************************************************)

\* A slice that asks nothing of the outside.
LEMMA SliceGood ==
  ASSUME Inv, Slice
  PROVE  Good
<1>1. PICK o \in Options : /\ Inner(o) /\ (o.op = "spawn" => s.next < MaxActors)
                           /\ Does(o) /\ Silent(EndSlice(s, o))
  BY Zenon DEF Slice, Inner
<1>2. s.cur # None /\ inflight' = inflight /\ done' = done /\ script' = script
  BY Zenon DEF Slice
<1>3. o \in Acts
  BY Zenon, <1>2, OptionsTyped
<1>4. Sound(s) /\ Transfers(s.http, inflight, done) /\ script \in Seq(Calls)
  BY Zenon DEF Inv, Typed
<1>5. Steps(s, EndSlice(s, o)) /\ EndSlice(s, o).http = s.http
  BY Zenon, <1>1, <1>2, <1>3, <1>4, EndSliceSound
<1>6. Typed' /\ s' = EndSlice(s, o) /\ phase' = phase
  BY Zenon, <1>1, <1>2, <1>3, <1>4, DoesTyped, SilentTyped
<1> QED BY Zenon, <1>2, <1>4, <1>5, <1>6, Moves

\* A host effect.
LEMMA HostEffectGood ==
  ASSUME Inv, HostEffect
  PROVE  Good
<1>1. PICK o \in Options :
        /\ o.op \in Effects /\ Does(o)
        /\ \/ \E r \in Results :
                Record(Event(o.op, s.cur, o.arg, r), Answer(s, o, r))
           \/ /\ Agrees(o.op, s.cur, o.arg)
              /\ Consume(Answer(s, o, log[cursor + 1].data))
           \/ Diverge
  BY Zenon DEF HostEffect
<1>2. s.cur # None /\ inflight' = inflight /\ done' = done /\ script' = script
  BY Zenon DEF HostEffect
<1>3. o \in Acts
  BY Zenon, <1>2, OptionsTyped
<1>4. Sound(s) /\ Transfers(s.http, inflight, done) /\ script \in Seq(Calls) /\ s.cur \in Ids
  BY Zenon, <1>2 DEF Inv, Typed, Sound, Schedulers
<1>5. Programs(prog)' /\ script' \in Seq(Calls)
  BY Zenon, <1>1, <1>2, <1>3, <1>4, DoesTyped
<1>6. CASE \E r \in Results : Record(Event(o.op, s.cur, o.arg, r), Answer(s, o, r))
  <2>1. PICK r \in Results : Record(Event(o.op, s.cur, o.arg, r), Answer(s, o, r))
    BY Zenon, <1>6
  <2>2. Event(o.op, s.cur, o.arg, r) \in Events
    BY Zenon, <1>1, <1>3, <1>4, EventTyped
  <2>3. Steps(s, Answer(s, o, r)) /\ Answer(s, o, r).http = s.http
    BY Zenon, <1>2, <1>3, <1>4, AnswerSound
  <2>4. Typed' /\ s' = Answer(s, o, r) /\ phase' = phase
    BY Zenon, <1>5, <2>1, <2>2, RecordTyped
  <2> QED BY Zenon, <1>2, <1>4, <2>3, <2>4, Moves
<1>7. CASE Agrees(o.op, s.cur, o.arg) /\ Consume(Answer(s, o, log[cursor + 1].data))
  <2> DEFINE r == log[cursor + 1].data
  <2>1. cursor < Len(log) /\ log[cursor + 1].kind # "inject"
    BY Zenon, <1>1, <1>7 DEF Agrees, Effects
  <2>2. r \in Results
    BY Zenon, <2>1, AnswerTyped
  <2> HIDE DEF r
  <2>3. Steps(s, Answer(s, o, r)) /\ Answer(s, o, r).http = s.http
    BY Zenon, <1>2, <1>3, <1>4, <2>2, AnswerSound
  <2>4. Typed' /\ s' = Answer(s, o, r) /\ phase' = phase
    BY Zenon, <1>5, <1>7, <2>1, ConsumeTyped DEF r
  <2> QED BY Zenon, <1>2, <1>4, <2>3, <2>4, Moves
<1>8. CASE Diverge
  <2>1. Typed' /\ s' = s /\ phase' = phase
    BY Zenon, <1>5, <1>8, DivergeTyped
  <2> QED BY Zenon, <1>2, <1>4, <2>1, Stays
<1> QED BY Zenon, <1>1, <1>6, <1>7, <1>8

\* A failing direct effect.
LEMMA HostErrorGood ==
  ASSUME Inv, HostError
  PROVE  Good
<1>1. PICK o \in Options : Does(o) /\ Silent(Crash(Left(s, o), s.cur))
  BY Zenon DEF HostError, Left
<1>2. s.cur # None /\ inflight' = inflight /\ done' = done /\ script' = script
  BY Zenon DEF HostError
<1>3. o \in Acts /\ o \in Seen
  BY Zenon, <1>2, OptionsTyped DEF Seen
<1>4. Sound(s) /\ Transfers(s.http, inflight, done) /\ script \in Seq(Calls)
  BY Zenon DEF Inv, Typed
<1> DEFINE w == Left(s, o)
           z == Crash(w, s.cur)
<1>5. /\ Hole(w, {s.cur}) /\ w.status[s.cur] = "runnable" /\ w.http = s.http
      /\ Blank(w) /\ Grows(s, w) /\ w.call = s.call /\ w.ret = s.ret
  BY Zenon, <1>2, <1>3, <1>4, LeftFields
<1>6. Typed' /\ s' = z /\ phase' = phase
  BY Zenon, <1>1, <1>2, <1>3, <1>4, DoesTyped, SilentTyped
<1> HIDE DEF w
<1>7. Served(w, z)
  BY Zenon, <1>5, EndedHole
<1> HIDE DEF z
<1>8. Sound(z) /\ z.http = w.http /\ Grows(w, z) /\ Ends(w, z)
  BY Zenon, <1>5, <1>7, ServedSound
<1>9. Steps(s, z) /\ z.http = s.http
  BY Zenon, <1>5, <1>8 DEF Steps, Grows, Ends
<1> QED BY Zenon, <1>2, <1>4, <1>6, <1>9, Moves

\* A transfer begins.
LEMMA TransferBegins ==
  ASSUME NEW h \in [Ids -> Args \cup {None}], NEW fl, NEW dn, Transfers(h, fl, dn),
         NEW a \in Ids, h[a] = None, NEW x \in Args
  PROVE  Transfers([h EXCEPT ![a] = x], fl \cup {a}, dn)
<1>1. x # None
  BY Zenon, DetAssumption
<1>2. ~Within(dn, a)
  BY Zenon DEF Transfers
<1> QED BY Zenon, <1>1, <1>2 DEF Transfers, Within

\* A transfer is over and waits in the completion FIFO.
LEMMA TransferEnds ==
  ASSUME NEW h, NEW fl, NEW dn, Transfers(h, fl, dn), NEW a \in fl
  PROVE  Transfers(h, fl \ {a}, Append(dn, a))
<1> DEFINE q == Append(dn, a)
<1>1. dn \in Seq(Ids) /\ a \in Ids /\ ~Within(dn, a)
  BY Zenon DEF Transfers, Within
<1>2. /\ q \in Seq(Ids) /\ \A b : Within(q, b) <=> Within(dn, b) \/ b = a
      /\ Distinct(dn) /\ ~Within(dn, a) => Distinct(q)
  BY Zenon, <1>1, Appended
<1> HIDE DEF q
<1>6. \A b : Within(dn, b) => b \notin fl
  BY Zenon DEF Transfers, Within
<1>3. \A b : Within(q, b) => b \notin fl \ {a}
  BY Zenon, <1>2, <1>6
<1>4. \A i \in DOMAIN q : q[i] \notin fl \ {a}
  BY Zenon, <1>3 DEF Within
<1>5. \A b \in Ids : h[b] # None <=> b \in fl \ {a} \/ Within(q, b)
  BY Zenon, <1>2 DEF Transfers
<1> QED BY Zenon, <1>1, <1>2, <1>4, <1>5 DEF Transfers, q

\* The oldest completion is deposited.
LEMMA TransferDeposited ==
  ASSUME NEW h \in [Ids -> Args \cup {None}], NEW fl, NEW dn, Transfers(h, fl, dn),
         dn # <<>>
  PROVE  /\ Transfers([h EXCEPT ![Head(dn)] = None], fl, Tail(dn))
         /\ Head(dn) \in Ids /\ h[Head(dn)] # None
<1> DEFINE a == Head(dn)
           q == Tail(dn)
<1>1. dn \in Seq(Ids) /\ Distinct(dn)
  BY Zenon DEF Transfers
<1>2. /\ q \in Seq(Ids) /\ a \in Ids /\ Within(dn, a)
      /\ \A b : Within(q, b) \/ b = a <=> Within(dn, b)
      /\ Distinct(dn) => Distinct(q) /\ ~Within(q, a)
  BY Zenon, <1>1, Removed
<1> HIDE DEF a, q
<1>3. \A b : Within(dn, b) => b \notin fl
  BY Zenon DEF Transfers, Within
<1>4. \A i \in DOMAIN q : q[i] \notin fl
  BY Zenon, <1>2, <1>3 DEF Within
<1>5. \A b \in Ids : [h EXCEPT ![a] = None][b] # None <=> b \in fl \/ Within(q, b)
  BY Zenon, <1>1, <1>2, <1>3 DEF Transfers
<1>6. h[a] # None
  BY Zenon, <1>2 DEF Transfers
<1> QED BY Zenon, <1>1, <1>2, <1>4, <1>5, <1>6 DEF Transfers, a, q

\* In a replay a stub is removed.
LEMMA TransferReplayed ==
  ASSUME NEW h \in [Ids -> Args \cup {None}], NEW fl, Transfers(h, fl, <<>>), NEW a \in Ids
  PROVE  Transfers([h EXCEPT ![a] = None], fl \ {a}, <<>>)
BY DEF Transfers, Within

\* A Fetch.
LEMMA FetchGood ==
  ASSUME Inv, Fetch
  PROVE  Good
<1>1. PICK o \in Options :
        /\ o.op = "fetch" /\ Does(o)
        /\ \/ /\ \E r \in Results :
                   Record(Event("FetchV", s.cur, o.arg, r), Refuse(s, o, r))
              /\ inflight' = inflight
           \/ /\ RefusalNext /\ Consume(Refuse(s, o, log[cursor + 1].data))
              /\ inflight' = inflight
           \/ Diverge /\ inflight' = inflight
           \/ Silent(Park(s, o)) /\ inflight' = inflight \cup {s.cur}
  BY Zenon DEF Fetch
<1>2. s.cur # None /\ done' = done /\ script' = script
  BY Zenon DEF Fetch
<1>3. o \in Acts
  BY Zenon, <1>2, OptionsTyped
<1>4. /\ Sound(s) /\ Transfers(s.http, inflight, done) /\ script \in Seq(Calls)
      /\ s.cur \in Ids /\ s.http \in [Ids -> Args \cup {None}]
  BY Zenon, <1>2 DEF Inv, Typed, Sound, Schedulers
<1>5. Programs(prog)' /\ script' \in Seq(Calls)
  BY Zenon, <1>1, <1>2, <1>3, <1>4, DoesTyped
<1>6. CASE /\ \E r \in Results :
                 Record(Event("FetchV", s.cur, o.arg, r), Refuse(s, o, r))
           /\ inflight' = inflight
  <2>1. PICK r \in Results : Record(Event("FetchV", s.cur, o.arg, r), Refuse(s, o, r))
    BY Zenon, <1>6
  <2>2. Event("FetchV", s.cur, o.arg, r) \in Events
    BY Zenon, <1>1, <1>3, <1>4, EventTyped
  <2>3. Steps(s, Refuse(s, o, r)) /\ Refuse(s, o, r).http = s.http
    BY Zenon, <1>2, <1>3, <1>4, RefuseSound
  <2>4. Typed' /\ s' = Refuse(s, o, r) /\ phase' = phase
    BY Zenon, <1>5, <2>1, <2>2, RecordTyped
  <2> QED BY Zenon, <1>2, <1>4, <1>6, <2>3, <2>4, Moves
<1>7. CASE /\ RefusalNext /\ Consume(Refuse(s, o, log[cursor + 1].data))
           /\ inflight' = inflight
  <2> DEFINE r == log[cursor + 1].data
  <2>1. cursor < Len(log) /\ log[cursor + 1].kind # "inject"
    BY Zenon, <1>7 DEF RefusalNext
  <2>2. r \in Results
    BY Zenon, <2>1, AnswerTyped
  <2> HIDE DEF r
  <2>3. Steps(s, Refuse(s, o, r)) /\ Refuse(s, o, r).http = s.http
    BY Zenon, <1>2, <1>3, <1>4, <2>2, RefuseSound
  <2>4. Typed' /\ s' = Refuse(s, o, r) /\ phase' = phase
    BY Zenon, <1>5, <1>7, <2>1, ConsumeTyped DEF r
  <2> QED BY Zenon, <1>2, <1>4, <1>7, <2>3, <2>4, Moves
<1>8. CASE Diverge /\ inflight' = inflight
  <2>1. Typed' /\ s' = s /\ phase' = phase
    BY Zenon, <1>5, <1>8, DivergeTyped
  <2> QED BY Zenon, <1>2, <1>4, <1>8, <2>1, Stays
<1>9. CASE Silent(Park(s, o)) /\ inflight' = inflight \cup {s.cur}
  <2>1. /\ Steps(s, Park(s, o)) /\ o.arg \in Args
        /\ Park(s, o).http = [s.http EXCEPT ![s.cur] = o.arg]
    BY Zenon, <1>1, <1>2, <1>3, <1>4, ParkSound
  <2>2. Typed' /\ s' = Park(s, o) /\ phase' = phase
    BY Zenon, <1>5, <1>9, SilentTyped
  <2>3. s.http[s.cur] = None
    <3>1. [op |-> "armed"] \in Seen
      BY Zenon DEF Seen
    <3>2. Hole(Left(s, [op |-> "armed"]), {s.cur}) /\ Left(s, [op |-> "armed"]).http = s.http
      BY Zenon, <1>2, <1>4, <3>1, LeftFields
    <3> QED BY Zenon, <3>2 DEF Hole
  <2>4. Transfers([s.http EXCEPT ![s.cur] = o.arg], inflight \cup {s.cur}, done)
    BY Zenon, <1>4, <2>1, <2>3, TransferBegins
  <2> QED BY Zenon, <1>2, <1>9, <2>1, <2>2, <2>4, Moves
<1> QED BY Zenon, <1>1, <1>6, <1>7, <1>8, <1>9

\* A transfer that is over.
LEMMA HarvestGood ==
  ASSUME Inv, NEW a \in Ids, Harvest(a)
  PROVE  Good
<1>1. /\ phase = "record" /\ phase' = phase /\ s' = s /\ a \in inflight
      /\ inflight' = inflight \ {a} /\ done' = Append(done, a)
  BY Zenon DEF Harvest
<1>2. Typed'
  BY Zenon DEF Harvest, Inv, Typed, Programs
<1>3. Transfers(s'.http, inflight', done')
  BY Zenon, <1>1, TransferEnds DEF Inv
<1> QED BY Zenon, <1>1, <1>2, <1>3, Stays

\* The loop takes the head of the queue.
LEMMA ScheduleGood ==
  ASSUME Inv, Schedule
  PROVE  Good
<1>1. /\ s.call # None /\ s.cur = None /\ s.queue # <<>> /\ Silent(Dequeue(s))
      /\ inflight' = inflight /\ done' = done /\ prog' = prog /\ script' = script
  BY Zenon DEF Schedule
<1>2. Sound(s) /\ Transfers(s.http, inflight, done) /\ script \in Seq(Calls) /\ Programs(prog)
  BY Zenon DEF Inv, Typed
<1>3. Steps(s, Dequeue(s)) /\ Dequeue(s).http = s.http
  BY Zenon, <1>1, <1>2, DequeueSound
<1>4. Programs(prog)'
  BY Zenon, <1>1, <1>2 DEF Programs
<1>5. Typed' /\ s' = Dequeue(s) /\ phase' = phase
  BY Zenon, <1>1, <1>2, <1>4, SilentTyped
<1> QED BY Zenon, <1>1, <1>2, <1>3, <1>5, Moves

\* A completion is deposited.
LEMMA DepositGood ==
  ASSUME Inv, Deposit
  PROVE  Good
<1> DEFINE a == Head(done)
<1>1. PICK r \in Results : Record(Event("Fetch", a, s.http[a], r), Resume(s, a, r))
  BY Zenon DEF Deposit
<1>2. /\ phase = "record" /\ s.cur = None /\ done # <<>> /\ done' = Tail(done)
      /\ inflight' = inflight /\ prog' = prog /\ script' = script
  BY Zenon DEF Deposit
<1>3. /\ Sound(s) /\ Transfers(s.http, inflight, done) /\ script \in Seq(Calls)
      /\ Programs(prog) /\ s.http \in [Ids -> Args \cup {None}]
  BY Zenon DEF Inv, Typed, Sound, Schedulers
<1>4. /\ Transfers([s.http EXCEPT ![a] = None], inflight, done')
      /\ a \in Ids /\ s.http[a] # None
  BY Zenon, <1>2, <1>3, TransferDeposited
<1> HIDE DEF a
<1>5. Event("Fetch", a, s.http[a], r) \in Events
  BY Zenon, <1>3, <1>4 DEF Event, Events
<1>6. Steps(s, Resume(s, a, r)) /\ Resume(s, a, r).http = [s.http EXCEPT ![a] = None]
  BY <1>2, <1>3, <1>4, ResumeSound
<1>7. Programs(prog)'
  BY Zenon, <1>2, <1>3 DEF Programs
<1>8. Typed' /\ s' = Resume(s, a, r) /\ phase' = phase
  BY Zenon, <1>1, <1>2, <1>3, <1>5, <1>7, RecordTyped
<1> QED BY Zenon, <1>2, <1>4, <1>6, <1>8, Moves

\* The replay deposits what the log says.
LEMMA RedepositGood ==
  ASSUME Inv, Redeposit
  PROVE  Good
<1>1. /\ phase = "replay" /\ s.cur = None /\ done' = done /\ prog' = prog
      /\ script' = script
  BY Zenon DEF Redeposit
<1>2. /\ Sound(s) /\ Transfers(s.http, inflight, done) /\ script \in Seq(Calls)
      /\ Programs(prog) /\ s.http \in [Ids -> Args \cup {None}] /\ done = <<>>
  BY Zenon, <1>1 DEF Inv, Typed, Sound, Schedulers
<1>3. Programs(prog)' /\ script' \in Seq(Calls)
  BY Zenon, <1>1, <1>2 DEF Programs
<1>4. CASE \E b \in Ids : s.http[b] # None /\ Agrees("Fetch", b, s.http[b])
  <2> DEFINE e == log[cursor + 1]
             a == e.actor
             r == e.data
  <2>1. Consume(Resume(s, a, r)) /\ inflight' = inflight \ {a}
    BY Zenon, <1>4 DEF Redeposit
  <2>2. PICK b \in Ids : s.http[b] # None /\ Agrees("Fetch", b, s.http[b])
    BY Zenon, <1>4
  <2>3. cursor < Len(log) /\ e.kind # "inject" /\ a = b
    BY Zenon, <2>2 DEF Agrees
  <2>4. r \in Results /\ a \in Ids /\ s.http[a] # None
    BY Zenon, <2>2, <2>3, AnswerTyped
  <2> HIDE DEF e, a, r
  <2>5. Steps(s, Resume(s, a, r)) /\ Resume(s, a, r).http = [s.http EXCEPT ![a] = None]
    BY <1>1, <1>2, <2>4, ResumeSound
  <2>6. Typed' /\ s' = Resume(s, a, r) /\ phase' = phase
    BY Zenon, <1>3, <2>1, <2>3, ConsumeTyped
  <2>7. Transfers([s.http EXCEPT ![a] = None], inflight \ {a}, <<>>)
    BY Zenon, <1>2, <2>4, TransferReplayed
  <2> QED BY Zenon, <1>1, <1>2, <2>1, <2>5, <2>6, <2>7, Moves
<1>5. CASE ~ \E b \in Ids : s.http[b] # None /\ Agrees("Fetch", b, s.http[b])
  <2>1. Diverge /\ inflight' = inflight
    BY Zenon, <1>5 DEF Redeposit
  <2>2. Typed' /\ s' = s /\ phase' = phase
    BY Zenon, <1>3, <2>1, DivergeTyped
  <2> QED BY Zenon, <1>1, <1>2, <2>1, <2>2, Stays
<1> QED BY Zenon, <1>4, <1>5

\* The loop stops.
LEMMA StopGood ==
  ASSUME Inv, Stop
  PROVE  Good
<1>1. /\ s.call # None /\ s.cur = None /\ s.queue = <<>> /\ Silent(Verdict(s))
      /\ inflight' = inflight /\ done' = done /\ prog' = prog /\ script' = script
      /\ \/ inflight = {} /\ done = <<>>
         \/ phase # "record" /\ \A a \in Ids : s.http[a] = None
  BY Zenon DEF Stop
<1>2. /\ Sound(s) /\ Transfers(s.http, inflight, done) /\ script \in Seq(Calls)
      /\ Programs(prog) /\ s \in Schedulers /\ QueueSound(s)
      /\ phase \in {"record", "replay", "unreadable"}
      /\ phase = "replay" => done = <<>>
  BY Zenon DEF Inv, Typed, Sound
<1>3. (\A a \in Ids : s.http[a] = None)
  BY <1>1, <1>2 DEF Transfers, Within
<1>4. Root \in Ids /\ None # "drive"
  BY DetAssumption DEF Root, Ids
<1>5. /\ Sound(Verdict(s)) /\ Grows(s, Verdict(s)) /\ Verdict(s).http = s.http
      /\ Verdict(s).call = None
  BY Zenon, <1>1, <1>2, <1>3, <1>4, VerdictSound
<1>6. Programs(prog)'
  BY Zenon, <1>1, <1>2 DEF Programs
<1>7. Typed' /\ s' = Verdict(s) /\ phase' = phase
  BY Zenon, <1>1, <1>2, <1>6, SilentTyped
<1>8. Inv'
  BY Zenon, <1>1, <1>2, <1>5, <1>7 DEF Inv
<1>9. \A a \in Ids : ~Live(s, a)
  BY <1>1, DetAssumption DEF Live, Queued, Ids
<1>10. \A a \in Ids : s.status[a] \in Statuses
  BY Zenon, <1>2 DEF Schedulers
<1>11. ASSUME s.call = "drive"
       PROVE  /\ s.status[Root] = "blocked"
              /\ \A a \in Ids :
                   /\ s.status[a] \in {"none", "new", "halted", "crashed", "blocked"}
                   /\ s.status[a] = "blocked" => s.http[a] = None /\ s.mbox[a] = <<>>
  BY Zenon, <1>2, <1>3, <1>4, <1>9, <1>10, <1>11 DEF QueueSound, Statuses
<1>12. inflight = {}
  BY Zenon, <1>2, <1>3 DEF Transfers
<1>13. s.call = "drive" => done = <<>>
  <2>1. \A a \in Ids : ~Within(done, a)
    BY Zenon, <1>2, <1>3 DEF Transfers
  <2>2. done \in Seq(Ids)
    BY Zenon, <1>2 DEF Transfers
  <2>3. done # <<>> => Head(done) \in Ids /\ Within(done, Head(done))
    BY Zenon, <2>2, Removed
  <2> QED BY Zenon, <2>1, <2>3
<1> QED BY Zenon, <1>5, <1>7, <1>8, <1>11, <1>12, <1>13 DEF Good, Kept, Real

\* A call of the embedder is a call, and the script grows by calls.
LEMMA EmbedderTyped ==
  ASSUME Inv, NEW c \in Calls, Embedder(c)
  PROVE  s.call = None /\ Callable(s, c) /\ script' \in Seq(Calls)
<1>1. script \in Seq(Calls)
  BY Zenon DEF Inv, Typed
<1> QED BY <1>1 DEF Embedder

\* The embedder starts an actor.
LEMMA StartGood ==
  ASSUME Inv, NEW a \in Ids, Start(a)
  PROVE  Good
<1>0. [op |-> "start", to |-> a] \in Calls
  BY Zenon DEF Calls
<1>1. /\ Silent(Started(s, a)) /\ inflight' = inflight /\ done' = done /\ prog' = prog
      /\ Embedder([op |-> "start", to |-> a])
  BY Zenon DEF Start
<1>2. /\ Sound(s) /\ Transfers(s.http, inflight, done) /\ Programs(prog)
  BY Zenon DEF Inv, Typed
<1>3. s.call = None /\ s.status[a] = "new" /\ script' \in Seq(Calls)
  BY Zenon, <1>0, <1>1, EmbedderTyped DEF Callable
<1>4. Steps(s, Started(s, a)) /\ Started(s, a).http = s.http
  BY Zenon, <1>2, <1>3, StartedSound
<1>5. Programs(prog)'
  BY Zenon, <1>1, <1>2 DEF Programs
<1>6. Typed' /\ s' = Started(s, a) /\ phase' = phase
  BY Zenon, <1>1, <1>3, <1>5, SilentTyped
<1> QED BY Zenon, <1>1, <1>2, <1>4, <1>6, Moves

\* The embedder enters a drive.
LEMMA DriveGood ==
  ASSUME Inv, Drive
  PROVE  Good
<1>0. [op |-> "drive"] \in Calls
  BY Zenon DEF Calls
<1>1. /\ Silent(Driven(s)) /\ inflight' = inflight /\ done' = done /\ prog' = prog
      /\ Embedder([op |-> "drive"])
  BY Zenon DEF Drive
<1>2. /\ Sound(s) /\ Transfers(s.http, inflight, done) /\ Programs(prog)
  BY Zenon DEF Inv, Typed
<1>3. s.call = None /\ script' \in Seq(Calls)
  BY Zenon, <1>0, <1>1, EmbedderTyped
<1>4. Steps(s, Driven(s)) /\ Driven(s).http = s.http
  BY Zenon, <1>2, <1>3, DrivenSound
<1>5. Programs(prog)'
  BY Zenon, <1>1, <1>2 DEF Programs
<1>6. Typed' /\ s' = Driven(s) /\ phase' = phase
  BY Zenon, <1>1, <1>3, <1>5, SilentTyped
<1> QED BY Zenon, <1>1, <1>2, <1>4, <1>6, Moves

\* The embedder enters a run.
LEMMA RunGood ==
  ASSUME Inv, Run
  PROVE  Good
<1>0. [op |-> "run"] \in Calls
  BY Zenon DEF Calls
<1>1. /\ Silent(Entered(s)) /\ inflight' = inflight /\ done' = done /\ prog' = prog
      /\ Embedder([op |-> "run"])
  BY Zenon DEF Run
<1>2. /\ Sound(s) /\ Transfers(s.http, inflight, done) /\ Programs(prog)
  BY Zenon DEF Inv, Typed
<1>3. s.call = None /\ script' \in Seq(Calls)
  BY Zenon, <1>0, <1>1, EmbedderTyped
<1>4. Steps(s, Entered(s)) /\ Entered(s).http = s.http
  BY Zenon, <1>2, <1>3, EnteredSound
<1>5. Programs(prog)'
  BY Zenon, <1>1, <1>2 DEF Programs
<1>6. Typed' /\ s' = Entered(s) /\ phase' = phase
  BY Zenon, <1>1, <1>3, <1>5, SilentTyped
<1> QED BY Zenon, <1>1, <1>2, <1>4, <1>6, Moves

\* A call that does nothing keeps the scheduler sound.
LEMMA CalledSound ==
  ASSUME NEW u, Sound(u), u.call = None
  PROVE  Steps(u, Called(u)) /\ Called(u).http = u.http
<1>1. /\ Hole(Called(u), {}) /\ Blank(Called(u)) /\ Grows(u, Called(u))
      /\ Called(u).http = u.http /\ Called(u).ret = None
  BY Zenon, CalledFields
<1>2. Sound(Called(u))
  BY Zenon, <1>1, Unsettled
<1> QED BY Zenon, <1>1, <1>2 DEF Steps, Ends

\* The embedder injects a message.
LEMMA InjectGood ==
  ASSUME Inv, NEW a \in Ids, Inject(a)
  PROVE  Good
<1>0. [op |-> "inject", to |-> a] \in Calls
  BY Zenon DEF Calls
<1>1. /\ inflight' = inflight /\ done' = done /\ prog' = prog
      /\ Embedder([op |-> "inject", to |-> a])
      /\ \/ Silent(Called(s))
         \/ Record(Event("inject", a, None, Injection(s)), Injected(s, a))
         \/ Agrees("inject", a, None) /\ Consume(Injected(s, a))
         \/ Diverge
  BY Zenon DEF Inject
<1>2. /\ Sound(s) /\ Transfers(s.http, inflight, done) /\ Programs(prog)
  BY Zenon DEF Inv, Typed
<1>3. s.call = None /\ script' \in Seq(Calls)
  BY Zenon, <1>0, <1>1, EmbedderTyped
<1>5. Programs(prog)'
  BY Zenon, <1>1, <1>2 DEF Programs
<1>6. CASE Silent(Called(s))
  <2>1. Typed' /\ s' = Called(s) /\ phase' = phase
    BY Zenon, <1>3, <1>5, <1>6, SilentTyped
  <2>2. Steps(s, Called(s)) /\ Called(s).http = s.http
    BY Zenon, <1>2, <1>3, CalledSound
  <2> QED BY Zenon, <1>1, <1>2, <2>1, <2>2, Moves
<1>4. Steps(s, Injected(s, a)) /\ Injected(s, a).http = s.http
  BY Zenon, <1>2, <1>3, InjectedSound
<1>7. CASE Record(Event("inject", a, None, Injection(s)), Injected(s, a))
  <2>1. s.calls \in Nat
    BY Zenon, <1>2 DEF Sound, Schedulers
  <2>2. Event("inject", a, None, Injection(s)) \in Events
    BY Zenon, <2>1 DEF Event, Events, Injection, Payloads
  <2>3. Typed' /\ s' = Injected(s, a) /\ phase' = phase
    BY Zenon, <1>3, <1>5, <1>7, <2>2, RecordTyped
  <2> QED BY Zenon, <1>1, <1>2, <1>4, <2>3, Moves
<1>8. CASE Agrees("inject", a, None) /\ Consume(Injected(s, a))
  <2>1. cursor < Len(log)
    BY Zenon, <1>8 DEF Agrees
  <2>2. Typed' /\ s' = Injected(s, a) /\ phase' = phase
    BY Zenon, <1>3, <1>5, <1>8, <2>1, ConsumeTyped
  <2> QED BY Zenon, <1>1, <1>2, <1>4, <2>2, Moves
<1>9. CASE Diverge
  <2>1. Typed' /\ s' = s /\ phase' = phase
    BY Zenon, <1>3, <1>5, <1>9, DivergeTyped
  <2> QED BY Zenon, <1>1, <1>2, <2>1, Stays
<1> QED BY Zenon, <1>1, <1>6, <1>7, <1>8, <1>9

\* A file that is read back is the log.
LEMMA ReadBack ==
  ASSUME NEW evs \in Seq(Events), NEW n \in 0..Len(evs),
         ReadFile(Len(evs), SubSeq(evs, 1, n)) # None
  PROVE  ReadFile(Len(evs), SubSeq(evs, 1, n)) = evs
<1>1. Len(SubSeq(evs, 1, n)) = n /\ Len(evs) \in Nat
  OBVIOUS
<1>2. n = Len(evs)
  BY <1>1 DEF ReadFile
<1>3. SubSeq(evs, 1, Len(evs)) = evs
  OBVIOUS
<1> QED BY Zenon, <1>1, <1>2, <1>3 DEF ReadFile

\* Nobody is parked in a new scheduler.
LEMMA FreshTransfers == Transfers(Fresh.http, {}, <<>>)
BY FreshSound DEF Transfers, Within, Distinct

\* The log is read back, or lost.
LEMMA ReloadGood ==
  ASSUME Inv, Reload
  PROVE  Good
<1>1. /\ phase = "record" /\ s.call = None
      /\ cursor' = cursor /\ aborted' = aborted /\ prog' = prog /\ script' = script
  BY Zenon DEF Reload
<1>2. PICK n \in 0..Len(log) :
        LET read == ReadFile(Len(log), SubSeq(log, 1, n))
        IN  IF read = None
            THEN phase' = "unreadable" /\ UNCHANGED <<s, log, inflight, done, pos>>
            ELSE /\ phase' = "replay" /\ log' = read /\ s' = Fresh /\ pos' = 1
                 /\ inflight' = {} /\ done' = <<>>
  BY Zenon DEF Reload
<1>3. Typed /\ log \in Seq(Events) /\ Programs(prog)
  BY Zenon DEF Inv, Typed
<1>4. s.call # "drive" /\ Kept
  BY Zenon, <1>1, <1>2, DetAssumption DEF Kept
<1>5. Programs(prog)'
  BY Zenon, <1>1, <1>3 DEF Programs
<1>6. CASE ReadFile(Len(log), SubSeq(log, 1, n)) = None
  <2>1. phase' = "unreadable" /\ s' = s /\ log' = log /\ inflight' = inflight
        /\ done' = done /\ pos' = pos
    BY Zenon, <1>2, <1>6
  <2>2. Typed'
    BY Zenon, <1>1, <1>3, <1>5, <2>1 DEF Typed
  <2>3. Inv'
    BY Zenon, <2>1, <2>2 DEF Inv
  <2> QED BY Zenon, <1>4, <2>3 DEF Good, Real
<1>7. CASE ReadFile(Len(log), SubSeq(log, 1, n)) # None
  <2>1. log' = log
    BY Zenon, <1>2, <1>3, <1>7, ReadBack
  <2>2. /\ phase' = "replay" /\ s' = Fresh /\ pos' = 1 /\ inflight' = {} /\ done' = <<>>
    BY Zenon, <1>2, <1>7
  <2>3. Typed'
    BY Zenon, <1>1, <1>3, <1>5, <2>1, <2>2 DEF Typed
  <2>4. Sound(s') /\ Transfers(s'.http, inflight', done')
    BY Zenon, <2>2, FreshSound, FreshTransfers
  <2>5. s'.call = None
    BY Zenon, <2>2 DEF Fresh
  <2>6. Inv'
    BY Zenon, <2>2, <2>3, <2>4, <2>5 DEF Inv
  <2> QED BY Zenon, <1>4, <2>6 DEF Good, Real
<1> QED BY Zenon, <1>6, <1>7

\* Initially.
LEMMA InitInv ==
  ASSUME Init
  PROVE  Inv
<1>1. /\ phase = "record" /\ s = Fresh /\ inflight = {} /\ done = <<>> /\ log = <<>>
      /\ cursor = 0 /\ aborted = FALSE /\ prog = <<>> /\ script = <<>> /\ pos = 0
  BY Zenon DEF Init
<1>2. Typed
  <2>1. <<>> \in Seq(Events) /\ <<>> \in Seq(Calls) /\ 0 \in 0..Len(<<>>)
    OBVIOUS
  <2>2. Programs(prog)
    BY <1>1 DEF Programs
  <2> QED BY Zenon, <1>1, <2>1, <2>2 DEF Typed
<1>3. s.call = None
  BY Zenon, <1>1 DEF Fresh
<1> QED BY Zenon, <1>1, <1>2, <1>3, FreshSound, FreshTransfers DEF Inv

\* Every step is good.
LEMMA NextGood ==
  ASSUME Inv, Next
  PROVE  Good
<1>1. CASE Slice
  BY Zenon, <1>1, SliceGood
<1>2. CASE HostEffect
  BY Zenon, <1>2, HostEffectGood
<1>3. CASE HostError
  BY Zenon, <1>3, HostErrorGood
<1>4. CASE Fetch
  BY Zenon, <1>4, FetchGood
<1>5. CASE Schedule
  BY Zenon, <1>5, ScheduleGood
<1>6. CASE Deposit
  BY Zenon, <1>6, DepositGood
<1>7. CASE Redeposit
  BY Zenon, <1>7, RedepositGood
<1>8. CASE Stop
  BY Zenon, <1>8, StopGood
<1>9. ASSUME NEW a \in Ids, Harvest(a) \/ Start(a) \/ Inject(a)
      PROVE  Good
  BY Zenon, <1>9, HarvestGood, StartGood, InjectGood
<1>10. CASE Drive
  BY Zenon, <1>10, DriveGood
<1>11. CASE Run
  BY Zenon, <1>11, RunGood
<1>12. CASE Reload
  BY Zenon, <1>12, ReloadGood
<1> QED BY Zenon, <1>1, <1>2, <1>3, <1>4, <1>5, <1>6, <1>7, <1>8, <1>9, <1>10, <1>11, <1>12
        DEF Next

\* A step that changes nothing.
LEMMA StutterGood ==
  ASSUME Inv, UNCHANGED vars
  PROVE  Inv'
<1>1. Typed'
  BY Zenon DEF Inv, Typed, Programs, vars
<1> QED BY Zenon, <1>1 DEF Inv, vars

\* The inductive invariant.
LEMMA Invariance == Spec => []Inv
<1>1. Init => Inv
  BY Zenon, InitInv
<1>2. Inv /\ [Next]_vars => Inv'
  BY Zenon, NextGood, StutterGood DEF Good
<1> QED BY <1>1, <1>2, PTL DEF Spec

\* THE RUN QUEUE.  For every number of actors and every program: no actor is ever
\* queued twice or queued while it runs, none that can run is lost, no wakeup of
\* a Recv is missed, er_scheduler_run never meets the root, and an actor is
\* parked on a Fetch exactly while its transfer is in flight or completed once.
THEOREM RunQueueIsSound == Spec => []RunQueueSound
<1>1. Inv => RunQueueSound
  BY Zenon DEF Inv, Sound, Transfers, Distinct, Within, RunQueueSound
<1> QED BY <1>1, Invariance, PTL

\* HANDLES.  For every program: a handle names the actor it was minted for until
\* it is closed, and nobody after that.
THEOREM HandlesAreForever == Spec => HandlesNeverRetarget
<1>1. Inv /\ [Next]_vars =>
        [phase' = phase =>
           \A a \in Ids : \A h \in DOMAIN s.handle[a] :
             /\ h \in DOMAIN s'.handle[a]
             /\ s'.handle[a][h] \in {s.handle[a][h], None}]_vars
  BY Zenon, NextGood DEF Good, Kept, Grows
<1> QED BY <1>1, Invariance, PTL DEF Spec, HandlesNeverRetarget

\* DEADLOCK.  For every program: er_scheduler_drive reports a deadlock only when
\* the root waits for a message nobody is left to send.
THEOREM ReportedDeadlocksAreReal == Spec => DeadlockIsReal
<1>1. Inv /\ [Next]_vars =>
        [s.call = "drive" /\ s'.ret = "deadlock" =>
           /\ s.status[Root] = "blocked"
           /\ \A a \in Ids :
                /\ s.status[a] \in {"none", "new", "halted", "crashed", "blocked"}
                /\ s.status[a] = "blocked" => s.http[a] = None /\ s.mbox[a] = <<>>
           /\ inflight = {} /\ done = <<>>]_vars
  BY Zenon, NextGood DEF Good, Real
<1> QED BY <1>1, Invariance, PTL DEF Spec, DeadlockIsReal

-----------------------------------------------------------------------------
(***************************************************************************)
(* The replay.  What the recording went through is a function of its       *)
(* program, its script and its log: each state of path follows from the    *)
(* one before.                                                             *)
(***************************************************************************)

\* The history the running actor of u has reached.
At(u) == <<u.cur, u.hist[u.cur]>>

\* The log L goes on, after its first n events, with this one; with a validation
\* failure of actor a.
Logged(L, n, kind, a, hash) ==
  /\ n < Len(L)
  /\ L[n + 1].kind = kind /\ L[n + 1].actor = a /\ L[n + 1].hash = hash
Refused(L, n, a) == n < Len(L) /\ L[n + 1].kind = "FetchV" /\ L[n + 1].actor = a

\* The running actor of u does o after n events, and w is reached after m.
RanAs(u, n, w, m, o, L) ==
  \/ /\ Inner(o)
     /\ w = EndSlice(u, o) /\ m = n
  \/ /\ o.op \in Effects /\ Logged(L, n, o.op, u.cur, o.arg)
     /\ w = Answer(u, o, L[n + 1].data) /\ m = n + 1
  \/ /\ o.op = "fetch" /\ Logged(L, n, "FetchV", u.cur, o.arg)
     /\ w = Refuse(u, o, L[n + 1].data) /\ m = n + 1
  \/ /\ o.op = "fetch" /\ ~Refused(L, n, u.cur)
     /\ w = Park(u, o) /\ m = n /\ w.http[u.cur] # None

\* The loop of the call takes the next actor, deposits an answer or stops.
Looped(u, n, w, m, L) ==
  \/ u.queue # <<>> /\ w = Dequeue(u) /\ m = n
  \/ /\ u.queue = <<>>
     /\ \E a \in Ids : /\ u.http[a] # None /\ Logged(L, n, "Fetch", a, u.http[a])
                       /\ w = Resume(u, a, L[n + 1].data)
     /\ m = n + 1
  \/ /\ u.queue = <<>> /\ \A a \in Ids : u.http[a] = None
     /\ w = Verdict(u) /\ m = n

\* The embedder makes call c.
CalledAs(u, n, w, m, c, L) ==
  \/ c.op = "start" /\ w = Started(u, c.to) /\ m = n
  \/ c.op = "drive" /\ w = Driven(u) /\ m = n
  \/ c.op = "run" /\ w = Entered(u) /\ m = n
  \/ /\ c.op = "inject" /\ u.status[c.to] \in {"halted", "crashed"}
     /\ w = Called(u) /\ m = n
  \/ /\ c.op = "inject" /\ u.status[c.to] \notin {"halted", "crashed"}
     /\ Logged(L, n, "inject", c.to, None) /\ L[n + 1].data = Injection(u)
     /\ w = Injected(u, c.to) /\ m = n + 1

\* Under program P, log L and script C, scheduler u with n events behind it becomes
\* w with m.
Follows(u, n, w, m, P, L, C) ==
  /\ u.cur # None => At(u) \in DOMAIN P /\ RanAs(u, n, w, m, P[At(u)], L)
  /\ u.cur = None /\ u.call # None => Looped(u, n, w, m, L)
  /\ u.cur = None /\ u.call = None =>
       u.calls < Len(C) /\ CalledAs(u, n, w, m, C[u.calls + 1], L)

\* The running actor of u asks for a direct effect.
Failed(u, P) == u.cur # None /\ At(u) \in DOMAIN P /\ P[At(u)].op = "io"

\* The states of the recording, up to the first direct effect that failed.
Track ==
  /\ path \in Seq([s : Schedulers, n : Nat]) /\ path # <<>>
  /\ path[1] = [s |-> Fresh, n |-> 0]
  /\ \A i \in DOMAIN path : path[i].n <= Len(log)
  /\ crash \in 0..(Len(path) - 1)
  /\ \A i \in 1..(Len(path) - 1) : crash = 0 \/ i < crash =>
       Follows(path[i].s, path[i].n, path[i + 1].s, path[i + 1].n, prog, log, script)
  /\ crash # 0 => Failed(path[crash].s, prog)

\* A recording is at the end of its path; an actor that parked when the log was as
\* long as it is now is still parked.
Recording ==
  /\ path[Len(path)] = [s |-> s, n |-> Len(log)]
  /\ s.calls = Len(script) /\ cursor = 0 /\ aborted = FALSE
  /\ \A i \in 1..(Len(path) - 1) :
       /\ path[i].n = Len(log) /\ path[i].s.cur # None
       /\ path[i + 1].s.http[path[i].s.cur] # None
       => s.http[path[i].s.cur] # None

\* A replay is where the recording was, which stopped between two calls.
Replaying ==
  /\ path[Len(path)].s.call = None /\ path[Len(path)].s.calls = Len(script)
  /\ pos \in 1..Len(path)
  /\ s = path[pos].s /\ cursor = path[pos].n
  /\ aborted => pos = crash

Follow ==
  /\ crash \in Nat
  /\ phase = "record" => Track /\ Recording
  /\ phase = "replay" /\ (crash = 0 \/ pos <= crash) => Track /\ Replaying

\* A sequence that only grew.
Onward(p, q) == Len(p) <= Len(q) /\ \A i \in 1..Len(p) : q[i] = p[i]

\* Appending to a sequence grows it.
LEMMA Grown ==
  ASSUME NEW S, NEW q \in Seq(S), NEW a \in S
  PROVE  /\ Len(q) \in Nat /\ Len(Append(q, a)) = Len(q) + 1
         /\ Onward(q, q) /\ Onward(q, Append(q, a))
         /\ Append(q, a)[Len(q) + 1] = a
BY DEF Onward

\* A logged event stays where it is.
LEMMA LoggedOn ==
  ASSUME NEW K, NEW L, Len(K) \in Nat, Len(L) \in Nat, Onward(K, L), NEW n \in Nat
  PROVE  /\ n < Len(K) => n < Len(L) /\ L[n + 1] = K[n + 1]
         /\ \A kind, a, hash : Logged(K, n, kind, a, hash) =>
              Logged(L, n, kind, a, hash) /\ L[n + 1] = K[n + 1]
         /\ \A a : n < Len(K) /\ ~Refused(K, n, a) => ~Refused(L, n, a)
<1>1. n < Len(K) => n < Len(L) /\ L[n + 1] = K[n + 1]
  BY DEF Onward
<1> QED BY Zenon, <1>1 DEF Logged, Refused

\* What followed still follows when the program, the log and the script have grown.
LEMMA FollowsOn ==
  ASSUME NEW u \in Schedulers, NEW n \in Nat, NEW w, NEW m,
         NEW P, NEW Q, NEW K, NEW L, NEW C, NEW D,
         Follows(u, n, w, m, P, K, C), Extends(P, Q), Onward(K, L), Onward(C, D),
         Len(K) \in Nat, Len(L) \in Nat, Len(C) \in Nat, Len(D) \in Nat, n <= Len(K),
         n = Len(K) /\ u.cur # None /\ w.http[u.cur] # None => ~Refused(L, n, u.cur)
  PROVE  Follows(u, n, w, m, Q, L, D)
<1>1. /\ \A kind, a, hash : Logged(K, n, kind, a, hash) =>
           Logged(L, n, kind, a, hash) /\ L[n + 1] = K[n + 1]
      /\ \A a : n < Len(K) /\ ~Refused(K, n, a) => ~Refused(L, n, a)
  BY Zenon, LoggedOn
<1>2. n < Len(K) \/ n = Len(K)
  OBVIOUS
<1>3. ASSUME u.cur # None
      PROVE  At(u) \in DOMAIN Q /\ RanAs(u, n, w, m, Q[At(u)], L)
  <2>1. At(u) \in DOMAIN P /\ RanAs(u, n, w, m, P[At(u)], K)
    BY Zenon, <1>3 DEF Follows
  <2>2. At(u) \in DOMAIN Q /\ Q[At(u)] = P[At(u)]
    BY Zenon, <2>1 DEF Extends
  <2>3. RanAs(u, n, w, m, P[At(u)], L)
    BY Zenon, <1>1, <1>2, <1>3, <2>1 DEF RanAs
  <2> QED BY Zenon, <2>2, <2>3
<1>4. ASSUME u.cur = None, u.call # None
      PROVE  Looped(u, n, w, m, L)
  <2>1. Looped(u, n, w, m, K)
    BY Zenon, <1>4 DEF Follows
  <2> QED BY Zenon, <1>1, <2>1 DEF Looped
<1>5. ASSUME u.cur = None, u.call = None
      PROVE  u.calls < Len(D) /\ CalledAs(u, n, w, m, D[u.calls + 1], L)
  <2>1. u.calls < Len(C) /\ CalledAs(u, n, w, m, C[u.calls + 1], K)
    BY Zenon, <1>5 DEF Follows
  <2>2. u.calls \in Nat
    BY Zenon DEF Schedulers
  <2>3. u.calls < Len(D) /\ D[u.calls + 1] = C[u.calls + 1]
    <3>1. /\ Len(C) \in Nat /\ Len(D) \in Nat /\ Len(C) <= Len(D)
          /\ \A i \in 1..Len(C) : D[i] = C[i]
      BY Zenon DEF Onward
    <3>2. u.calls + 1 \in 1..Len(C)
      BY Z3, <2>1, <2>2, <3>1
    <3>3. u.calls < Len(D)
      BY Z3, <2>1, <2>2, <3>1
    <3> QED BY Zenon, <3>1, <3>2, <3>3
  <2>4. CalledAs(u, n, w, m, C[u.calls + 1], L)
    BY Zenon, <1>1, <2>1 DEF CalledAs
  <2> QED BY Zenon, <2>3, <2>4
<1> QED BY Zenon, <1>3, <1>4, <1>5 DEF Follows

\* A failed effect stays in the program.
LEMMA FailedOn ==
  ASSUME NEW u, NEW P, NEW Q, Failed(u, P), Extends(P, Q)
  PROVE  Failed(u, Q)
BY Zenon DEF Failed, Extends

\* What every step of a recording does beside following.
Recorded ==
  /\ path' = Append(path, [s |-> s', n |-> Len(log')])
  /\ phase' = phase /\ aborted' = aborted /\ cursor' = cursor
  /\ Extends(prog, prog') /\ Onward(log, log') /\ Onward(script, script')
  /\ s'.calls = Len(script')
  /\ Len(log') > Len(log) \/ \A a \in Ids : s.http[a] # None => s'.http[a] # None
  /\ \A a : Refused(log', Len(log), a) => a = s.cur

\* The state a recording is in, with its types.
Records == phase = "record" /\ Inv /\ Track /\ Recording

\* A step of a recording that follows, or is the first effect to fail, keeps the
\* path.
LEMMA RecordStep ==
  ASSUME Records, Inv', Recorded,
         \/ /\ crash' = crash
            /\ Follows(s, Len(log), s', Len(log)', prog', log', script')
         \/ /\ crash' = IF crash = 0 THEN Len(path) ELSE crash
            /\ Failed(s, prog')
  PROVE  Track' /\ Recording'
<1> DEFINE N == Len(path)
           S == [s : Schedulers, n : Nat]
           z == [s |-> s', n |-> Len(log')]
<1>1. /\ path \in Seq(S) /\ path # <<>> /\ path[1] = [s |-> Fresh, n |-> 0]
      /\ \A i \in DOMAIN path : path[i].n <= Len(log)
      /\ crash \in 0..(N - 1)
      /\ \A i \in 1..(N - 1) : crash = 0 \/ i < crash =>
           Follows(path[i].s, path[i].n, path[i + 1].s, path[i + 1].n, prog, log, script)
      /\ crash # 0 => Failed(path[crash].s, prog)
  BY Zenon DEF Records, Track
<1>2. /\ path[N] = [s |-> s, n |-> Len(log)]
      /\ s.calls = Len(script) /\ cursor = 0 /\ aborted = FALSE
      /\ \A i \in 1..(N - 1) :
           /\ path[i].n = Len(log) /\ path[i].s.cur # None
           /\ path[i + 1].s.http[path[i].s.cur] # None
           => s.http[path[i].s.cur] # None
  BY Zenon DEF Records, Recording
<1>3. /\ s \in Schedulers /\ s' \in Schedulers /\ log \in Seq(Events) /\ log' \in Seq(Events)
      /\ script \in Seq(Calls) /\ script' \in Seq(Calls) /\ Sound(s)
  BY Zenon DEF Records, Inv, Typed, Sound
<1>4. /\ Len(log) \in Nat /\ Len(log') \in Nat /\ Len(script) \in Nat /\ Len(script') \in Nat
  BY <1>3
<1>5. z \in S /\ z.s = s' /\ z.n = Len(log')
  BY <1>3, <1>4
<1>6. /\ path' = Append(path, z) /\ Extends(prog, prog') /\ Onward(log, log')
      /\ Onward(script, script') /\ s'.calls = Len(script')
      /\ cursor' = cursor /\ aborted' = aborted
      /\ Len(log') > Len(log) \/ \A a \in Ids : s.http[a] # None => s'.http[a] # None
      /\ \A a : Refused(log', Len(log), a) => a = s.cur
  BY Zenon DEF Recorded
<1> HIDE DEF z
<1>7. /\ path' \in Seq(S) /\ Len(path') = N + 1 /\ N \in Nat /\ N >= 1
      /\ path'[N + 1] = z /\ \A i \in 1..N : path'[i] = path[i] /\ path[i] \in S
      /\ path' # <<>> /\ DOMAIN path = 1..N /\ DOMAIN path' = 1..(N + 1)
  <2>1. /\ path \in Seq(S) /\ path # <<>> /\ z \in S /\ path' = Append(path, z)
    BY Zenon, <1>1, <1>5, <1>6
  <2> HIDE DEF S
  <2> QED BY <2>1
<1> HIDE DEF N, S
<1>8. \A i \in 1..N : path[i].s \in Schedulers /\ path[i].n \in Nat /\ path[i].n <= Len(log)
  <2>1. \A q \in S : q.s \in Schedulers /\ q.n \in Nat
    BY DEF S
  <2> QED BY Zenon, <1>1, <1>7, <2>1
<1>9. \A a \in Ids : s.http[a] # None => s.cur # a
  BY Zenon, <1>3 DEF Sound, QueueSound, Live
<1>10. path'[1] = [s |-> Fresh, n |-> 0]
  BY <1>1, <1>7
<1>11. \A i \in DOMAIN path' : path'[i].n <= Len(log')
  <2>1. Len(log) <= Len(log')
    BY Zenon, <1>6 DEF Onward
  <2>2. \A i \in DOMAIN path' : i \in 1..N \/ i = N + 1
    BY <1>7
  <2>3. \A k \in Nat : k <= Len(log) => k <= Len(log')
    BY <1>4, <2>1
  <2>4. Len(log') <= Len(log')
    BY <1>4
  <2> QED BY Zenon, <1>5, <1>7, <1>8, <2>2, <2>3, <2>4
<1>12. crash' \in 0..N
  BY <1>1, <1>7
<1>13. ASSUME NEW i \in 1..N, crash' = 0 \/ i < crash'
       PROVE  Follows(path'[i].s, path'[i].n, path'[i + 1].s, path'[i + 1].n,
                      prog', log', script')
  <2>1. CASE i = N
    <3>1. crash' # (IF crash = 0 THEN Len(path) ELSE crash)
      BY <1>1, <1>7, <1>13, <2>1 DEF N
    <3>2. Follows(s, Len(log), s', Len(log'), prog', log', script')
      BY Zenon, <3>1
    <3>3. path'[i].s = s /\ path'[i].n = Len(log) /\ path'[i + 1] = z
      BY <1>2, <1>7, <2>1
    <3> QED BY Zenon, <1>5, <3>2, <3>3
  <2>2. CASE i # N
    <3>1. i \in 1..(N - 1) /\ i + 1 \in 1..N /\ i \in 1..N
      BY <1>7, <2>2
    <3>2. crash = 0 \/ i < crash
      BY <1>1, <1>7, <1>13, <3>1
    <3>3. Follows(path[i].s, path[i].n, path[i + 1].s, path[i + 1].n, prog, log, script)
      BY Zenon, <1>1, <3>1, <3>2
    <3>4. path[i].s \in Schedulers /\ path[i].n \in Nat /\ path[i].n <= Len(log)
      BY Zenon, <1>8, <3>1
    <3>5. ASSUME path[i].n = Len(log), path[i].s.cur # None,
                 path[i + 1].s.http[path[i].s.cur] # None
          PROVE  ~Refused(log', path[i].n, path[i].s.cur)
      <4>1. path[i].s.cur \in Ids
        BY Zenon, <3>4, <3>5 DEF Schedulers
      <4>2. s.http[path[i].s.cur] # None
        BY Zenon, <1>2, <3>1, <3>5
      <4> QED BY Zenon, <1>6, <1>9, <3>5, <4>1, <4>2
    <3>6. Follows(path[i].s, path[i].n, path[i + 1].s, path[i + 1].n, prog', log', script')
      BY Zenon, <1>4, <1>6, <3>3, <3>4, <3>5, FollowsOn
    <3> QED BY Zenon, <1>7, <3>1, <3>6
  <2> QED BY Zenon, <2>1, <2>2
<1>14. ASSUME crash' # 0
       PROVE  Failed(path'[crash'].s, prog')
  <2>1. CASE crash # 0
    <3>1. crash' = crash /\ crash \in 1..N
      BY <1>1, <1>7, <2>1
    <3>2. Failed(path[crash].s, prog')
      BY Zenon, <1>1, <1>6, <2>1, FailedOn
    <3> QED BY Zenon, <1>7, <3>1, <3>2
  <2>2. CASE crash = 0
    <3>1. crash' = N /\ Failed(s, prog')
      BY Zenon, <1>14, <2>2 DEF N
    <3>2. path'[N].s = s
      BY <1>2, <1>7
    <3> QED BY Zenon, <3>1, <3>2
  <2> QED BY Zenon, <2>1, <2>2
<1>15. Track'
  <2>1. Len(path') - 1 = N
    BY <1>7
  <2> QED BY Zenon, <1>7, <1>10, <1>11, <1>12, <1>13, <1>14, <2>1 DEF Track, S
<1>16. ASSUME NEW i \in 1..N, path'[i].n = Len(log'), path'[i].s.cur # None,
              path'[i + 1].s.http[path'[i].s.cur] # None
       PROVE  s'.http[path'[i].s.cur] # None
  <2>1. CASE i = N
    BY Zenon, <1>5, <1>7, <1>16, <2>1
  <2>2. CASE i # N
    <3>1. i \in 1..(N - 1) /\ i + 1 \in 1..N /\ i \in 1..N
      BY <1>7, <2>2
    <3>2. path'[i] = path[i] /\ path'[i + 1] = path[i + 1]
      BY Zenon, <1>7, <3>1
    <3>3. path[i].n = Len(log) /\ ~(Len(log') > Len(log))
      BY <1>4, <1>6, <1>8, <1>16, <3>1, <3>2 DEF Onward
    <3>4. path[i].s.cur \in Ids
      BY Zenon, <1>8, <1>16, <3>1, <3>2 DEF Schedulers
    <3> QED BY Zenon, <1>2, <1>6, <1>16, <3>1, <3>2, <3>3, <3>4
  <2> QED BY Zenon, <2>1, <2>2
<1>17. Recording'
  <2>1. Len(path') - 1 = N /\ Len(path') = N + 1
    BY <1>7
  <2> QED BY Zenon, <1>2, <1>6, <1>7, <1>16, <2>1 DEF Recording, z
<1> QED BY Zenon, <1>15, <1>17

\* The program grows by what the running actor does.
LEMMA DoesExtends ==
  ASSUME NEW o \in Options, Does(o)
  PROVE  /\ Extends(prog, prog') /\ At(s) \in DOMAIN prog' /\ prog'[At(s)] = o
         /\ At(s) \in DOMAIN prog => o = prog[At(s)]
BY Zenon DEF Does, Options, Extends, At, Reached

\* A silent step of a recording.
LEMMA SilentRecorded ==
  ASSUME Records, NEW u, Silent(u), Extends(prog, prog'), Onward(script, script'),
         u.calls = Len(script'), \A a \in Ids : s.http[a] # None => u.http[a] # None
  PROVE  Recorded /\ s' = u /\ log' = log
<1>1. phase = "record" /\ log \in Seq(Events)
  BY Zenon DEF Records, Inv, Typed
<1>2. /\ s' = u /\ log' = log /\ path' = Append(path, [s |-> u, n |-> Len(log')])
      /\ phase' = phase /\ aborted' = aborted /\ cursor' = cursor
  BY Zenon, <1>1 DEF Silent, Step
<1>3. Onward(log, log) /\ \A a : ~Refused(log, Len(log), a)
  BY <1>1 DEF Onward, Refused
<1> QED BY Zenon, <1>2, <1>3 DEF Recorded

\* A step of a recording that logs an event.
LEMMA EventRecorded ==
  ASSUME Records, NEW e \in Events, NEW u, Record(e, u), e.kind = "FetchV" => e.actor = s.cur,
         Extends(prog, prog'), Onward(script, script'), u.calls = Len(script')
  PROVE  /\ Recorded /\ s' = u /\ Len(log') = Len(log) + 1
         /\ Len(log) < Len(log') /\ log'[Len(log) + 1] = e
<1>1. phase = "record" /\ log \in Seq(Events)
  BY Zenon DEF Records, Inv, Typed
<1>2. /\ s' = u /\ log' = Append(log, e)
      /\ path' = Append(path, [s |-> u, n |-> Len(log')])
      /\ phase' = phase /\ aborted' = aborted /\ cursor' = cursor
  BY Zenon, <1>1 DEF Record, Step
<1>3. /\ Len(log) \in Nat /\ Len(log') = Len(log) + 1 /\ Onward(log, log')
      /\ log'[Len(log) + 1] = e
  BY Zenon, <1>1, <1>2, Grown
<1>4. Len(log') > Len(log) /\ Len(log) < Len(log')
  BY <1>3
<1>5. \A a : Refused(log', Len(log), a) => a = s.cur
  BY Zenon, <1>3 DEF Refused
<1> QED BY Zenon, <1>2, <1>3, <1>4, <1>5 DEF Recorded

\* What a recording knows of the actor it runs.
LEMMA RecordsFacts ==
  ASSUME Records
  PROVE  /\ Inv /\ phase = "record" /\ Sound(s) /\ s.calls = Len(script)
         /\ script \in Seq(Calls) /\ Onward(script, script) /\ Extends(prog, prog)
         /\ Transfers(s.http, inflight, done) /\ s.http \in [Ids -> Args \cup {None}]
         /\ s.cur # None => s.cur \in Ids /\ s.call # None
<1>1. Inv /\ phase = "record" /\ s.calls = Len(script)
  BY Zenon DEF Records, Recording
<1>2. Sound(s) /\ script \in Seq(Calls) /\ Transfers(s.http, inflight, done)
  BY Zenon, <1>1 DEF Inv, Typed
<1>3. Onward(script, script)
  BY <1>2 DEF Onward
<1>4. Extends(prog, prog)
  BY Zenon DEF Extends
<1>5. /\ s.http \in [Ids -> Args \cup {None}]
      /\ s.cur # None => s.cur \in Ids /\ s.call # None
  BY Zenon, <1>2 DEF Sound, Schedulers, QueueSound
<1> QED BY Zenon, <1>1, <1>2, <1>3, <1>4, <1>5

\* A slice.
LEMMA SliceRecords ==
  ASSUME Records, Inv', Slice
  PROVE  Track' /\ Recording'
<1>1. PICK o \in Options : /\ Inner(o) /\ (o.op = "spawn" => s.next < MaxActors)
                           /\ Does(o) /\ Silent(EndSlice(s, o))
  BY Zenon DEF Slice, Inner
<1>2. s.cur # None /\ script' = script /\ crash' = crash
  BY Zenon DEF Slice
<1>3. /\ Inv /\ Sound(s) /\ s.calls = Len(script) /\ Onward(script, script)
  BY Zenon, RecordsFacts
<1>4. o \in Acts
  BY Zenon, <1>2, <1>3, OptionsTyped
<1>5. EndSlice(s, o).http = s.http /\ EndSlice(s, o).calls = s.calls
  BY Zenon, <1>1, <1>2, <1>3, <1>4, EndSliceSound
<1>6. Extends(prog, prog') /\ At(s) \in DOMAIN prog' /\ prog'[At(s)] = o
  BY Zenon, <1>1, DoesExtends
<1>7. Recorded /\ s' = EndSlice(s, o) /\ log' = log
  BY Zenon, <1>1, <1>2, <1>3, <1>5, <1>6, SilentRecorded
<1>8. RanAs(s, Len(log), s', Len(log'), o, log')
  BY Zenon, <1>1, <1>7 DEF RanAs
<1>9. Follows(s, Len(log), s', Len(log'), prog', log', script')
  BY Zenon, <1>2, <1>6, <1>8 DEF Follows
<1> QED BY Zenon, <1>2, <1>7, <1>9, RecordStep

\* A host effect that answers.
LEMMA HostEffectRecords ==
  ASSUME Records, Inv', HostEffect
  PROVE  Track' /\ Recording'
<1>0. phase = "record"
  BY Zenon DEF Records
<1>1. PICK o \in Options :
        /\ o.op \in Effects /\ Does(o)
        /\ \E r \in Results : Record(Event(o.op, s.cur, o.arg, r), Answer(s, o, r))
  BY Zenon, <1>0 DEF HostEffect
<1>2. s.cur # None /\ script' = script /\ crash' = crash
  BY Zenon DEF HostEffect
<1>3. PICK r \in Results : Record(Event(o.op, s.cur, o.arg, r), Answer(s, o, r))
  BY Zenon, <1>1
<1>4. /\ Inv /\ Sound(s) /\ s.calls = Len(script) /\ Onward(script, script) /\ s.cur \in Ids
  BY Zenon, <1>2, RecordsFacts
<1>5. o \in Acts
  BY Zenon, <1>2, <1>4, OptionsTyped
<1>6. Answer(s, o, r).calls = s.calls
  BY Zenon, <1>2, <1>4, <1>5, AnswerSound
<1>7. Extends(prog, prog') /\ At(s) \in DOMAIN prog' /\ prog'[At(s)] = o
  BY Zenon, <1>1, DoesExtends
<1> DEFINE e == Event(o.op, s.cur, o.arg, r)
<1>8. /\ e \in Events /\ e.kind = o.op /\ e.actor = s.cur /\ e.hash = o.arg /\ e.data = r
  BY Zenon, <1>1, <1>4, <1>5, EventTyped DEF Event
<1> HIDE DEF e
<1>9. /\ Recorded /\ s' = Answer(s, o, r) /\ Len(log') = Len(log) + 1
      /\ Len(log) < Len(log') /\ log'[Len(log) + 1] = e
  BY Zenon, <1>2, <1>3, <1>4, <1>6, <1>7, <1>8, EventRecorded DEF e
<1>10. RanAs(s, Len(log), s', Len(log'), o, log')
  BY Zenon, <1>1, <1>8, <1>9 DEF RanAs, Logged
<1>11. Follows(s, Len(log), s', Len(log'), prog', log', script')
  BY Zenon, <1>2, <1>7, <1>10 DEF Follows
<1> QED BY Zenon, <1>2, <1>9, <1>11, RecordStep

\* A direct effect that fails.
LEMMA HostErrorRecords ==
  ASSUME Records, Inv', HostError
  PROVE  Track' /\ Recording'
<1>1. PICK o \in Options : o.op = "io" /\ Does(o) /\ Silent(Crash(Left(s, o), s.cur))
  BY Zenon DEF HostError, Left
<1>2. /\ s.cur # None /\ script' = script
      /\ crash' = IF crash = 0 THEN Len(path) ELSE crash
  BY Zenon DEF HostError
<1>3. /\ Inv /\ Sound(s) /\ s.calls = Len(script) /\ Onward(script, script)
  BY Zenon, RecordsFacts
<1>4. o \in Acts /\ o \in Seen
  BY Zenon, <1>2, <1>3, OptionsTyped DEF Seen
<1>5. /\ Left(s, o).http = s.http /\ Left(s, o).calls = s.calls /\ Left(s, o) \in Schedulers
  <2>1. /\ Left(s, o).http = s.http /\ Left(s, o).calls = s.calls
        /\ Hole(Left(s, o), {s.cur})
    BY Zenon, <1>2, <1>3, <1>4, LeftFields
  <2> QED BY Zenon, <2>1 DEF Hole
<1>6. Crash(Left(s, o), s.cur).http = s.http /\ Crash(Left(s, o), s.cur).calls = s.calls
  BY <1>5 DEF Crash, Return, Schedulers
<1>7. Extends(prog, prog') /\ At(s) \in DOMAIN prog' /\ prog'[At(s)] = o
  BY Zenon, <1>1, DoesExtends
<1>8. Recorded
  BY Zenon, <1>1, <1>2, <1>3, <1>6, <1>7, SilentRecorded
<1>9. Failed(s, prog')
  BY Zenon, <1>1, <1>2, <1>7 DEF Failed
<1> QED BY Zenon, <1>2, <1>8, <1>9, RecordStep

\* A Fetch: refused, or parked before anything else is logged.
LEMMA FetchRecords ==
  ASSUME Records, Inv', Fetch
  PROVE  Track' /\ Recording'
<1>0. phase = "record" /\ log \in Seq(Events)
  BY Zenon DEF Records, Inv, Typed
<1>1. PICK o \in Options :
        /\ o.op = "fetch" /\ Does(o)
        /\ \/ \E r \in Results : Record(Event("FetchV", s.cur, o.arg, r), Refuse(s, o, r))
           \/ Silent(Park(s, o))
  BY Zenon, <1>0 DEF Fetch
<1>2. s.cur # None /\ script' = script /\ crash' = crash
  BY Zenon DEF Fetch
<1>3. /\ Inv /\ Sound(s) /\ s.calls = Len(script) /\ Onward(script, script) /\ s.cur \in Ids
      /\ s.http \in [Ids -> Args \cup {None}]
  BY Zenon, <1>2, RecordsFacts
<1>4. o \in Acts
  BY Zenon, <1>2, <1>3, OptionsTyped
<1>5. Extends(prog, prog') /\ At(s) \in DOMAIN prog' /\ prog'[At(s)] = o
  BY Zenon, <1>1, DoesExtends
<1>6. CASE \E r \in Results : Record(Event("FetchV", s.cur, o.arg, r), Refuse(s, o, r))
  <2>1. PICK r \in Results : Record(Event("FetchV", s.cur, o.arg, r), Refuse(s, o, r))
    BY Zenon, <1>6
  <2>2. Refuse(s, o, r).calls = s.calls
    BY Zenon, <1>2, <1>3, <1>4, RefuseSound
  <2> DEFINE e == Event("FetchV", s.cur, o.arg, r)
  <2>3. /\ e \in Events /\ e.kind = "FetchV" /\ e.actor = s.cur /\ e.hash = o.arg /\ e.data = r
    BY Zenon, <1>1, <1>3, <1>4, EventTyped DEF Event
  <2> HIDE DEF e
  <2>4. /\ Recorded /\ s' = Refuse(s, o, r) /\ Len(log') = Len(log) + 1
        /\ Len(log) < Len(log') /\ log'[Len(log) + 1] = e
    BY Zenon, <1>2, <1>3, <1>5, <2>1, <2>2, <2>3, EventRecorded DEF e
  <2>5. RanAs(s, Len(log), s', Len(log'), o, log')
    BY Zenon, <1>1, <2>3, <2>4 DEF RanAs, Logged
  <2>6. Follows(s, Len(log), s', Len(log'), prog', log', script')
    BY Zenon, <1>2, <1>5, <2>5 DEF Follows
  <2> QED BY Zenon, <1>2, <2>4, <2>6, RecordStep
<1>7. CASE Silent(Park(s, o))
  <2> DEFINE w == Park(s, o)
  <2>1. /\ o.arg \in Args /\ w.http = [s.http EXCEPT ![s.cur] = o.arg] /\ w.calls = s.calls
    BY Zenon, <1>1, <1>2, <1>3, <1>4, ParkSound
  <2> HIDE DEF w
  <2>2. o.arg # None
    BY Zenon, <2>1, DetAssumption
  <2>3. /\ w.http[s.cur] # None /\ \A a \in Ids : s.http[a] # None => w.http[a] # None
    BY Zenon, <1>3, <2>1, <2>2
  <2>4. Recorded /\ s' = w /\ log' = log
    BY Zenon, <1>2, <1>3, <1>5, <1>7, <2>1, <2>3, SilentRecorded DEF w
  <2>5. ~Refused(log, Len(log), s.cur)
    BY <1>0 DEF Refused
  <2>6. RanAs(s, Len(log), s', Len(log'), o, log')
    BY Zenon, <1>1, <2>3, <2>4, <2>5 DEF RanAs, w
  <2>7. Follows(s, Len(log), s', Len(log'), prog', log', script')
    BY Zenon, <1>2, <1>5, <2>6 DEF Follows
  <2> QED BY Zenon, <1>2, <2>4, <2>7, RecordStep
<1> QED BY Zenon, <1>1, <1>6, <1>7

\* The loop takes the head of the queue.
LEMMA ScheduleRecords ==
  ASSUME Records, Inv', Schedule
  PROVE  Track' /\ Recording'
<1>1. /\ s.call # None /\ s.cur = None /\ s.queue # <<>> /\ Silent(Dequeue(s))
      /\ prog' = prog /\ script' = script /\ crash' = crash
  BY Zenon DEF Schedule
<1>2. /\ Sound(s) /\ s.calls = Len(script) /\ Onward(script, script) /\ Extends(prog, prog)
  BY Zenon, RecordsFacts
<1>3. Dequeue(s).http = s.http /\ Dequeue(s).calls = s.calls
  BY Zenon, <1>1, <1>2, DequeueSound
<1>4. Recorded /\ s' = Dequeue(s) /\ log' = log
  BY Zenon, <1>1, <1>2, <1>3, SilentRecorded
<1>5. Looped(s, Len(log), s', Len(log'), log')
  BY Zenon, <1>1, <1>4 DEF Looped
<1>6. Follows(s, Len(log), s', Len(log'), prog', log', script')
  BY Zenon, <1>1, <1>5 DEF Follows
<1> QED BY Zenon, <1>1, <1>4, <1>6, RecordStep

\* A completion is deposited.
LEMMA DepositRecords ==
  ASSUME Records, Inv', Deposit
  PROVE  Track' /\ Recording'
<1> DEFINE a == Head(done)
<1>1. PICK r \in Results : Record(Event("Fetch", a, s.http[a], r), Resume(s, a, r))
  BY Zenon DEF Deposit
<1>2. /\ s.call # None /\ s.cur = None /\ s.queue = <<>> /\ done # <<>>
      /\ prog' = prog /\ script' = script /\ crash' = crash
  BY Zenon DEF Deposit
<1>3. /\ Sound(s) /\ s.calls = Len(script) /\ Onward(script, script) /\ Extends(prog, prog)
      /\ Transfers(s.http, inflight, done) /\ s.http \in [Ids -> Args \cup {None}]
  BY Zenon, RecordsFacts
<1>4. a \in Ids /\ s.http[a] # None
  BY Zenon, <1>2, <1>3, TransferDeposited
<1> HIDE DEF a
<1>5. Resume(s, a, r).calls = s.calls
  BY Zenon, <1>2, <1>3, <1>4, ResumeSound
<1> DEFINE e == Event("Fetch", a, s.http[a], r)
<1>6. e \in Events /\ e.kind = "Fetch" /\ e.actor = a /\ e.hash = s.http[a] /\ e.data = r
  BY Zenon, <1>3, <1>4 DEF Event, Events
<1> HIDE DEF e
<1>7. e.kind # "FetchV"
  BY <1>6
<1>8. /\ Recorded /\ s' = Resume(s, a, r) /\ Len(log') = Len(log) + 1
      /\ Len(log) < Len(log') /\ log'[Len(log) + 1] = e
  BY Zenon, <1>1, <1>2, <1>3, <1>5, <1>6, <1>7, EventRecorded DEF e
<1>9. Looped(s, Len(log), s', Len(log'), log')
  BY Zenon, <1>2, <1>4, <1>6, <1>8 DEF Looped, Logged
<1>10. Follows(s, Len(log), s', Len(log'), prog', log', script')
  BY Zenon, <1>2, <1>9 DEF Follows
<1> QED BY Zenon, <1>2, <1>8, <1>10, RecordStep

\* The loop stops.
LEMMA StopRecords ==
  ASSUME Records, Inv', Stop
  PROVE  Track' /\ Recording'
<1>0. phase = "record"
  BY Zenon DEF Records
<1>1. /\ s.call # None /\ s.cur = None /\ s.queue = <<>> /\ Silent(Verdict(s))
      /\ inflight = {} /\ done = <<>>
      /\ prog' = prog /\ script' = script /\ crash' = crash
  BY Zenon, <1>0 DEF Stop
<1>2. /\ Sound(s) /\ s.calls = Len(script) /\ Onward(script, script) /\ Extends(prog, prog)
      /\ Transfers(s.http, inflight, done)
  BY Zenon, RecordsFacts
<1>3. \A a \in Ids : s.http[a] = None
  BY <1>1, <1>2 DEF Transfers, Within
<1>4. Root \in Ids
  BY DetAssumption DEF Root, Ids
<1>5. Verdict(s).http = s.http /\ Verdict(s).calls = s.calls
  BY Zenon, <1>1, <1>2, <1>3, <1>4, VerdictSound
<1>6. Recorded /\ s' = Verdict(s) /\ log' = log
  BY Zenon, <1>1, <1>2, <1>5, SilentRecorded
<1>7. Looped(s, Len(log), s', Len(log'), log')
  BY Zenon, <1>1, <1>3, <1>6 DEF Looped
<1>8. Follows(s, Len(log), s', Len(log'), prog', log', script')
  BY Zenon, <1>1, <1>7 DEF Follows
<1> QED BY Zenon, <1>1, <1>6, <1>8, RecordStep

\* A recording makes every call for the first time.
LEMMA EmbedderRecords ==
  ASSUME Records, NEW c \in Calls, Embedder(c)
  PROVE  /\ s.call = None /\ s.cur = None /\ Callable(s, c) /\ Onward(script, script')
         /\ Len(script') = s.calls + 1 /\ s.calls < Len(script')
         /\ script'[s.calls + 1] = c
<1>1. script \in Seq(Calls) /\ s.calls = Len(script) /\ (s.cur # None => s.call # None)
  BY Zenon, RecordsFacts
<1>2. s.call = None /\ Callable(s, c)
  BY Zenon DEF Embedder
<1>3. Len(script) \in Nat /\ ~(Len(script) < Len(script))
  BY <1>1
<1>4. script' = Append(script, c)
  BY Zenon, <1>1, <1>3 DEF Embedder
<1>5. /\ Onward(script, script') /\ Len(script') = s.calls + 1 /\ script'[s.calls + 1] = c
  <2>1. /\ Onward(script, Append(script, c)) /\ Len(Append(script, c)) = Len(script) + 1
        /\ Append(script, c)[Len(script) + 1] = c
    BY Zenon, <1>1, Grown
  <2> QED BY Zenon, <1>1, <1>4, <2>1
<1>6. s.calls < Len(script')
  BY <1>1, <1>3, <1>5
<1> QED BY Zenon, <1>1, <1>2, <1>5, <1>6

\* A call that logs nothing.
LEMMA CallRecords ==
  ASSUME Records, Inv', NEW c \in Calls, Embedder(c), NEW u, Silent(u),
         u.http = s.http, u.calls = s.calls + 1, prog' = prog, crash' = crash,
         CalledAs(s, Len(log), u, Len(log), c, log)
  PROVE  Track' /\ Recording'
<1>1. /\ s.call = None /\ s.cur = None /\ Onward(script, script')
      /\ Len(script') = s.calls + 1 /\ s.calls < Len(script') /\ script'[s.calls + 1] = c
  BY Zenon, EmbedderRecords
<1>2. Extends(prog, prog')
  BY Zenon, RecordsFacts
<1>3. Recorded /\ s' = u /\ log' = log
  BY Zenon, <1>1, <1>2, SilentRecorded
<1>4. Follows(s, Len(log), s', Len(log'), prog', log', script')
  BY Zenon, <1>1, <1>3 DEF Follows
<1> QED BY Zenon, <1>3, <1>4, RecordStep

\* The embedder starts an actor.
LEMMA StartRecords ==
  ASSUME Records, Inv', NEW a \in Ids, Start(a)
  PROVE  Track' /\ Recording'
<1> DEFINE c == [op |-> "start", to |-> a]
<1>1. c \in Calls /\ c.op = "start" /\ c.to = a
  BY Zenon DEF Calls
<1>2. Silent(Started(s, a)) /\ prog' = prog /\ crash' = crash /\ Embedder(c)
  BY Zenon DEF Start
<1> HIDE DEF c
<1>3. Sound(s) /\ s.call = None /\ s.status[a] = "new"
  BY Zenon, <1>1, <1>2, EmbedderRecords, RecordsFacts DEF Callable
<1>4. Started(s, a).http = s.http /\ Started(s, a).calls = s.calls + 1
  BY Zenon, <1>3, StartedSound
<1>5. CalledAs(s, Len(log), Started(s, a), Len(log), c, log)
  BY Zenon, <1>1 DEF CalledAs
<1> QED BY Zenon, <1>1, <1>2, <1>4, <1>5, CallRecords

\* The embedder enters a drive.
LEMMA DriveRecords ==
  ASSUME Records, Inv', Drive
  PROVE  Track' /\ Recording'
<1> DEFINE c == [op |-> "drive"]
<1>1. c \in Calls /\ c.op = "drive"
  BY Zenon DEF Calls
<1>2. Silent(Driven(s)) /\ prog' = prog /\ crash' = crash /\ Embedder(c)
  BY Zenon DEF Drive
<1> HIDE DEF c
<1>3. Sound(s) /\ s.call = None
  BY Zenon, <1>1, <1>2, EmbedderRecords, RecordsFacts
<1>4. Driven(s).http = s.http /\ Driven(s).calls = s.calls + 1
  BY Zenon, <1>3, DrivenSound
<1>5. CalledAs(s, Len(log), Driven(s), Len(log), c, log)
  BY Zenon, <1>1 DEF CalledAs
<1> QED BY Zenon, <1>1, <1>2, <1>4, <1>5, CallRecords

\* The embedder enters a run.
LEMMA RunRecords ==
  ASSUME Records, Inv', Run
  PROVE  Track' /\ Recording'
<1> DEFINE c == [op |-> "run"]
<1>1. c \in Calls /\ c.op = "run"
  BY Zenon DEF Calls
<1>2. Silent(Entered(s)) /\ prog' = prog /\ crash' = crash /\ Embedder(c)
  BY Zenon DEF Run
<1> HIDE DEF c
<1>3. Sound(s) /\ s.call = None
  BY Zenon, <1>1, <1>2, EmbedderRecords, RecordsFacts
<1>4. Entered(s).http = s.http /\ Entered(s).calls = s.calls + 1
  BY Zenon, <1>3, EnteredSound
<1>5. CalledAs(s, Len(log), Entered(s), Len(log), c, log)
  BY Zenon, <1>1 DEF CalledAs
<1> QED BY Zenon, <1>1, <1>2, <1>4, <1>5, CallRecords

\* The embedder injects a message.
LEMMA InjectRecords ==
  ASSUME Records, Inv', NEW a \in Ids, Inject(a)
  PROVE  Track' /\ Recording'
<1> DEFINE c == [op |-> "inject", to |-> a]
           e == Event("inject", a, None, Injection(s))
<1>0. phase = "record"
  BY Zenon DEF Records
<1>1. c \in Calls /\ c.op = "inject" /\ c.to = a
  BY Zenon DEF Calls
<1>2. /\ prog' = prog /\ crash' = crash /\ Embedder(c)
      /\ \/ s.status[a] \in {"halted", "crashed"} /\ Silent(Called(s))
         \/ s.status[a] \notin {"halted", "crashed"} /\ Record(e, Injected(s, a))
  BY Zenon, <1>0 DEF Inject
<1> HIDE DEF c
<1>3. /\ Sound(s) /\ s.call = None /\ s.cur = None /\ Onward(script, script')
      /\ Len(script') = s.calls + 1 /\ s.calls < Len(script') /\ script'[s.calls + 1] = c
      /\ Extends(prog, prog')
  BY Zenon, <1>1, <1>2, EmbedderRecords, RecordsFacts
<1>4. CASE s.status[a] \in {"halted", "crashed"} /\ Silent(Called(s))
  <2>1. Called(s).http = s.http /\ Called(s).calls = s.calls + 1
    BY Zenon, <1>3, CalledFields
  <2>2. CalledAs(s, Len(log), Called(s), Len(log), c, log)
    BY Zenon, <1>1, <1>4 DEF CalledAs
  <2> QED BY Zenon, <1>1, <1>2, <1>4, <2>1, <2>2, CallRecords
<1>5. CASE s.status[a] \notin {"halted", "crashed"} /\ Record(e, Injected(s, a))
  <2>1. Injected(s, a).calls = s.calls + 1
    BY Zenon, <1>3, InjectedSound
  <2>2. s.calls \in Nat
    BY Zenon, <1>3 DEF Sound, Schedulers
  <2>3. e \in Events /\ e.kind = "inject" /\ e.actor = a /\ e.hash = None /\ e.data = Injection(s)
    BY Zenon, <2>2 DEF Event, Events, Injection, Payloads
  <2> HIDE DEF e
  <2>4. e.kind # "FetchV"
    BY <2>3
  <2>5. /\ Recorded /\ s' = Injected(s, a) /\ Len(log') = Len(log) + 1
        /\ Len(log) < Len(log') /\ log'[Len(log) + 1] = e
    BY Zenon, <1>3, <1>5, <2>1, <2>3, <2>4, EventRecorded
  <2>6. CalledAs(s, Len(log), s', Len(log'), c, log')
    BY Zenon, <1>1, <1>5, <2>3, <2>5 DEF CalledAs, Logged
  <2>7. Follows(s, Len(log), s', Len(log'), prog', log', script')
    BY Zenon, <1>3, <2>6 DEF Follows
  <2> QED BY Zenon, <1>2, <2>5, <2>7, RecordStep
<1> QED BY Zenon, <1>2, <1>4, <1>5

\* What a step of a replay leaves alone; the step goes to w and m.
Frame ==
  /\ path' = path /\ log' = log /\ script' = script /\ crash' = crash
  /\ phase' = phase /\ Extends(prog, prog')
Replayed(w, m) == s' = w /\ cursor' = m /\ pos' = pos + 1 /\ aborted' = aborted /\ Frame

\* The log goes on with an event, in the words of the replay.
LEMMA LoggedAgrees ==
  /\ \A kind, a, hash : Agrees(kind, a, hash) <=> Logged(log, cursor, kind, a, hash)
  /\ RefusalNext <=> Refused(log, cursor, s.cur)
BY Zenon DEF Agrees, Logged, RefusalNext, Refused

\* A silent step of a replay, and one that consumes an event.
LEMMA SilentReplayed ==
  ASSUME phase = "replay", NEW u, Silent(u), script' = script, crash' = crash,
         Extends(prog, prog')
  PROVE  Replayed(u, cursor)
<1>1. phase # "record"
  OBVIOUS
<1> QED BY Zenon, <1>1 DEF Silent, Step, Replayed, Frame

\* A replayed step that takes one event from the log.
LEMMA ConsumeReplayed ==
  ASSUME phase = "replay", NEW u, Consume(u), script' = script, crash' = crash,
         Extends(prog, prog')
  PROVE  Replayed(u, cursor + 1)
<1>1. phase # "record"
  OBVIOUS
<1> QED BY Zenon, <1>1 DEF Consume, Step, Replayed, Frame

\* Every step of a replay goes where the recording went.
LEMMA SliceReplays ==
  ASSUME phase = "replay", NEW w, NEW m, Follows(s, cursor, w, m, prog, log, script), Slice
  PROVE  Replayed(w, m)
<1>1. PICK o \in Options : Inner(o) /\ Does(o) /\ Silent(EndSlice(s, o))
  BY Zenon DEF Slice, Inner
<1>2. s.cur # None /\ script' = script /\ crash' = crash
  BY Zenon DEF Slice
<1>3. At(s) \in DOMAIN prog /\ RanAs(s, cursor, w, m, prog[At(s)], log)
  BY Zenon, <1>2 DEF Follows
<1>4. o = prog[At(s)] /\ Extends(prog, prog')
  BY Zenon, <1>1, <1>3, DoesExtends
<1>5. o.op \notin Effects /\ o.op # "fetch"
  BY <1>1 DEF Inner
<1>6. w = EndSlice(s, o) /\ m = cursor
  BY Zenon, <1>3, <1>4, <1>5 DEF RanAs
<1> QED BY Zenon, <1>1, <1>2, <1>4, <1>6, SilentReplayed

\* A direct effect answered from the log is the one the recording logged.
LEMMA HostEffectReplays ==
  ASSUME phase = "replay", NEW w, NEW m, Follows(s, cursor, w, m, prog, log, script),
         HostEffect
  PROVE  Replayed(w, m)
<1>0. phase # "record"
  OBVIOUS
<1>1. PICK o \in Options :
        /\ o.op \in Effects /\ Does(o)
        /\ Agrees(o.op, s.cur, o.arg) => Consume(Answer(s, o, log[cursor + 1].data))
  BY Zenon, <1>0 DEF HostEffect
<1>2. s.cur # None /\ script' = script /\ crash' = crash
  BY Zenon DEF HostEffect
<1>3. At(s) \in DOMAIN prog /\ RanAs(s, cursor, w, m, prog[At(s)], log)
  BY Zenon, <1>2 DEF Follows
<1>4. o = prog[At(s)] /\ Extends(prog, prog')
  BY Zenon, <1>1, <1>3, DoesExtends
<1>5. ~Inner(o) /\ o.op # "fetch"
  BY <1>1 DEF Inner, Effects
<1>6. /\ Agrees(o.op, s.cur, o.arg)
      /\ w = Answer(s, o, log[cursor + 1].data) /\ m = cursor + 1
  BY Zenon, <1>3, <1>4, <1>5, LoggedAgrees DEF RanAs
<1> QED BY Zenon, <1>1, <1>2, <1>4, <1>6, ConsumeReplayed

\* A fetch refused or parked as in the recording.
LEMMA FetchReplays ==
  ASSUME phase = "replay", NEW w, NEW m, Follows(s, cursor, w, m, prog, log, script), Fetch
  PROVE  Replayed(w, m)
<1>0. phase # "record"
  OBVIOUS
<1>1. PICK o \in Options :
        /\ o.op = "fetch" /\ Does(o)
        /\ RefusalNext /\ log[cursor + 1].hash = o.arg
             => Consume(Refuse(s, o, log[cursor + 1].data))
        /\ ~RefusalNext => Silent(Park(s, o))
  BY Zenon, <1>0 DEF Fetch
<1>2. s.cur # None /\ script' = script /\ crash' = crash
  BY Zenon DEF Fetch
<1>3. At(s) \in DOMAIN prog /\ RanAs(s, cursor, w, m, prog[At(s)], log)
  BY Zenon, <1>2 DEF Follows
<1>4. o = prog[At(s)] /\ Extends(prog, prog')
  BY Zenon, <1>1, <1>3, DoesExtends
<1>5. ~Inner(o) /\ o.op \notin Effects
  BY <1>1 DEF Inner, Effects
<1>6. CASE /\ Logged(log, cursor, "FetchV", s.cur, o.arg)
           /\ w = Refuse(s, o, log[cursor + 1].data) /\ m = cursor + 1
  <2>1. RefusalNext /\ log[cursor + 1].hash = o.arg
    BY Zenon, <1>6 DEF Logged, RefusalNext
  <2> QED BY Zenon, <1>1, <1>2, <1>4, <1>6, <2>1, ConsumeReplayed
<1>7. CASE ~Refused(log, cursor, s.cur) /\ w = Park(s, o) /\ m = cursor
  BY Zenon, <1>1, <1>2, <1>4, <1>7, LoggedAgrees, SilentReplayed
<1> QED BY Zenon, <1>3, <1>4, <1>5, <1>6, <1>7 DEF RanAs

\* The loop takes the actor the recording took.
LEMMA ScheduleReplays ==
  ASSUME phase = "replay", NEW w, NEW m, Follows(s, cursor, w, m, prog, log, script),
         Schedule
  PROVE  Replayed(w, m)
<1>1. /\ s.call # None /\ s.cur = None /\ s.queue # <<>> /\ Silent(Dequeue(s))
      /\ prog' = prog /\ script' = script /\ crash' = crash
  BY Zenon DEF Schedule
<1>2. Looped(s, cursor, w, m, log)
  BY Zenon, <1>1 DEF Follows
<1>3. w = Dequeue(s) /\ m = cursor /\ Extends(prog, prog')
  BY Zenon, <1>1, <1>2 DEF Looped, Extends
<1> QED BY Zenon, <1>1, <1>3, SilentReplayed

\* The answer deposited from the log goes to the actor that got it.
LEMMA RedepositReplays ==
  ASSUME phase = "replay", NEW w, NEW m, Follows(s, cursor, w, m, prog, log, script),
         Redeposit
  PROVE  Replayed(w, m)
<1>1. /\ s.call # None /\ s.cur = None /\ s.queue = <<>>
      /\ \E a \in Ids : s.http[a] # None
      /\ prog' = prog /\ script' = script /\ crash' = crash
  BY Zenon DEF Redeposit
<1>2. Looped(s, cursor, w, m, log) /\ Extends(prog, prog')
  BY Zenon, <1>1 DEF Follows, Extends
<1>3. PICK a \in Ids : /\ s.http[a] # None /\ Logged(log, cursor, "Fetch", a, s.http[a])
                       /\ w = Resume(s, a, log[cursor + 1].data) /\ m = cursor + 1
  BY Zenon, <1>1, <1>2 DEF Looped
<1>4. \E b \in Ids : s.http[b] # None /\ Agrees("Fetch", b, s.http[b])
  BY Zenon, <1>3, LoggedAgrees
<1>5. Consume(Resume(s, log[cursor + 1].actor, log[cursor + 1].data))
  BY Zenon, <1>4 DEF Redeposit
<1>6. log[cursor + 1].actor = a
  BY Zenon, <1>3 DEF Logged
<1> QED BY Zenon, <1>1, <1>2, <1>3, <1>5, <1>6, ConsumeReplayed

\* The call returns where the recorded one did, with its verdict.
LEMMA StopReplays ==
  ASSUME phase = "replay", NEW w, NEW m, Follows(s, cursor, w, m, prog, log, script), Stop
  PROVE  Replayed(w, m)
<1>0. phase # "record"
  OBVIOUS
<1>1. /\ s.call # None /\ s.cur = None /\ s.queue = <<>> /\ Silent(Verdict(s))
      /\ \A a \in Ids : s.http[a] = None
      /\ prog' = prog /\ script' = script /\ crash' = crash
  BY Zenon, <1>0 DEF Stop
<1>2. Looped(s, cursor, w, m, log) /\ Extends(prog, prog')
  BY Zenon, <1>1 DEF Follows, Extends
<1>3. w = Verdict(s) /\ m = cursor
  BY Zenon, <1>1, <1>2 DEF Looped
<1> QED BY Zenon, <1>1, <1>2, <1>3, SilentReplayed

\* A call of the replay is the one of the script.
LEMMA EmbedderReplays ==
  ASSUME phase = "replay", Inv, NEW w, NEW m, Follows(s, cursor, w, m, prog, log, script),
         NEW c, Embedder(c)
  PROVE  script' = script /\ CalledAs(s, cursor, w, m, c, log)
<1>1. s.call = None /\ s.cur = None
  BY Zenon DEF Embedder, Inv, Sound, QueueSound
<1>2. s.calls < Len(script) /\ CalledAs(s, cursor, w, m, script[s.calls + 1], log)
  BY Zenon, <1>1 DEF Follows
<1> QED BY Zenon, <1>2 DEF Embedder

\* The embedder repeats a start, a drive or a run.
LEMMA CallReplays ==
  ASSUME phase = "replay", Inv, NEW w, NEW m, Follows(s, cursor, w, m, prog, log, script),
         Drive \/ Run \/ \E a \in Ids : Start(a)
  PROVE  Replayed(w, m)
<1>1. prog' = prog /\ crash' = crash /\ Extends(prog, prog')
  BY Zenon DEF Drive, Run, Start, Extends
<1>2. CASE Drive
  <2>1. Embedder([op |-> "drive"]) /\ Silent(Driven(s))
    BY Zenon, <1>2 DEF Drive
  <2>2. script' = script /\ CalledAs(s, cursor, w, m, [op |-> "drive"], log)
    BY Zenon, <2>1, EmbedderReplays
  <2>3. w = Driven(s) /\ m = cursor
    BY <2>2 DEF CalledAs
  <2> QED BY Zenon, <1>1, <2>1, <2>2, <2>3, SilentReplayed
<1>3. CASE Run
  <2>1. Embedder([op |-> "run"]) /\ Silent(Entered(s))
    BY Zenon, <1>3 DEF Run
  <2>2. script' = script /\ CalledAs(s, cursor, w, m, [op |-> "run"], log)
    BY Zenon, <2>1, EmbedderReplays
  <2>3. w = Entered(s) /\ m = cursor
    BY <2>2 DEF CalledAs
  <2> QED BY Zenon, <1>1, <2>1, <2>2, <2>3, SilentReplayed
<1>4. ASSUME NEW a \in Ids, Start(a)
      PROVE  Replayed(w, m)
  <2> DEFINE c == [op |-> "start", to |-> a]
  <2>1. Embedder(c) /\ Silent(Started(s, a)) /\ c.op = "start" /\ c.to = a
    BY Zenon, <1>4 DEF Start
  <2> HIDE DEF c
  <2>2. script' = script /\ CalledAs(s, cursor, w, m, c, log)
    BY Zenon, <2>1, EmbedderReplays
  <2>3. c.op # "drive" /\ c.op # "run" /\ c.op # "inject"
    BY <2>1
  <2>4. w = Started(s, a) /\ m = cursor
    BY Zenon, <2>1, <2>2, <2>3 DEF CalledAs
  <2> QED BY Zenon, <1>1, <2>1, <2>2, <2>4, SilentReplayed
<1> QED BY Zenon, <1>2, <1>3, <1>4

\* The embedder repeats an injection.
LEMMA InjectReplays ==
  ASSUME phase = "replay", Inv, NEW w, NEW m, Follows(s, cursor, w, m, prog, log, script),
         NEW a \in Ids, Inject(a)
  PROVE  Replayed(w, m)
<1> DEFINE c == [op |-> "inject", to |-> a]
<1>0. phase # "record"
  OBVIOUS
<1>1. c.op = "inject" /\ c.to = a
  BY Zenon
<1>2. /\ prog' = prog /\ crash' = crash /\ Embedder(c)
      /\ s.status[a] \in {"halted", "crashed"} => Silent(Called(s))
      /\ /\ s.status[a] \notin {"halted", "crashed"}
         /\ Agrees("inject", a, None) /\ log[cursor + 1].data = Injection(s)
         => Consume(Injected(s, a))
  BY Zenon, <1>0 DEF Inject
<1> HIDE DEF c
<1>3. script' = script /\ CalledAs(s, cursor, w, m, c, log) /\ Extends(prog, prog')
  BY Zenon, <1>2, EmbedderReplays DEF Extends
<1>4. c.op # "drive" /\ c.op # "run" /\ c.op # "start"
  BY <1>1
<1>5. CASE s.status[a] \in {"halted", "crashed"}
  <2>1. w = Called(s) /\ m = cursor
    BY Zenon, <1>1, <1>3, <1>4, <1>5 DEF CalledAs
  <2> QED BY Zenon, <1>2, <1>3, <1>5, <2>1, SilentReplayed
<1>6. CASE s.status[a] \notin {"halted", "crashed"}
  <2>1. /\ Logged(log, cursor, "inject", a, None) /\ log[cursor + 1].data = Injection(s)
        /\ w = Injected(s, a) /\ m = cursor + 1
    BY Zenon, <1>1, <1>3, <1>4, <1>6 DEF CalledAs
  <2>2. Consume(Injected(s, a))
    BY Zenon, <1>2, <1>6, <2>1, LoggedAgrees
  <2> QED BY Zenon, <1>2, <1>3, <2>1, <2>2, ConsumeReplayed
<1> QED BY Zenon, <1>5, <1>6

\* Whatever a replay does next is what the recording did.
LEMMA NextReplays ==
  ASSUME phase = "replay", Inv, NEW w, NEW m, Follows(s, cursor, w, m, prog, log, script),
         Next
  PROVE  Replayed(w, m)
<1>1. phase # "record"
  OBVIOUS
<1>2. /\ ~HostError /\ ~Deposit /\ ~Reload /\ \A a \in Ids : ~Harvest(a)
  BY Zenon, <1>1 DEF HostError, Deposit, Reload, Harvest
<1>3. CASE Slice \/ HostEffect \/ Fetch
  BY Zenon, <1>3, SliceReplays, HostEffectReplays, FetchReplays
<1>4. CASE Schedule \/ Redeposit \/ Stop
  BY Zenon, <1>4, ScheduleReplays, RedepositReplays, StopReplays
<1>5. CASE Drive \/ Run \/ \E a \in Ids : Start(a)
  BY Zenon, <1>5, CallReplays
<1>6. CASE \E a \in Ids : Inject(a)
  BY Zenon, <1>6, InjectReplays
<1> QED BY Zenon, <1>2, <1>3, <1>4, <1>5, <1>6 DEF Next

\* At a direct effect that failed, the replay goes its own way or aborts there.
LEMMA FailedReplays ==
  ASSUME phase = "replay", Inv, Failed(s, prog), Next
  PROVE  Frame /\ (pos' = pos + 1 \/ (pos' = pos /\ s' = s /\ cursor' = cursor))
<1>1. phase # "record"
  OBVIOUS
<1>2. s.cur # None /\ s.call # None /\ At(s) \in DOMAIN prog /\ prog[At(s)].op = "io"
  BY Zenon DEF Failed, Inv, Sound, QueueSound
<1>3. /\ ~HostError /\ ~Deposit /\ ~Reload /\ ~Schedule /\ ~Redeposit /\ ~Stop
      /\ ~Drive /\ ~Run /\ \A a \in Ids : ~Harvest(a) /\ ~Start(a) /\ ~Inject(a)
  BY Zenon, <1>1, <1>2 DEF HostError, Deposit, Reload, Harvest, Schedule, Redeposit, Stop,
                      Drive, Run, Start, Inject, Embedder
<1>4. ~Slice /\ ~Fetch
  <2>1. ASSUME NEW o \in Options, Does(o)
        PROVE  o.op = "io"
    BY Zenon, <1>2, <2>1, DoesExtends
  <2>2. "io" \in Effects /\ "io" # "fetch"
    BY DEF Effects
  <2> QED BY Zenon, <2>1, <2>2 DEF Slice, Fetch
<1>5. HostEffect
  BY Zenon, <1>3, <1>4 DEF Next
<1>6. PICK o \in Options :
        /\ Does(o)
        /\ Consume(Answer(s, o, log[cursor + 1].data)) \/ Diverge
  BY Zenon, <1>1, <1>5 DEF HostEffect
<1>7. script' = script /\ crash' = crash /\ Extends(prog, prog')
  BY Zenon, <1>5, <1>6, DoesExtends DEF HostEffect
<1>8. CASE Consume(Answer(s, o, log[cursor + 1].data))
  BY Zenon, <1>7, <1>8, ConsumeReplayed DEF Replayed
<1>9. CASE Diverge
  BY Zenon, <1>7, <1>9 DEF Diverge, Frame
<1> QED BY Zenon, <1>6, <1>8, <1>9

\* A replay that has made every call of the script is over.
LEMMA EndReplays ==
  ASSUME phase = "replay", Inv, s.call = None, s.calls = Len(script)
  PROVE  ~Next
<1>1. phase # "record"
  OBVIOUS
<1>2. s.cur = None /\ script \in Seq(Calls)
  BY Zenon DEF Inv, Typed, Sound, QueueSound
<1>3. ~(s.calls < Len(script))
  BY <1>2
<1>4. \A c : ~Embedder(c)
  BY Zenon, <1>1, <1>3 DEF Embedder
<1> QED BY Zenon, <1>1, <1>2, <1>4
        DEF Next, Slice, HostEffect, HostError, Fetch, Schedule, Deposit, Redeposit, Stop,
            Harvest, Start, Inject, Drive, Run, Reload

\* The path stays what it was when the program grows.
LEMMA TrackOn ==
  ASSUME Inv, Inv', Track, Frame
  PROVE  Track'
<1>1. /\ path' = path /\ log' = log /\ script' = script /\ crash' = crash
      /\ Extends(prog, prog')
  BY Zenon DEF Frame
<1>2. /\ path \in Seq([s : Schedulers, n : Nat]) /\ path # <<>>
      /\ path[1] = [s |-> Fresh, n |-> 0]
      /\ \A i \in DOMAIN path : path[i].n <= Len(log)
      /\ crash \in 0..(Len(path) - 1)
      /\ \A i \in 1..(Len(path) - 1) : crash = 0 \/ i < crash =>
           Follows(path[i].s, path[i].n, path[i + 1].s, path[i + 1].n, prog, log, script)
      /\ crash # 0 => Failed(path[crash].s, prog)
  BY Zenon DEF Track
<1>3. log \in Seq(Events) /\ script \in Seq(Calls)
  BY Zenon DEF Inv, Typed
<1>4. /\ Len(log) \in Nat /\ Len(script) \in Nat /\ Onward(log, log) /\ Onward(script, script)
      /\ \A a : ~Refused(log, Len(log), a)
  BY <1>3 DEF Onward, Refused
<1>5. ASSUME NEW i \in 1..(Len(path) - 1), crash = 0 \/ i < crash
      PROVE  Follows(path[i].s, path[i].n, path[i + 1].s, path[i + 1].n, prog', log, script)
  <2>1. i \in DOMAIN path /\ path[i].s \in Schedulers /\ path[i].n \in Nat
    <3> DEFINE S == [s : Schedulers, n : Nat]
    <3>1. path \in Seq(S)
      BY Zenon, <1>2
    <3> HIDE DEF S
    <3>2. i \in DOMAIN path /\ path[i] \in S
      BY <3>1
    <3> QED BY <3>2 DEF S
  <2>2. path[i].n <= Len(log)
    BY Zenon, <1>2, <2>1
  <2>3. Follows(path[i].s, path[i].n, path[i + 1].s, path[i + 1].n, prog, log, script)
    BY Zenon, <1>2, <1>5
  <2>4. path[i].n = Len(log) => ~Refused(log, path[i].n, path[i].s.cur)
    BY Zenon, <1>4
  <2> QED BY Zenon, <1>1, <1>4, <2>1, <2>2, <2>3, <2>4, FollowsOn
<1>6. crash # 0 => Failed(path[crash].s, prog')
  BY Zenon, <1>1, <1>2, FailedOn
<1> QED BY Zenon, <1>1, <1>2, <1>5, <1>6 DEF Track

\* No step of a replay moves the place of the failed effect, or goes back.
LEMMA ReplayFrame ==
  ASSUME phase = "replay", Next
  PROVE  crash' = crash /\ phase' = phase /\ (pos' = pos \/ pos' = pos + 1)
<1>1. phase # "record"
  OBVIOUS
<1>2. \A u : Silent(u) \/ Consume(u) => phase' = phase /\ pos' = pos + 1
  BY Zenon, <1>1 DEF Silent, Consume, Step
<1>3. Diverge => phase' = phase /\ pos' = pos
  BY Zenon DEF Diverge
<1>4. CASE Slice \/ HostEffect \/ Fetch
  BY Zenon, <1>1, <1>2, <1>3, <1>4 DEF Slice, HostEffect, Fetch
<1>5. CASE Schedule \/ Redeposit \/ Stop
  BY Zenon, <1>2, <1>3, <1>5 DEF Schedule, Redeposit, Stop
<1>6. CASE Drive \/ Run
  BY Zenon, <1>2, <1>6 DEF Drive, Run
<1>7. ASSUME NEW a \in Ids, Start(a) \/ Inject(a)
      PROVE  crash' = crash /\ phase' = phase /\ (pos' = pos \/ pos' = pos + 1)
  BY Zenon, <1>1, <1>2, <1>3, <1>7 DEF Start, Inject
<1>8. /\ ~HostError /\ ~Deposit /\ ~Reload /\ \A a \in Ids : ~Harvest(a)
  BY Zenon, <1>1 DEF HostError, Deposit, Reload, Harvest
<1> QED BY Zenon, <1>4, <1>5, <1>6, <1>7, <1>8 DEF Next

\* A step of a replay.
LEMMA ReplayStep ==
  ASSUME phase = "replay", Inv, Inv', Follow, Next
  PROVE  Follow'
<1>1. /\ crash' = crash /\ phase' = phase /\ (pos' = pos \/ pos' = pos + 1)
      /\ crash \in Nat /\ pos \in Nat /\ aborted = FALSE /\ phase' # "record"
  <2>1. crash' = crash /\ phase' = phase /\ (pos' = pos \/ pos' = pos + 1)
    BY Zenon, ReplayFrame
  <2>2. crash \in Nat /\ pos \in Nat /\ aborted \in BOOLEAN /\ ~aborted
    BY Zenon DEF Follow, Inv, Typed, Next
  <2>3. aborted = FALSE
    BY <2>2
  <2>4. phase' # "record"
    BY <2>1
  <2> QED BY Zenon, <2>1, <2>2, <2>3, <2>4
<1>2. CASE ~(crash = 0 \/ pos <= crash)
  <2>1. ~(crash' = 0 \/ pos' <= crash')
    BY <1>1, <1>2
  <2> QED BY Zenon, <1>1, <2>1 DEF Follow
<1>3. CASE crash = 0 \/ pos <= crash
  <2>1. /\ Track /\ pos \in 1..Len(path) /\ s = path[pos].s /\ cursor = path[pos].n
        /\ path[Len(path)].s.call = None /\ path[Len(path)].s.calls = Len(script)
    BY Zenon, <1>3 DEF Follow, Replaying
  <2>2. /\ Len(path) \in Nat /\ crash \in 0..(Len(path) - 1)
        /\ \A i \in 1..(Len(path) - 1) : crash = 0 \/ i < crash =>
             Follows(path[i].s, path[i].n, path[i + 1].s, path[i + 1].n, prog, log, script)
        /\ crash # 0 => Failed(path[crash].s, prog)
    <3>1. path \in Seq([s : Schedulers, n : Nat])
      BY Zenon, <2>1 DEF Track
    <3>2. Len(path) \in Nat
      BY <3>1
    <3> QED BY Zenon, <2>1, <3>2 DEF Track
  <2>3. CASE pos = crash
    <3>1. Failed(s, prog)
      <4>1. crash # 0
        BY <2>1, <2>3
      <4> QED BY Zenon, <2>1, <2>2, <2>3, <4>1
    <3>2. Frame /\ (pos' = pos + 1 \/ (pos' = pos /\ s' = s /\ cursor' = cursor))
      BY Zenon, <3>1, FailedReplays
    <3>3. CASE pos' = pos + 1
      <4>1. ~(crash' = 0 \/ pos' <= crash')
        BY <1>1, <2>1, <2>3, <3>3
      <4> QED BY Zenon, <1>1, <4>1 DEF Follow
    <3>4. CASE pos' = pos /\ s' = s /\ cursor' = cursor
      <4>1. Track'
        BY Zenon, <2>1, <3>2, TrackOn
      <4>2. path' = path /\ script' = script
        BY Zenon, <3>2 DEF Frame
      <4>3. Replaying'
        BY Zenon, <1>1, <2>1, <2>3, <3>4, <4>2 DEF Replaying
      <4> QED BY Zenon, <1>1, <4>1, <4>3 DEF Follow
    <3> QED BY Zenon, <3>2, <3>3, <3>4
  <2>4. CASE pos # crash
    <3>1. crash = 0 \/ pos < crash
      BY <1>1, <1>3, <2>4
    <3>2. CASE pos = Len(path)
      <4>1. s.call = None /\ s.calls = Len(script)
        BY Zenon, <2>1, <3>2
      <4> QED BY Zenon, <4>1, EndReplays
    <3>3. CASE pos # Len(path)
      <4>1. pos \in 1..(Len(path) - 1) /\ pos + 1 \in 1..Len(path)
        BY <2>1, <2>2, <3>3
      <4>2. Follows(s, cursor, path[pos + 1].s, path[pos + 1].n, prog, log, script)
        BY Zenon, <2>1, <2>2, <3>1, <4>1
      <4>3. Replayed(path[pos + 1].s, path[pos + 1].n)
        BY Zenon, <4>2, NextReplays
      <4>4. /\ s' = path[pos + 1].s /\ cursor' = path[pos + 1].n /\ pos' = pos + 1
            /\ aborted' = aborted /\ Frame
        BY Zenon, <4>3 DEF Replayed
      <4>5. Track'
        BY Zenon, <2>1, <4>4, TrackOn
      <4>6. path' = path /\ script' = script
        BY Zenon, <4>4 DEF Frame
      <4>7. Replaying'
        BY Zenon, <1>1, <2>1, <4>1, <4>4, <4>6 DEF Replaying
      <4> QED BY Zenon, <1>1, <4>5, <4>7 DEF Follow
    <3> QED BY Zenon, <3>2, <3>3
  <2> QED BY Zenon, <2>3, <2>4
<1> QED BY Zenon, <1>2, <1>3

\* A transfer that is over changes nothing the replay could see.
LEMMA HarvestRecords ==
  ASSUME Records, NEW a \in Ids, Harvest(a)
  PROVE  Track' /\ Recording'
BY Zenon DEF Records, Harvest, Track, Recording

\* The log is read back whole, or not at all.
LEMMA ReloadFollows ==
  ASSUME Records, Reload
  PROVE  Follow'
<1>1. /\ phase = "record" /\ s.call = None
      /\ cursor' = cursor /\ aborted' = aborted /\ prog' = prog /\ script' = script
      /\ path' = path /\ crash' = crash
  BY Zenon DEF Reload
<1>2. PICK n \in 0..Len(log) :
        LET read == ReadFile(Len(log), SubSeq(log, 1, n))
        IN  IF read = None
            THEN phase' = "unreadable" /\ UNCHANGED <<s, log, inflight, done, pos>>
            ELSE /\ phase' = "replay" /\ log' = read /\ s' = Fresh /\ pos' = 1
                 /\ inflight' = {} /\ done' = <<>>
  BY Zenon DEF Reload
<1>3. Track /\ Recording /\ log \in Seq(Events)
  BY Zenon DEF Records, Inv, Typed
<1>4. /\ path \in Seq([s : Schedulers, n : Nat]) /\ path # <<>>
      /\ path[1] = [s |-> Fresh, n |-> 0] /\ crash \in 0..(Len(path) - 1)
  BY Zenon, <1>3 DEF Track
<1>5. 1 \in 1..Len(path) /\ crash \in Nat
  BY <1>4
<1>6. CASE ReadFile(Len(log), SubSeq(log, 1, n)) = None
  <2>1. phase' # "record" /\ phase' # "replay"
    BY <1>2, <1>6
  <2> QED BY Zenon, <1>1, <1>5, <2>1 DEF Follow
<1>7. CASE ReadFile(Len(log), SubSeq(log, 1, n)) # None
  <2>1. log' = log
    BY Zenon, <1>2, <1>3, <1>7, ReadBack
  <2>2. phase' = "replay" /\ s' = Fresh /\ pos' = 1
    BY Zenon, <1>2, <1>7
  <2>3. Track'
    BY Zenon, <1>1, <1>3, <2>1 DEF Track
  <2>4. /\ path[Len(path)] = [s |-> s, n |-> Len(log)] /\ s.calls = Len(script)
        /\ cursor = 0 /\ aborted = FALSE
    BY Zenon, <1>3 DEF Recording
  <2>5. path[Len(path)].s = s /\ path[1].s = Fresh /\ path[1].n = 0
    BY <1>4, <2>4
  <2>6. Replaying'
    BY Zenon, <1>1, <1>5, <2>2, <2>4, <2>5 DEF Replaying
  <2>7. phase' # "record"
    BY <2>2
  <2> QED BY Zenon, <1>1, <1>5, <2>3, <2>6, <2>7 DEF Follow
<1> QED BY Zenon, <1>6, <1>7

\* A step of a recording.
LEMMA RecordFollows ==
  ASSUME phase = "record", Inv, Inv', Follow, Next
  PROVE  Follow'
<1>1. Records
  BY Zenon DEF Records, Follow
<1>2. phase # "replay"
  OBVIOUS
<1>3. CASE Reload
  BY Zenon, <1>1, <1>3, ReloadFollows
<1>4. CASE ~Reload
  <2>1. ~Redeposit
    BY Zenon, <1>2 DEF Redeposit
  <2>2. ASSUME Slice \/ HostEffect \/ HostError \/ Fetch
        PROVE  Track' /\ Recording'
    BY Zenon, <1>1, <2>2, SliceRecords, HostEffectRecords, HostErrorRecords, FetchRecords
  <2>3. ASSUME Schedule \/ Deposit \/ Stop
        PROVE  Track' /\ Recording'
    BY Zenon, <1>1, <2>3, ScheduleRecords, DepositRecords, StopRecords
  <2>4. ASSUME Drive \/ Run
        PROVE  Track' /\ Recording'
    BY Zenon, <1>1, <2>4, DriveRecords, RunRecords
  <2>5. ASSUME NEW a \in Ids, Harvest(a) \/ Start(a) \/ Inject(a)
        PROVE  Track' /\ Recording'
    BY Zenon, <1>1, <2>5, HarvestRecords, StartRecords, InjectRecords
  <2>6. Track' /\ Recording'
    BY Zenon, <1>4, <2>1, <2>2, <2>3, <2>4, <2>5 DEF Next
  <2>7. phase' = phase
    <3>1. \A u, e : Silent(u) \/ Record(e, u) \/ Consume(u) \/ Diverge => phase' = phase
      BY Zenon DEF Silent, Record, Consume, Step, Diverge
    <3>2. CASE Slice \/ HostEffect \/ HostError \/ Fetch
      BY Zenon, <3>1, <3>2 DEF Slice, HostEffect, HostError, Fetch
    <3>3. CASE Schedule \/ Deposit \/ Stop
      BY Zenon, <3>1, <3>3 DEF Schedule, Deposit, Stop
    <3>4. CASE Drive \/ Run
      BY Zenon, <3>1, <3>4 DEF Drive, Run
    <3>5. ASSUME NEW a \in Ids, Harvest(a) \/ Start(a) \/ Inject(a)
          PROVE  phase' = phase
      BY Zenon, <3>1, <3>5 DEF Harvest, Start, Inject
    <3> QED BY Zenon, <1>4, <2>1, <3>2, <3>3, <3>4, <3>5 DEF Next
  <2>8. phase' # "replay" /\ crash' \in Nat
    <3>1. crash' \in 0..(Len(path') - 1)
      BY Zenon, <2>6 DEF Track
    <3> QED BY <2>7, <3>1
  <2> QED BY Zenon, <2>6, <2>8 DEF Follow
<1> QED BY Zenon, <1>3, <1>4

\* Initially the path is the fresh scheduler.
LEMMA InitFollow ==
  ASSUME Init
  PROVE  Follow
<1>1. /\ phase = "record" /\ s = Fresh /\ log = <<>> /\ cursor = 0 /\ aborted = FALSE
      /\ script = <<>> /\ path = <<[s |-> Fresh, n |-> 0]>> /\ crash = 0
  BY Zenon DEF Init
<1>2. Fresh \in Schedulers /\ Fresh.calls = 0
  BY Zenon, FreshSound DEF Sound
<1> DEFINE z == [s |-> Fresh, n |-> 0]
<1>3. z \in [s : Schedulers, n : Nat] /\ z.n = 0
  BY <1>2
<1> HIDE DEF z
<1>4. /\ path \in Seq([s : Schedulers, n : Nat]) /\ Len(path) = 1 /\ path[1] = z
      /\ path # <<>> /\ DOMAIN path = 1..1
  BY <1>1, <1>3 DEF z
<1>5. Len(log) = 0 /\ Len(script) = 0
  BY <1>1
<1> DEFINE last == Len(path) - 1
<1>6. last = 0 /\ \A i : i \notin 1..last
  BY <1>4
<1>7. crash \in 0..last /\ \A i \in DOMAIN path : path[i].n <= Len(log)
  BY <1>1, <1>3, <1>4, <1>5, <1>6
<1>8. Track
  BY Zenon, <1>1, <1>4, <1>6, <1>7 DEF Track, z
<1>9. Recording
  BY Zenon, <1>1, <1>2, <1>4, <1>5, <1>6 DEF Recording, z
<1>10. phase # "replay" /\ crash \in Nat
  BY <1>1
<1> QED BY Zenon, <1>8, <1>9, <1>10 DEF Follow

\* REPLAY.  For every program, every order in which transfers complete, every answer
\* of the host and every sequence of calls: a replay of a complete log goes through
\* the states of the recording one by one and none of its checks fails, up to the
\* first direct effect that failed.
THEOREM ReplayAlwaysReproduces == Spec => []ReplayReproduces
<1>1. Init => Follow
  BY Zenon, InitFollow
<1>2. Inv /\ Inv' /\ Follow /\ [Next]_vars => Follow'
  <2>1. ASSUME Inv, Inv', Follow, Next
        PROVE  Follow'
    <3>1. phase # "unreadable" /\ phase \in {"record", "replay", "unreadable"}
      BY Zenon, <2>1 DEF Next, Inv
    <3>2. phase = "record" \/ phase = "replay"
      BY Zenon, <3>1
    <3> QED BY Zenon, <2>1, <3>2, RecordFollows, ReplayStep
  <2>2. ASSUME Follow, UNCHANGED vars
        PROVE  Follow'
    BY Zenon, <2>2 DEF vars, Follow, Track, Recording, Replaying
  <2> QED BY Zenon, <2>1, <2>2
<1>3. Follow => ReplayReproduces
  <2>1. ASSUME Track
        PROVE  DOMAIN path = 1..Len(path)
    BY <2>1 DEF Track
  <2> QED BY Zenon, <2>1 DEF Follow, Replaying, ReplayReproduces
<1> QED BY <1>1, <1>2, <1>3, Invariance, PTL DEF Spec
=============================================================================
