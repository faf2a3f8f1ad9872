-------------------------- MODULE WriteQueueProofs --------------------------
(***************************************************************************)
(* Proof that the writes of a connection stay sound, for any number of     *)
(* messages, requests, blocks and sockets.                                 *)
(***************************************************************************)
EXTENDS WriteQueue, FiniteSetTheorems, TLAPS

Messages == {AnyMessage, GoAway} \cup {BlockMessage(n) : n \in Nat}

Buffers == [write : Seq(Messages), sync : Seq(Messages), out : Seq(Messages), size : Nat]

Tasks ==
    [t : {"close", "handshake"}] \cup [t : {"block"}, n : Nat] \cup [t : {"write"}, bufs : Seq(Messages)]
        \cup [t : {"written"}, socket : Nat, error : BOOLEAN]

TypeOK ==
    /\ buffer \in Buffers /\ socket \in Nat /\ socket_open \in BOOLEAN
    /\ peer_requested \in [last : Nat, end : Nat]
    /\ w_strand \in Seq(Tasks) /\ app \in Seq(Nat)

-----------------------------------------------------------------------------
\* A task that stands for the one write that may be under way: it is about to start, or done.
IsWrite(e) == e.t \in {"write", "written"}

NoWrite(s) == \A i \in 1 .. Len(s) : ~IsWrite(s[i])

OneWrite(s) == \E i \in 1 .. Len(s) : IsWrite(s[i]) /\ \A j \in 1 .. Len(s) : IsWrite(s[j]) => j = i

\* What a write that was posted reads is what the out queue keeps.
Reads(s, out) == \A i \in 1 .. Len(s) : s[i].t = "write" => s[i].bufs = out

\* The out queue is empty and there is no write; or a task on the strand has the write; or the
\* socket has it.
Busy(b, s, w, k, open) ==
    \/ b.out = <<>> /\ NoWrite(s) /\ w = {}
    \/ b.out # <<>> /\ OneWrite(s) /\ Reads(s, b.out) /\ w = {}
    \/ b.out # <<>> /\ NoWrite(s) /\ w = {[socket |-> k, bufs |-> b.out]} /\ open

Counted(b) == b.size = Len(b.write) + Len(b.sync)

\* A task after which enqueue_sync_block is called, or the request is dropped.
GoesOn(s) == \E i \in 1 .. Len(s) : s[i].t \in {"block", "write", "written", "close"}

Fetches(a) == \E i \in 1 .. Len(a) : a[i] <= MaxBlockNum

Served(r, s, a, w) ==
    r # NoRequest /\ r.last < MaxBlockNum => Fetches(a) \/ GoesOn(s) \/ w # {}

\* The inductive invariant.
WInv ==
    /\ TypeOK
    /\ Counted(buffer)
    /\ Busy(buffer, w_strand, writes, socket, socket_open)
    /\ Served(peer_requested, w_strand, app, writes)

-----------------------------------------------------------------------------
\* What Append does, element by element.
LEMMA AppendTask ==
    ASSUME NEW s \in Seq(Tasks), NEW e \in Tasks
    PROVE  /\ Append(s, e) \in Seq(Tasks) /\ Len(s) \in Nat /\ Len(Append(s, e)) = Len(s) + 1
           /\ \A i \in 1 .. Len(s) : Append(s, e)[i] = s[i]
           /\ Append(s, e)[Len(s) + 1] = e
BY DEF Tasks

\* A task that is no write changes nothing about writes.
LEMMA PostOther ==
    ASSUME NEW s \in Seq(Tasks), NEW e \in Tasks, ~IsWrite(e), NEW out
    PROVE  /\ NoWrite(s) => NoWrite(Append(s, e))
           /\ OneWrite(s) => OneWrite(Append(s, e))
           /\ Reads(s, out) => Reads(Append(s, e), out)
<1>1. PICK u : u = Append(s, e)
  BY Zenon
<1>2. PICK n \in Nat : n = Len(s)
  BY AppendTask
<1>3. u \in Seq(Tasks) /\ Len(u) = n + 1 /\ (\A i \in 1 .. n : u[i] = s[i]) /\ u[n + 1] = e
  BY <1>1, <1>2, AppendTask
<1>4. NoWrite(s) => NoWrite(u)
  BY <1>2, <1>3 DEF NoWrite
<1>5. ASSUME OneWrite(s) PROVE OneWrite(u)
  <2>1. PICK i \in 1 .. n : IsWrite(s[i]) /\ \A j \in 1 .. n : IsWrite(s[j]) => j = i
    BY <1>2, <1>5 DEF OneWrite
  <2>2. IsWrite(u[i]) /\ i \in 1 .. Len(u)
    BY <1>3, <2>1
  <2>3. ASSUME NEW j \in 1 .. Len(u), IsWrite(u[j]) PROVE j = i
    BY <1>3, <2>1, <2>3
  <2>4. QED
    BY <2>2, <2>3 DEF OneWrite
<1>6. Reads(s, out) => Reads(u, out)
  BY <1>2, <1>3 DEF Reads, IsWrite
<1>7. QED
  BY <1>1, <1>4, <1>5, <1>6

\* The write is posted where there is none.
LEMMA PostWrite ==
    ASSUME NEW s \in Seq(Tasks), NEW e \in Tasks, IsWrite(e), NoWrite(s), NEW out,
           e.t = "write" => e.bufs = out
    PROVE  OneWrite(Append(s, e)) /\ Reads(Append(s, e), out)
<1>1. PICK u : u = Append(s, e)
  BY Zenon
<1>2. PICK n \in Nat : n = Len(s)
  BY AppendTask
<1>3. u \in Seq(Tasks) /\ Len(u) = n + 1 /\ (\A i \in 1 .. n : u[i] = s[i]) /\ u[n + 1] = e
  BY <1>1, <1>2, AppendTask
<1>4. \A i \in 1 .. n : ~IsWrite(u[i])
  BY <1>2, <1>3 DEF NoWrite
<1>5. OneWrite(u)
  <2>1. n + 1 \in 1 .. Len(u) /\ IsWrite(u[n + 1])
    BY <1>3
  <2>2. ASSUME NEW j \in 1 .. Len(u), IsWrite(u[j]) PROVE j = n + 1
    BY <1>3, <1>4, <2>2
  <2>3. QED
    BY <2>1, <2>2 DEF OneWrite
<1>6. Reads(u, out)
  <2>1. ASSUME NEW i \in 1 .. Len(u), u[i].t = "write" PROVE u[i].bufs = out
    <3>1. i = n + 1
      BY <1>3, <1>4, <2>1 DEF IsWrite
    <3>2. QED
      BY <1>3, <2>1, <3>1
  <2>2. QED
    BY <2>1 DEF Reads
<1>7. QED
  BY <1>1, <1>5, <1>6

\* What goes on goes on, and a task that goes on may be posted.
LEMMA PostGoesOn ==
    ASSUME NEW s \in Seq(Tasks), NEW e \in Tasks,
           GoesOn(s) \/ e.t \in {"block", "write", "written", "close"}
    PROVE  GoesOn(Append(s, e))
<1>1. PICK u : u = Append(s, e)
  BY Zenon
<1>2. PICK n \in Nat : n = Len(s)
  BY AppendTask
<1>3. u \in Seq(Tasks) /\ Len(u) = n + 1 /\ (\A i \in 1 .. n : u[i] = s[i]) /\ u[n + 1] = e
  BY <1>1, <1>2, AppendTask
<1>4. CASE GoesOn(s)
  <2>1. PICK i \in 1 .. n : s[i].t \in {"block", "write", "written", "close"}
    BY <1>2, <1>4 DEF GoesOn
  <2>2. i \in 1 .. Len(u) /\ u[i] = s[i]
    BY <1>3, <2>1
  <2>3. QED
    BY <1>1, <2>1, <2>2 DEF GoesOn
<1>5. CASE e.t \in {"block", "write", "written", "close"}
  <2>1. n + 1 \in 1 .. Len(u)
    BY <1>3
  <2>2. QED
    BY <1>1, <1>3, <1>5, <2>1 DEF GoesOn
<1>6. QED
  BY <1>4, <1>5

\* The task at the front is taken.
LEMMA TakeTask ==
    ASSUME NEW s \in Seq(Tasks), s # <<>>, NEW out
    PROVE  /\ Tail(s) \in Seq(Tasks) /\ Head(s) \in Tasks
           /\ NoWrite(s) => NoWrite(Tail(s)) /\ ~IsWrite(Head(s))
           /\ OneWrite(s) /\ IsWrite(Head(s)) => NoWrite(Tail(s))
           /\ OneWrite(s) /\ ~IsWrite(Head(s)) => OneWrite(Tail(s))
           /\ Reads(s, out) => Reads(Tail(s), out) /\ (Head(s).t = "write" => Head(s).bufs = out)
           /\ GoesOn(s) => Head(s).t \in {"block", "write", "written", "close"} \/ GoesOn(Tail(s))
<1>1. PICK u : u = Tail(s)
  BY Zenon
<1>2. PICK n \in Nat : Len(s) = n + 1
  <2>1. Len(s) \in Nat /\ Len(s) # 0
    OBVIOUS
  <2>2. Len(s) - 1 \in Nat /\ Len(s) = (Len(s) - 1) + 1
    BY <2>1
  <2>3. QED
    BY <2>2, Zenon
<1>3. /\ u \in Seq(Tasks) /\ Len(u) = n /\ Head(s) = s[1] /\ Head(s) \in Tasks
      /\ \A i \in 1 .. n : u[i] = s[i + 1] /\ i + 1 \in 1 .. n + 1
  BY <1>1, <1>2
<1>4. \A j \in 1 .. n + 1 : j = 1 \/ (j - 1 \in 1 .. n /\ u[j - 1] = s[j])
  BY <1>3
<1>5. 1 \in 1 .. n + 1
  OBVIOUS
<1>6. NoWrite(s) => NoWrite(u) /\ ~IsWrite(Head(s))
  BY <1>2, <1>3, <1>5 DEF NoWrite
<1>7. ASSUME OneWrite(s) PROVE (IsWrite(Head(s)) => NoWrite(u)) /\ (~IsWrite(Head(s)) => OneWrite(u))
  <2>1. PICK i \in 1 .. n + 1 : IsWrite(s[i]) /\ \A j \in 1 .. n + 1 : IsWrite(s[j]) => j = i
    BY <1>2, <1>7 DEF OneWrite
  <2>2. ASSUME IsWrite(Head(s)), NEW j \in 1 .. n PROVE ~IsWrite(u[j])
    <3>1. i = 1
      BY <1>3, <1>5, <2>1, <2>2
    <3>2. j + 1 # i
      BY <3>1
    <3>3. QED
      BY <1>3, <2>1, <3>2
  <2>3. ASSUME ~IsWrite(Head(s)) PROVE OneWrite(u)
    <3>1. i # 1
      BY <1>3, <2>1, <2>3
    <3>2. i - 1 \in 1 .. n /\ IsWrite(u[i - 1])
      BY <1>4, <2>1, <3>1
    <3>3. ASSUME NEW j \in 1 .. n, IsWrite(u[j]) PROVE j = i - 1
      <4>1. j + 1 = i
        BY <1>3, <2>1, <3>3
      <4>2. QED
        BY <4>1
    <3>4. QED
      BY <1>3, <3>2, <3>3, Zenon DEF OneWrite
  <2>4. QED
    BY <1>3, <2>2, <2>3 DEF NoWrite
<1>8. Reads(s, out) => Reads(u, out) /\ (Head(s).t = "write" => Head(s).bufs = out)
  BY <1>2, <1>3, <1>5 DEF Reads
<1>9. ASSUME GoesOn(s), Head(s).t \notin {"block", "write", "written", "close"} PROVE GoesOn(u)
  <2>1. PICK i \in 1 .. n + 1 : s[i].t \in {"block", "write", "written", "close"}
    BY <1>2, <1>9 DEF GoesOn
  <2>2. i - 1 \in 1 .. n /\ u[i - 1] = s[i]
    BY <1>3, <1>4, <1>9, <2>1
  <2>3. QED
    BY <1>3, <2>1, <2>2 DEF GoesOn
<1>10. QED
  BY <1>1, <1>3, <1>6, <1>7, <1>8, <1>9

-----------------------------------------------------------------------------
\* The part of the state that the handlers change together.
LinkOf(b, s, r, a) == [buffer |-> b, strand |-> s, requested |-> r, app |-> a]

\* Posting changes the strand only.
LEMMA PostToLink ==
    ASSUME NEW b, NEW s, NEW r, NEW a, NEW e
    PROVE  PostTo(LinkOf(b, s, r, a), e) = LinkOf(b, Append(s, e), r, a)
BY DEF PostTo, LinkOf

\* A closing task leaves the writes as they are.
LEMMA CloseKeeps ==
    ASSUME NEW b, NEW s \in Seq(Tasks), NEW r, NEW a, NEW w, NEW k, NEW open, Busy(b, s, w, k, open)
    PROVE  \E s2 \in Seq(Tasks) :
              /\ close(LinkOf(b, s, r, a)) = LinkOf(b, s2, r, a)
              /\ Busy(b, s2, w, k, open) /\ GoesOn(s2)
<1>1. PICK e : e = [t |-> "close"]
  BY Zenon
<1>2. e \in Tasks /\ ~IsWrite(e) /\ e.t = "close"
  BY <1>1 DEF Tasks, IsWrite
<1>3. PICK s2 : s2 = Append(s, e)
  BY Zenon
<1>4. s2 \in Seq(Tasks) /\ GoesOn(s2)
  BY <1>2, <1>3, AppendTask, PostGoesOn
<1>5. close(LinkOf(b, s, r, a)) = LinkOf(b, s2, r, a)
  BY <1>1, <1>3, PostToLink DEF close
<1>6. Busy(b, s2, w, k, open)
  BY <1>2, <1>3, PostOther DEF Busy
<1>7. QED
  BY <1>4, <1>5, <1>6

\* Only sequences of messages are moved, and none is lost.
LEMMA FillOut ==
    ASSUME NEW b \in Buffers, Counted(b), ready_to_send(b)
    PROVE  /\ fill_out_buffer(b) \in Buffers /\ Counted(fill_out_buffer(b))
           /\ fill_out_buffer(b).out # <<>>
<1>1. /\ b.sync \in Seq(Messages) /\ b.write \in Seq(Messages) /\ b.out = <<>>
      /\ b.size = Len(b.write) + Len(b.sync) /\ (b.sync # <<>> \/ b.write # <<>>)
  BY DEF Buffers, Counted, ready_to_send
<1>2. Len(b.write) \in Nat /\ Len(b.sync) \in Nat
  BY <1>1
<1>3. b.out \o b.sync = b.sync /\ b.out \o b.write = b.write
  BY <1>1
<1>4. CASE b.sync # <<>>
  <2>1. fill_out_buffer(b) = [write |-> b.write, sync |-> <<>>, out |-> b.sync, size |-> Len(b.write)]
    <3>1. fill_out_buffer(b) = [write |-> b.write, sync |-> <<>>, out |-> b.out \o b.sync, size |-> b.size - Len(b.sync)]
      BY <1>4, Zenon DEF fill_out_buffer, Buffers
    <3>2. b.size - Len(b.sync) = Len(b.write)
      BY <1>1, <1>2
    <3>3. QED
      BY <1>3, <3>1, <3>2
  <2>2. QED
    BY <1>1, <1>2, <1>4, <2>1 DEF Buffers, Counted
<1>5. CASE b.sync = <<>>
  <2>1. fill_out_buffer(b) = [write |-> <<>>, sync |-> <<>>, out |-> b.write, size |-> 0]
    <3>1. fill_out_buffer(b) = [write |-> <<>>, sync |-> b.sync, out |-> b.out \o b.write, size |-> b.size - Len(b.write)]
      BY <1>5, Zenon DEF fill_out_buffer, Buffers
    <3>2. b.size - Len(b.write) = 0
      BY <1>1, <1>2, <1>5
    <3>3. QED
      BY <1>3, <1>5, <3>1, <3>2
  <2>2. QED
    BY <1>1, <1>2, <1>5, <2>1 DEF Buffers, Counted
<1>6. QED
  BY <1>4, <1>5

\* do_queue_write starts a write only if there is none.
LEMMA DoQueueWrite ==
    ASSUME NEW b \in Buffers, NEW s \in Seq(Tasks), NEW r, NEW a, NEW w, NEW k, NEW open,
           Counted(b), Busy(b, s, w, k, open)
    PROVE  \E b2 \in Buffers, s2 \in Seq(Tasks) :
              /\ do_queue_write(LinkOf(b, s, r, a)) = LinkOf(b2, s2, r, a)
              /\ Counted(b2) /\ Busy(b2, s2, w, k, open)
              /\ GoesOn(s) => GoesOn(s2)
              /\ b.sync # <<>> => GoesOn(s2) \/ w # {}
<1>1. CASE ~ready_to_send(b)
  <2>1. do_queue_write(LinkOf(b, s, r, a)) = LinkOf(b, s, r, a)
    BY <1>1 DEF do_queue_write, LinkOf
  <2>2. ASSUME b.sync # <<>> PROVE GoesOn(s) \/ w # {}
    <3>1. b.out # <<>>
      BY <1>1, <2>2 DEF ready_to_send
    <3>2. QED
      BY <3>1, Zenon DEF Busy, OneWrite, IsWrite, GoesOn
  <2>3. QED
    BY <2>1, <2>2
<1>2. CASE ready_to_send(b)
  <2>1. PICK b2 : b2 = fill_out_buffer(b)
    OBVIOUS
  <2>2. b2 \in Buffers /\ Counted(b2) /\ b2.out # <<>> /\ b2.out \in Seq(Messages)
    BY <1>2, <2>1, FillOut DEF Buffers
  <2>3. NoWrite(s) /\ w = {}
    BY <1>2 DEF Busy, ready_to_send
  <2>4. PICK e : e = [t |-> "write", bufs |-> b2.out]
    BY Zenon
  <2>5. e \in Tasks /\ IsWrite(e) /\ e.t = "write" /\ e.bufs = b2.out
    BY <2>2, <2>4 DEF Tasks, IsWrite
  <2>6. PICK s2 : s2 = Append(s, e)
    BY Zenon
  <2>7. s2 \in Seq(Tasks) /\ GoesOn(s2) /\ OneWrite(s2) /\ Reads(s2, b2.out)
    BY <2>3, <2>5, <2>6, AppendTask, PostGoesOn, PostWrite
  <2>8. do_queue_write(LinkOf(b, s, r, a)) = LinkOf(b2, s2, r, a)
    BY <1>2, <2>1, <2>4, <2>6, Zenon DEF do_queue_write, PostTo, LinkOf
  <2>9. Busy(b2, s2, w, k, open)
    BY <2>2, <2>3, <2>7 DEF Busy
  <2>10. QED
    BY <2>2, <2>7, <2>8, <2>9
<1>3. QED
  BY <1>1, <1>2

\* A message is queued, and a write is started or the connection closes if it can.
LEMMA QueueWrite ==
    ASSUME NEW b \in Buffers, NEW s \in Seq(Tasks), NEW r, NEW a, NEW m \in Messages, NEW w, NEW k, NEW open,
           Counted(b), Busy(b, s, w, k, open)
    PROVE  \E b2 \in Buffers, s2 \in Seq(Tasks) :
              /\ queue_write(LinkOf(b, s, r, a), m) = LinkOf(b2, s2, r, a)
              /\ Counted(b2) /\ Busy(b2, s2, w, k, open)
              /\ GoesOn(s) => GoesOn(s2)
              /\ m.t = "block" => GoesOn(s2) \/ w # {}
<1>1. PICK b1 : b1 = add_write_queue(b, m)
  OBVIOUS
<1>2. /\ b1 \in Buffers /\ Counted(b1) /\ b1.out = b.out
      /\ m.t = "block" => b1.sync # <<>>
  <2>1. b.sync \in Seq(Messages) /\ b.write \in Seq(Messages) /\ b.out \in Seq(Messages) /\ b.size \in Nat
    BY DEF Buffers
  <2>2. /\ Append(b.sync, m) \in Seq(Messages) /\ Append(b.write, m) \in Seq(Messages)
        /\ Len(Append(b.sync, m)) = Len(b.sync) + 1 /\ Len(Append(b.write, m)) = Len(b.write) + 1
        /\ Append(b.sync, m) # <<>> /\ Len(b.sync) \in Nat /\ Len(b.write) \in Nat
    BY <2>1
  <2>3. CASE m.t = "block"
    <3>1. b1 = [write |-> b.write, sync |-> Append(b.sync, m), out |-> b.out, size |-> b.size + 1]
      BY <1>1, <2>3, Zenon DEF add_write_queue, Buffers
    <3>2. QED
      BY <2>1, <2>2, <3>1 DEF Buffers, Counted
  <2>4. CASE m.t # "block"
    <3>1. b1 = [write |-> Append(b.write, m), sync |-> b.sync, out |-> b.out, size |-> b.size + 1]
      BY <1>1, <2>4, Zenon DEF add_write_queue, Buffers
    <3>2. QED
      BY <2>1, <2>2, <2>4, <3>1 DEF Buffers, Counted
  <2>5. QED
    BY <2>3, <2>4
<1>3. Busy(b1, s, w, k, open)
  BY <1>2 DEF Busy
<1>4. CASE b1.size > MaxSize
  <2>1. queue_write(LinkOf(b, s, r, a), m) = close(LinkOf(b1, s, r, a))
    BY <1>1, <1>4 DEF queue_write, LinkOf
  <2>2. QED
    BY <1>2, <1>3, <2>1, CloseKeeps
<1>5. CASE ~(b1.size > MaxSize)
  <2>1. queue_write(LinkOf(b, s, r, a), m) = do_queue_write(LinkOf(b1, s, r, a))
    BY <1>1, <1>5 DEF queue_write, LinkOf
  <2>2. QED
    BY <1>2, <1>3, <2>1, DoQueueWrite
<1>6. QED
  BY <1>4, <1>5

\* clear_write_queue and clear_out_queue keep the size right.
LEMMA Clears ==
    ASSUME NEW b \in Buffers, Counted(b)
    PROVE  /\ clear_write_queue(b) \in Buffers /\ Counted(clear_write_queue(b))
           /\ clear_write_queue(b).out = b.out
           /\ clear_out_queue(b) \in Buffers /\ Counted(clear_out_queue(b))
           /\ clear_out_queue(b).out = <<>>
<1>1. clear_write_queue(b) = [write |-> <<>>, sync |-> <<>>, out |-> b.out, size |-> 0]
  <2>1. PICK c : c = clear_write_queue(b)
    OBVIOUS
  <2>2. DOMAIN c = {"write", "sync", "out", "size"} /\ c = [x \in DOMAIN c |-> c[x]]
    BY <2>1, Zenon DEF clear_write_queue, Buffers
  <2>3. c.write = <<>> /\ c.sync = <<>> /\ c.out = b.out /\ c.size = 0
    BY <2>1 DEF clear_write_queue, Buffers
  <2>4. QED
    BY <2>1, <2>2, <2>3
<1>2. clear_out_queue(b) = [write |-> b.write, sync |-> b.sync, out |-> <<>>, size |-> b.size]
  BY DEF clear_out_queue, Buffers
<1>3. QED
  BY <1>1, <1>2 DEF Buffers, Counted

\* enqueue_sync_block: while a request is left for a block of the chain, a block is fetched.
LEMMA EnqueueSyncBlock ==
    ASSUME NEW b, NEW s, NEW r \in [last : Nat, end : Nat], NEW a \in Seq(Nat)
    PROVE  \E r2 \in [last : Nat, end : Nat], a2 \in Seq(Nat) :
              /\ enqueue_sync_block(LinkOf(b, s, r, a)) = LinkOf(b, s, r2, a2)
              /\ r2 # NoRequest /\ r2.last < MaxBlockNum => Fetches(a2)
<1>1. CASE r = NoRequest
  <2>1. enqueue_sync_block(LinkOf(b, s, r, a)) = LinkOf(b, s, r, a)
    BY <1>1 DEF enqueue_sync_block, LinkOf
  <2>2. QED
    BY <1>1, <2>1
<1>2. CASE r # NoRequest
  <2>1. PICK num \in Nat : num = r.last + 1
    OBVIOUS
  <2>2. PICK r2 : r2 = IF num = r.end THEN NoRequest ELSE [r EXCEPT !.last = num]
    BY Zenon
  <2>3. r2 \in [last : Nat, end : Nat] /\ (r2 # NoRequest => r2.last = num)
    BY <2>1, <2>2 DEF NoRequest
  <2>4. PICK a2 : a2 = Append(a, num)
    BY Zenon
  <2>5. a2 \in Seq(Nat) /\ Len(a2) = Len(a) + 1 /\ a2[Len(a) + 1] = num /\ Len(a) \in Nat
    BY <2>4
  <2>6. enqueue_sync_block(LinkOf(b, s, r, a)) = LinkOf(b, s, r2, a2)
    BY <1>2, <2>1, <2>2, <2>4, Zenon DEF enqueue_sync_block, LinkOf
  <2>7. ASSUME r2 # NoRequest, r2.last < MaxBlockNum PROVE Fetches(a2)
    <3>1. Len(a) + 1 \in 1 .. Len(a2)
      BY <2>5
    <3>2. num <= MaxBlockNum
      BY <2>3, <2>7, WriteAssumption
    <3>3. QED
      BY <2>5, <3>1, <3>2 DEF Fetches
  <2>8. QED
    BY <2>3, <2>5, <2>6, <2>7
<1>3. QED
  BY <1>1, <1>2

\* The link is made of four variables.
LEMMA LinkIs ==
    /\ Link = LinkOf(buffer, w_strand, peer_requested, app)
    /\ AfterTask = LinkOf(buffer, Tail(w_strand), peer_requested, app)
    /\ \A b, s, r, a : LinkBecomes(LinkOf(b, s, r, a))
          => buffer' = b /\ w_strand' = s /\ peer_requested' = r /\ app' = a
<1>1. Link = LinkOf(buffer, w_strand, peer_requested, app)
  BY DEF Link, LinkOf
<1>2. AfterTask = LinkOf(buffer, Tail(w_strand), peer_requested, app)
  <2>1. PICK t : t = Tail(w_strand)
    BY Zenon
  <2>2. AfterTask = [LinkOf(buffer, w_strand, peer_requested, app) EXCEPT !.strand = t]
    BY <1>1, <2>1 DEF AfterTask, LinkOf
  <2>3. QED
    BY <2>1, <2>2, Zenon DEF LinkOf
<1>3. ASSUME NEW b, NEW s, NEW r, NEW a, LinkBecomes(LinkOf(b, s, r, a))
      PROVE  buffer' = b /\ w_strand' = s /\ peer_requested' = r /\ app' = a
  BY <1>3 DEF LinkOf, LinkBecomes
<1>4. QED
  BY <1>1, <1>2, <1>3

\* A message of a handler is queued: what every such step keeps.
LEMMA Queues ==
    ASSUME WInv, NEW b \in Buffers, NEW s \in Seq(Tasks), NEW m \in Messages,
           Counted(b), Busy(b, s, writes, socket, socket_open),
           GoesOn(w_strand) => GoesOn(s) \/ m.t = "block",
           LinkBecomes(queue_write(LinkOf(b, s, peer_requested, app), m)),
           UNCHANGED <<socket, socket_open, writes>>
    PROVE  WInv'
<1>1. PICK b2 \in Buffers, s2 \in Seq(Tasks) :
         /\ queue_write(LinkOf(b, s, peer_requested, app), m) = LinkOf(b2, s2, peer_requested, app)
         /\ Counted(b2) /\ Busy(b2, s2, writes, socket, socket_open)
         /\ GoesOn(s) => GoesOn(s2)
         /\ m.t = "block" => GoesOn(s2) \/ writes # {}
  BY QueueWrite
<1>2. buffer' = b2 /\ w_strand' = s2 /\ peer_requested' = peer_requested /\ app' = app
  BY <1>1, LinkIs
<1>3. TypeOK'
  BY <1>1, <1>2 DEF WInv, TypeOK
<1>4. Served(peer_requested, s2, app, writes)
  BY <1>1 DEF WInv, Served
<1>5. QED
  BY <1>1, <1>2, <1>3, <1>4 DEF WInv

-----------------------------------------------------------------------------
\* The messages that the actions send.
LEMMA AreMessages ==
    /\ AnyMessage \in Messages /\ GoAway \in Messages
    /\ \A n \in Nat : BlockMessage(n) \in Messages /\ BlockMessage(n).t = "block"
BY DEF Messages, BlockMessage

\* enqueue keeps the invariant.
LEMMA EnqueueStep == WInv /\ enqueue => WInv'
<1> SUFFICES ASSUME WInv, enqueue PROVE WInv'
  OBVIOUS
<1>1. PICK m \in {AnyMessage, GoAway} :
         /\ LinkBecomes(queue_write(LinkOf(buffer, w_strand, peer_requested, app), m))
         /\ UNCHANGED <<socket, socket_open, writes>>
  BY LinkIs DEF enqueue
<1>2. m \in Messages
  BY AreMessages
<1>3. buffer \in Buffers /\ w_strand \in Seq(Tasks) /\ Counted(buffer) /\ Busy(buffer, w_strand, writes, socket, socket_open)
  BY DEF WInv, TypeOK
<1>4. QED
  BY <1>1, <1>2, <1>3, Queues

\* cancel_sync keeps the invariant.
LEMMA CancelSyncStep == WInv /\ cancel_sync => WInv'
<1> SUFFICES ASSUME WInv, cancel_sync PROVE WInv'
  OBVIOUS
<1>1. PICK b : b = clear_write_queue(buffer)
  OBVIOUS
<1>2. buffer \in Buffers /\ w_strand \in Seq(Tasks) /\ Counted(buffer) /\ Busy(buffer, w_strand, writes, socket, socket_open)
  BY DEF WInv, TypeOK
<1>3. b \in Buffers /\ Counted(b) /\ b.out = buffer.out
  BY <1>1, <1>2, Clears
<1>4. Busy(b, w_strand, writes, socket, socket_open)
  BY <1>2, <1>3 DEF Busy
<1>5. [Link EXCEPT !.buffer = clear_write_queue(@)] = LinkOf(b, w_strand, peer_requested, app)
  <2>1. [Link EXCEPT !.buffer = clear_write_queue(@)] = [Link EXCEPT !.buffer = b]
    BY <1>1 DEF Link
  <2>2. QED
    BY <2>1 DEF Link, LinkOf
<1>6. PICK m \in {AnyMessage, GoAway} :
         /\ LinkBecomes(queue_write([Link EXCEPT !.buffer = clear_write_queue(@)], m))
         /\ UNCHANGED <<socket, socket_open, writes>>
  BY DEF cancel_sync
<1>7. m \in Messages
  BY AreMessages
<1>8. LinkBecomes(queue_write(LinkOf(b, w_strand, peer_requested, app), m))
  BY <1>5, <1>6
<1>9. QED
  BY <1>2, <1>3, <1>4, <1>6, <1>7, <1>8, Queues

\* A request for blocks is begun with its first block, or taken back.
LEMMA SyncRequestStep == WInv /\ sync_request => WInv'
<1> SUFFICES ASSUME WInv, sync_request PROVE WInv'
  OBVIOUS
<1>1. /\ buffer \in Buffers /\ w_strand \in Seq(Tasks) /\ Counted(buffer)
      /\ Busy(buffer, w_strand, writes, socket, socket_open) /\ app \in Seq(Nat)
  BY DEF WInv, TypeOK
<1>2. UNCHANGED <<socket, socket_open, writes>>
  BY DEF sync_request
<1>3. CASE LinkBecomes([Link EXCEPT !.requested = NoRequest, !.buffer = clear_write_queue(@)])
  <2>1. PICK b : b = clear_write_queue(buffer)
    OBVIOUS
  <2>2. b \in Buffers /\ Counted(b) /\ b.out = buffer.out
    BY <1>1, <2>1, Clears
  <2>3. [Link EXCEPT !.requested = NoRequest, !.buffer = clear_write_queue(@)] = LinkOf(b, w_strand, NoRequest, app)
    <3>1. PICK c : c = [LinkOf(buffer, w_strand, peer_requested, app) EXCEPT !.requested = NoRequest, !.buffer = b]
      OBVIOUS
    <3>2. [Link EXCEPT !.requested = NoRequest, !.buffer = clear_write_queue(@)] = c
      BY <2>1, <3>1 DEF Link, LinkOf
    <3>3. c = LinkOf(b, w_strand, NoRequest, app)
      <4>1. DOMAIN c = {"buffer", "strand", "requested", "app"} /\ c = [x \in DOMAIN c |-> c[x]]
        BY <3>1, Zenon DEF LinkOf
      <4>2. c.buffer = b /\ c.strand = w_strand /\ c.requested = NoRequest /\ c.app = app
        BY <3>1 DEF LinkOf
      <4>3. QED
        BY <4>1, <4>2 DEF LinkOf
    <3>4. QED
      BY <3>2, <3>3
  <2>4. buffer' = b /\ w_strand' = w_strand /\ peer_requested' = NoRequest /\ app' = app
    BY <1>3, <2>3, LinkIs
  <2>5. Busy(b, w_strand, writes, socket, socket_open)
    BY <1>1, <2>2 DEF Busy
  <2>6. TypeOK'
    BY <1>2, <2>2, <2>4 DEF WInv, TypeOK, NoRequest
  <2>7. QED
    BY <1>2, <2>2, <2>4, <2>5, <2>6 DEF WInv, Served
<1>4. ASSUME NEW first \in 1 .. MaxBlockNum + 1, NEW last \in 1 .. MaxBlockNum + 1,
             LinkBecomes(enqueue_sync_block([Link EXCEPT !.requested = [last |-> first - 1, end |-> last]]))
      PROVE  WInv'
  <2>1. PICK r : r = [last |-> first - 1, end |-> last]
    BY Zenon
  <2>2. first - 1 \in Nat /\ last \in Nat
    BY WriteAssumption
  <2>3. r \in [last : Nat, end : Nat]
    BY <2>1, <2>2
  <2>4. [Link EXCEPT !.requested = [last |-> first - 1, end |-> last]] = LinkOf(buffer, w_strand, r, app)
    BY <2>1 DEF Link, LinkOf
  <2>5. PICK r2 \in [last : Nat, end : Nat], a2 \in Seq(Nat) :
           /\ enqueue_sync_block(LinkOf(buffer, w_strand, r, app)) = LinkOf(buffer, w_strand, r2, a2)
           /\ r2 # NoRequest /\ r2.last < MaxBlockNum => Fetches(a2)
    BY <1>1, <2>3, EnqueueSyncBlock
  <2>6. buffer' = buffer /\ w_strand' = w_strand /\ peer_requested' = r2 /\ app' = a2
    <3>1. LinkBecomes(LinkOf(buffer, w_strand, r2, a2))
      BY <1>4, <2>4, <2>5, Zenon
    <3>2. QED
      BY <3>1, LinkIs, Zenon
  <2>7. TypeOK'
    BY <1>2, <2>5, <2>6 DEF WInv, TypeOK
  <2>8. Served(r2, w_strand, a2, writes)
    BY <2>5 DEF Served
  <2>9. QED
    BY <1>1, <1>2, <2>6, <2>7, <2>8 DEF WInv
<1>5. QED
  BY <1>3, <1>4, Zenon DEF sync_request

\* A block that was fetched is posted, a handshake in place of one that the chain does not have.
LEMMA FetchBlockStep == WInv /\ fetch_block => WInv'
<1> SUFFICES ASSUME WInv, fetch_block PROVE WInv'
  OBVIOUS
<1>1. /\ buffer \in Buffers /\ w_strand \in Seq(Tasks) /\ Counted(buffer)
      /\ Busy(buffer, w_strand, writes, socket, socket_open) /\ app \in Seq(Nat) /\ app # <<>>
  BY DEF WInv, TypeOK, fetch_block
<1>2. UNCHANGED <<socket, socket_open, writes>>
  BY DEF fetch_block
<1>3. PICK n \in Nat : n = Head(app)
  BY <1>1
<1>4. PICK e : e = IF n <= MaxBlockNum THEN [t |-> "block", n |-> n] ELSE [t |-> "handshake"]
  BY Zenon
<1>5. e \in Tasks /\ ~IsWrite(e) /\ (n <= MaxBlockNum => e.t = "block")
  BY <1>4 DEF Tasks, IsWrite
<1>6. PICK s2 : s2 = Append(w_strand, e)
  BY Zenon
<1>7. PICK a2 : a2 = Tail(app)
  BY Zenon
<1>8. buffer' = buffer /\ w_strand' = s2 /\ peer_requested' = peer_requested /\ app' = a2
  <2>1. PostTo(Link, e) = LinkOf(buffer, s2, peer_requested, app)
    BY <1>6, LinkIs, PostToLink
  <2>2. [PostTo(Link, e) EXCEPT !.app = Tail(@)] = LinkOf(buffer, s2, peer_requested, a2)
    <3>1. [PostTo(Link, e) EXCEPT !.app = Tail(@)] = [LinkOf(buffer, s2, peer_requested, app) EXCEPT !.app = a2]
      BY <1>7, <2>1 DEF LinkOf
    <3>2. QED
      BY <3>1 DEF LinkOf
  <2>3. LinkBecomes([PostTo(Link, e) EXCEPT !.app = Tail(@)])
    BY <1>3, <1>4 DEF fetch_block
  <2>4. LinkBecomes(LinkOf(buffer, s2, peer_requested, a2))
    BY <2>2, <2>3, Zenon
  <2>5. QED
    BY <2>4, LinkIs, Zenon
<1>9. s2 \in Seq(Tasks) /\ Busy(buffer, s2, writes, socket, socket_open)
  <2>1. s2 \in Seq(Tasks)
    BY <1>1, <1>5, <1>6, AppendTask
  <2>2. QED
    BY <1>1, <1>5, <1>6, <2>1, PostOther, Zenon DEF Busy
<1>10. a2 \in Seq(Nat) /\ (Fetches(app) => n <= MaxBlockNum \/ Fetches(a2))
  <2>1. a2 \in Seq(Nat) /\ Len(app) \in Nat /\ Len(app) # 0 /\ Len(a2) = Len(app) - 1
        /\ app[1] = n /\ \A i \in 1 .. Len(app) - 1 : a2[i] = app[i + 1]
    BY <1>1, <1>3, <1>7
  <2>2. ASSUME Fetches(app), ~(n <= MaxBlockNum) PROVE Fetches(a2)
    <3>1. PICK i \in 1 .. Len(app) : app[i] <= MaxBlockNum
      BY <2>2 DEF Fetches
    <3>2. i - 1 \in 1 .. Len(a2) /\ a2[i - 1] = app[i]
      <4>1. i # 1
        BY <2>1, <2>2, <3>1
      <4>2. i - 1 \in 1 .. Len(app) - 1 /\ (i - 1) + 1 = i
        BY <2>1, <4>1
      <4>3. QED
        BY <2>1, <4>2
    <3>3. QED
      BY <3>1, <3>2 DEF Fetches
  <2>3. QED
    BY <2>1, <2>2
<1>11. Served(peer_requested, s2, a2, writes)
  <2>1. GoesOn(w_strand) \/ n <= MaxBlockNum => GoesOn(s2)
    BY <1>1, <1>5, <1>6, PostGoesOn
  <2>2. QED
    BY <1>10, <2>1 DEF WInv, Served
<1>12. TypeOK'
  BY <1>2, <1>8, <1>9, <1>10 DEF WInv, TypeOK
<1>13. QED
  BY <1>1, <1>2, <1>8, <1>9, <1>11, <1>12 DEF WInv

\* What the strand has when a handler runs.
LEMMA RunsTask ==
    ASSUME WInv, NEW t, Runs(t)
    PROVE  /\ buffer \in Buffers /\ w_strand \in Seq(Tasks) /\ w_strand # <<>> /\ Counted(buffer)
           /\ Busy(buffer, w_strand, writes, socket, socket_open)
           /\ Tail(w_strand) \in Seq(Tasks) /\ Head(w_strand) \in Tasks /\ Head(w_strand).t = t
BY DEF WInv, TypeOK, Runs

\* A handler that is no write is taken from the strand.
LEMMA TakeOther ==
    ASSUME WInv, NEW t, Runs(t), t \notin {"write", "written"}
    PROVE  /\ Busy(buffer, Tail(w_strand), writes, socket, socket_open)
           /\ GoesOn(w_strand) => t \in {"block", "close"} \/ GoesOn(Tail(w_strand))
<1>1. ~IsWrite(Head(w_strand))
  BY RunsTask DEF IsWrite
<1>2. Busy(buffer, Tail(w_strand), writes, socket, socket_open)
  BY <1>1, RunsTask, TakeTask DEF Busy
<1>3. GoesOn(w_strand) => t \in {"block", "close"} \/ GoesOn(Tail(w_strand))
  <2>1. Head(w_strand).t = t
    BY RunsTask
  <2>2. GoesOn(w_strand) => Head(w_strand).t \in {"block", "write", "written", "close"} \/ GoesOn(Tail(w_strand))
    BY RunsTask, TakeTask
  <2>3. QED
    BY <2>1, <2>2
<1>4. QED
  BY <1>2, <1>3

\* A block is queued for writing.
LEMMA EnqueueBlockStep == WInv /\ enqueue_block => WInv'
<1> SUFFICES ASSUME WInv, enqueue_block PROVE WInv'
  OBVIOUS
<1>1. Runs("block") /\ UNCHANGED <<socket, socket_open, writes>>
  BY DEF enqueue_block
<1>2. PICK m : m = BlockMessage(Head(w_strand).n)
  OBVIOUS
<1>3. m \in Messages /\ m.t = "block"
  <2>1. Head(w_strand).n \in Nat
    BY <1>1, RunsTask DEF Tasks
  <2>2. QED
    BY <1>2, <2>1, AreMessages
<1>4. LinkBecomes(queue_write(LinkOf(buffer, Tail(w_strand), peer_requested, app), m))
  BY <1>2, LinkIs DEF enqueue_block
<1>5. Busy(buffer, Tail(w_strand), writes, socket, socket_open)
  BY <1>1, TakeOther
<1>6. QED
  BY <1>1, <1>3, <1>4, <1>5, RunsTask, Queues, Zenon

\* A handshake is sent, or not.
LEMMA SendHandshakeStep == WInv /\ w_send_handshake => WInv'
<1> SUFFICES ASSUME WInv, w_send_handshake PROVE WInv'
  OBVIOUS
<1>1. Runs("handshake") /\ UNCHANGED <<socket, socket_open, writes>>
  BY DEF w_send_handshake
<1>2. /\ Busy(buffer, Tail(w_strand), writes, socket, socket_open)
      /\ GoesOn(w_strand) => GoesOn(Tail(w_strand))
  BY <1>1, TakeOther
<1>3. \/ LinkBecomes(queue_write(AfterTask, AnyMessage))
      \/ LinkBecomes(AfterTask)
  BY DEF w_send_handshake
<1>4. CASE LinkBecomes(queue_write(AfterTask, AnyMessage))
  <2>1. LinkBecomes(queue_write(LinkOf(buffer, Tail(w_strand), peer_requested, app), AnyMessage))
    BY <1>4, LinkIs
  <2>2. QED
    BY <1>1, <1>2, <2>1, RunsTask, AreMessages, Queues, Zenon
<1>5. CASE LinkBecomes(AfterTask)
  <2>1. buffer' = buffer /\ w_strand' = Tail(w_strand) /\ peer_requested' = peer_requested /\ app' = app
    BY <1>5, LinkIs, Zenon
  <2>2. TypeOK'
    BY <1>1, <2>1, RunsTask DEF WInv, TypeOK
  <2>3. Served(peer_requested, Tail(w_strand), app, writes)
    BY <1>2 DEF WInv, Served
  <2>4. QED
    BY <1>1, <1>2, <2>1, <2>2, <2>3 DEF WInv
<1>6. QED
  BY <1>3, <1>4, <1>5

\* A write is started, or has failed at once.
LEMMA AsyncWriteStep == WInv /\ async_write => WInv'
<1> SUFFICES ASSUME WInv, async_write PROVE WInv'
  OBVIOUS
<1>1. Runs("write") /\ UNCHANGED <<socket, socket_open>>
  BY DEF async_write
<1>2. PICK s : s = Tail(w_strand)
  BY Zenon
<1>3. /\ buffer \in Buffers /\ w_strand \in Seq(Tasks) /\ w_strand # <<>> /\ s \in Seq(Tasks) /\ Counted(buffer)
      /\ Busy(buffer, w_strand, writes, socket, socket_open) /\ IsWrite(Head(w_strand)) /\ Head(w_strand).t = "write"
  BY <1>1, <1>2, RunsTask DEF IsWrite
<1>4. buffer.out # <<>> /\ writes = {} /\ NoWrite(s) /\ Head(w_strand).bufs = buffer.out
  BY <1>2, <1>3, TakeTask DEF Busy
<1>5. CASE socket_open
  <2>1. LinkBecomes(AfterTask) /\ writes' = writes \cup {[socket |-> socket, bufs |-> Head(w_strand).bufs]}
    BY <1>5 DEF async_write
  <2>2. buffer' = buffer /\ w_strand' = s /\ peer_requested' = peer_requested /\ app' = app
    BY <1>2, <2>1, LinkIs, Zenon
  <2>3. writes' = {[socket |-> socket, bufs |-> buffer.out]}
    BY <1>4, <2>1
  <2>4. TypeOK'
    BY <1>1, <1>3, <2>2 DEF WInv, TypeOK
  <2>5. Busy(buffer, s, writes', socket, socket_open)
    BY <1>4, <1>5, <2>3 DEF Busy
  <2>6. Served(peer_requested, s, app, writes')
    BY <2>3 DEF Served
  <2>7. QED
    BY <1>1, <1>3, <2>2, <2>4, <2>5, <2>6 DEF WInv
<1>6. CASE ~socket_open
  <2>1. PICK e : e = [t |-> "written", socket |-> socket, error |-> TRUE]
    BY Zenon
  <2>2. e \in Tasks /\ IsWrite(e) /\ e.t = "written"
    BY <2>1 DEF WInv, TypeOK, Tasks, IsWrite
  <2>3. PICK s2 : s2 = Append(s, e)
    BY Zenon
  <2>4. LinkBecomes(PostTo(AfterTask, e)) /\ UNCHANGED writes
    BY <1>6, <2>1 DEF async_write
  <2>5. PostTo(AfterTask, e) = LinkOf(buffer, s2, peer_requested, app)
    BY <1>2, <2>3, LinkIs, PostToLink
  <2>6. buffer' = buffer /\ w_strand' = s2 /\ peer_requested' = peer_requested /\ app' = app
    BY <2>4, <2>5, LinkIs
  <2>7. s2 \in Seq(Tasks) /\ OneWrite(s2) /\ Reads(s2, buffer.out) /\ GoesOn(s2)
    BY <1>3, <1>4, <2>2, <2>3, AppendTask, PostWrite, PostGoesOn
  <2>8. TypeOK'
    BY <1>1, <2>6, <2>7 DEF WInv, TypeOK
  <2>9. Busy(buffer, s2, writes, socket, socket_open)
    BY <1>4, <2>7 DEF Busy
  <2>10. Served(peer_requested, s2, app, writes)
    BY <2>7 DEF Served
  <2>11. QED
    BY <1>1, <1>3, <2>4, <2>6, <2>8, <2>9, <2>10 DEF WInv
<1>7. QED
  BY <1>3, <1>5, <1>6 DEF WInv, TypeOK

\* The operating system is done with the write.
LEMMA CompleteStep == WInv /\ complete => WInv'
<1> SUFFICES ASSUME WInv, complete PROVE WInv'
  OBVIOUS
<1>1. PICK w \in writes, error \in BOOLEAN :
         /\ writes' = writes \ {w}
         /\ LinkBecomes(PostTo(Link, [t |-> "written", socket |-> w.socket, error |-> error]))
         /\ UNCHANGED <<socket, socket_open>>
  BY DEF complete
<1>2. /\ buffer \in Buffers /\ w_strand \in Seq(Tasks) /\ Counted(buffer)
      /\ Busy(buffer, w_strand, writes, socket, socket_open) /\ socket \in Nat
  BY DEF WInv, TypeOK
<1>3. buffer.out # <<>> /\ NoWrite(w_strand) /\ w.socket = socket /\ writes' = {}
  BY <1>1, <1>2 DEF Busy
<1>4. PICK e : e = [t |-> "written", socket |-> w.socket, error |-> error]
  BY Zenon
<1>5. e \in Tasks /\ IsWrite(e) /\ e.t = "written"
  BY <1>2, <1>3, <1>4 DEF Tasks, IsWrite
<1>6. PICK s2 : s2 = Append(w_strand, e)
  BY Zenon
<1>7. PostTo(Link, e) = LinkOf(buffer, s2, peer_requested, app)
  BY <1>6, LinkIs, PostToLink
<1>8. buffer' = buffer /\ w_strand' = s2 /\ peer_requested' = peer_requested /\ app' = app
  BY <1>1, <1>4, <1>7, LinkIs
<1>9. s2 \in Seq(Tasks) /\ OneWrite(s2) /\ Reads(s2, buffer.out) /\ GoesOn(s2)
  BY <1>2, <1>3, <1>5, <1>6, AppendTask, PostWrite, PostGoesOn
<1>10. TypeOK'
  BY <1>1, <1>8, <1>9 DEF WInv, TypeOK
<1>11. Busy(buffer, s2, writes', socket, socket_open)
  BY <1>3, <1>9 DEF Busy
<1>12. Served(peer_requested, s2, app, writes')
  BY <1>9 DEF Served
<1>13. QED
  BY <1>1, <1>2, <1>8, <1>10, <1>11, <1>12 DEF WInv

\* The handler of a completed write starts the next one, and fetches the next block.
LEMMA WrittenStep == WInv /\ written => WInv'
<1> SUFFICES ASSUME WInv, written PROVE WInv'
  OBVIOUS
<1>1. Runs("written") /\ UNCHANGED <<socket, socket_open, writes>>
  BY DEF written
<1>2. PICK s : s = Tail(w_strand)
  BY Zenon
<1>3. PICK b : b = clear_out_queue(buffer)
  OBVIOUS
<1>4. /\ buffer \in Buffers /\ w_strand \in Seq(Tasks) /\ w_strand # <<>> /\ s \in Seq(Tasks) /\ Counted(buffer)
      /\ Busy(buffer, w_strand, writes, socket, socket_open) /\ IsWrite(Head(w_strand))
  BY <1>1, <1>2, RunsTask DEF IsWrite
<1>5. writes = {} /\ NoWrite(s)
  BY <1>2, <1>4, TakeTask DEF Busy
<1>6. b \in Buffers /\ Counted(b) /\ b.out = <<>>
  BY <1>3, <1>4, Clears
<1>7. Busy(b, s, writes, socket, socket_open)
  BY <1>5, <1>6 DEF Busy
<1>8. PICK x : x = LinkOf(b, s, peer_requested, app)
  OBVIOUS
<1>9. [AfterTask EXCEPT !.buffer = clear_out_queue(@)] = x
  <2>1. [AfterTask EXCEPT !.buffer = clear_out_queue(@)] = [LinkOf(buffer, s, peer_requested, app) EXCEPT !.buffer = b]
    BY <1>2, <1>3, LinkIs DEF LinkOf
  <2>2. QED
    BY <1>8, <2>1 DEF LinkOf
<1>10. LinkBecomes(close(x)) \/ LinkBecomes(AfterWrite(x))
  BY <1>9 DEF written
<1>11. CASE LinkBecomes(close(x))
  <2>1. PICK s2 \in Seq(Tasks) :
           /\ close(LinkOf(b, s, peer_requested, app)) = LinkOf(b, s2, peer_requested, app)
           /\ Busy(b, s2, writes, socket, socket_open) /\ GoesOn(s2)
    BY <1>4, <1>7, CloseKeeps
  <2>2. buffer' = b /\ w_strand' = s2 /\ peer_requested' = peer_requested /\ app' = app
    BY <1>8, <1>11, <2>1, LinkIs
  <2>3. TypeOK'
    BY <1>1, <1>6, <2>2 DEF WInv, TypeOK
  <2>4. Served(peer_requested, s2, app, writes)
    BY <2>1 DEF Served
  <2>5. QED
    BY <1>1, <1>6, <2>1, <2>2, <2>3, <2>4 DEF WInv
<1>12. CASE LinkBecomes(AfterWrite(x))
  <2>1. out_callback(x) = x
    BY <1>6, <1>8 DEF out_callback, LinkOf
  <2>2. peer_requested \in [last : Nat, end : Nat] /\ app \in Seq(Nat)
    BY DEF WInv, TypeOK
  <2>3. PICK r2 \in [last : Nat, end : Nat], a2 \in Seq(Nat) :
           /\ enqueue_sync_block(LinkOf(b, s, peer_requested, app)) = LinkOf(b, s, r2, a2)
           /\ r2 # NoRequest /\ r2.last < MaxBlockNum => Fetches(a2)
    BY <2>2, EnqueueSyncBlock
  <2>4. PICK b2 \in Buffers, s2 \in Seq(Tasks) :
           /\ do_queue_write(LinkOf(b, s, r2, a2)) = LinkOf(b2, s2, r2, a2)
           /\ Counted(b2) /\ Busy(b2, s2, writes, socket, socket_open)
    BY <1>4, <1>6, <1>7, DoQueueWrite
  <2>5. AfterWrite(x) = LinkOf(b2, s2, r2, a2)
    BY <1>8, <2>1, <2>3, <2>4 DEF AfterWrite
  <2>6. buffer' = b2 /\ w_strand' = s2 /\ peer_requested' = r2 /\ app' = a2
    BY <1>12, <2>5, LinkIs
  <2>7. TypeOK'
    BY <1>1, <2>3, <2>4, <2>6 DEF WInv, TypeOK
  <2>8. Served(r2, s2, a2, writes)
    BY <2>3 DEF Served
  <2>9. QED
    BY <1>1, <2>4, <2>6, <2>7, <2>8 DEF WInv
<1>13. QED
  BY <1>10, <1>11, <1>12

\* The connection is closed: the write of the socket, if there is one, ends with an error.
LEMMA CloseStep == WInv /\ w_close => WInv'
<1> SUFFICES ASSUME WInv, w_close PROVE WInv'
  OBVIOUS
<1>1. PICK s : s = Tail(w_strand)
  BY Zenon
<1>2. PICK b : b = clear_write_queue(buffer)
  OBVIOUS
<1>3. /\ Runs("close") /\ socket_open' = FALSE
      /\ socket' = IF socket_open THEN socket + 1 ELSE socket
  BY DEF w_close
<1>4. /\ buffer \in Buffers /\ s \in Seq(Tasks) /\ Counted(buffer)
      /\ Busy(buffer, s, writes, socket, socket_open) /\ socket \in Nat
  BY <1>1, <1>3, RunsTask, TakeOther DEF WInv, TypeOK
<1>5. b \in Buffers /\ Counted(b) /\ b.out = buffer.out
  BY <1>2, <1>4, Clears
<1>6. PICK cancelled : cancelled = {w \in writes : w.socket = socket}
  BY Zenon
<1>7. PICK x : x = LinkOf(b, s, NoRequest, app)
  OBVIOUS
<1>8. [AfterTask EXCEPT !.buffer = clear_write_queue(@), !.requested = NoRequest] = x
  <2>1. PICK c : c = [LinkOf(buffer, s, peer_requested, app) EXCEPT !.buffer = b, !.requested = NoRequest]
    OBVIOUS
  <2>2. [AfterTask EXCEPT !.buffer = clear_write_queue(@), !.requested = NoRequest] = c
    BY <1>1, <1>2, <2>1, LinkIs DEF LinkOf
  <2>3. DOMAIN c = {"buffer", "strand", "requested", "app"} /\ c = [y \in DOMAIN c |-> c[y]]
    BY <2>1, Zenon DEF LinkOf
  <2>4. c.buffer = b /\ c.strand = s /\ c.requested = NoRequest /\ c.app = app
    BY <2>1 DEF LinkOf
  <2>5. QED
    BY <1>7, <2>2, <2>3, <2>4, Zenon DEF LinkOf
<1>9. PICK e : e = [t |-> "written", socket |-> socket, error |-> TRUE]
  BY Zenon
<1>10. e \in Tasks /\ IsWrite(e) /\ e.t = "written"
  BY <1>4, <1>9 DEF Tasks, IsWrite
<1>11. PICK s1 \in Seq(Tasks) :
          /\ (IF cancelled = {} THEN x ELSE PostTo(x, e)) = LinkOf(b, s1, NoRequest, app)
          /\ writes \ cancelled = {} /\ Busy(b, s1, {}, socket', socket_open')
  <2>1. CASE writes = {}
    <3>1. cancelled = {} /\ writes \ cancelled = {}
      BY <1>6, <2>1
    <3>2. Busy(b, s, {}, socket', socket_open')
      BY <1>4, <1>5, <2>1, Zenon DEF Busy
    <3>3. QED
      BY <1>4, <1>7, <3>1, <3>2
  <2>2. CASE writes # {}
    <3>1. buffer.out # <<>> /\ NoWrite(s) /\ writes = {[socket |-> socket, bufs |-> buffer.out]}
      BY <1>4, <2>2 DEF Busy
    <3>2. cancelled # {} /\ writes \ cancelled = {}
      <4>1. PICK w : w = [socket |-> socket, bufs |-> buffer.out]
        BY Zenon
      <4>2. writes = {w} /\ w.socket = socket
        BY <3>1, <4>1
      <4>3. QED
        BY <1>6, <4>2
    <3>3. PICK s1 : s1 = Append(s, e)
      BY Zenon
    <3>4. s1 \in Seq(Tasks) /\ OneWrite(s1) /\ Reads(s1, b.out)
      BY <1>4, <1>10, <3>1, <3>3, AppendTask, PostWrite
    <3>5. Busy(b, s1, {}, socket', socket_open')
      BY <1>5, <3>1, <3>4 DEF Busy
    <3>6. PostTo(x, e) = LinkOf(b, s1, NoRequest, app)
      BY <1>7, <3>3, PostToLink
    <3>7. QED
      BY <3>2, <3>4, <3>5, <3>6
  <2>3. QED
    BY <2>1, <2>2
<1>12. PICK s2 \in Seq(Tasks) :
          /\ (IF connecting /\ ~socket_open THEN close(LinkOf(b, s1, NoRequest, app)) ELSE LinkOf(b, s1, NoRequest, app))
                = LinkOf(b, s2, NoRequest, app)
          /\ Busy(b, s2, {}, socket', socket_open')
  <2>1. PICK s2 \in Seq(Tasks) :
           close(LinkOf(b, s1, NoRequest, app)) = LinkOf(b, s2, NoRequest, app) /\ Busy(b, s2, {}, socket', socket_open')
    BY <1>11, CloseKeeps
  <2>2. QED
    BY <1>11, <2>1
<1>13. writes' = {} /\ buffer' = b /\ w_strand' = s2 /\ peer_requested' = NoRequest /\ app' = app
  <2>1. /\ LinkBecomes(IF connecting /\ ~socket_open THEN close(LinkOf(b, s1, NoRequest, app)) ELSE LinkOf(b, s1, NoRequest, app))
        /\ writes' = writes \ cancelled
    BY <1>6, <1>8, <1>9, <1>11 DEF w_close
  <2>2. LinkBecomes(LinkOf(b, s2, NoRequest, app))
    BY <1>12, <2>1
  <2>3. QED
    BY <1>11, <2>1, <2>2, LinkIs
<1>14. TypeOK'
  <2>1. socket' \in Nat /\ socket_open' \in BOOLEAN
    <3>1. socket' = socket \/ socket' = socket + 1
      BY <1>3
    <3>2. socket \in Nat
      BY <1>4
    <3>3. socket' \in Nat
      BY <3>1, <3>2
    <3>4. QED
      BY <1>3, <3>3, Zenon
  <2>2. NoRequest \in [last : Nat, end : Nat] /\ app \in Seq(Nat)
    BY DEF WInv, TypeOK, NoRequest
  <2>3. QED
    BY <1>5, <1>12, <1>13, <2>1, <2>2 DEF TypeOK
<1>15. QED
  BY <1>3, <1>5, <1>12, <1>13, <1>14 DEF WInv, Served

\* The peer has closed the connection.
LEMMA ReadErrorStep == WInv /\ read_error => WInv'
<1> SUFFICES ASSUME WInv, read_error PROVE WInv'
  OBVIOUS
<1>1. /\ LinkBecomes(close(LinkOf(buffer, w_strand, peer_requested, app)))
      /\ UNCHANGED <<socket, socket_open, writes>>
  BY LinkIs DEF read_error
<1>2. buffer \in Buffers /\ w_strand \in Seq(Tasks) /\ Counted(buffer) /\ Busy(buffer, w_strand, writes, socket, socket_open)
  BY DEF WInv, TypeOK
<1>3. PICK s2 \in Seq(Tasks) :
         /\ close(LinkOf(buffer, w_strand, peer_requested, app)) = LinkOf(buffer, s2, peer_requested, app)
         /\ Busy(buffer, s2, writes, socket, socket_open) /\ GoesOn(s2)
  BY <1>2, CloseKeeps
<1>4. buffer' = buffer /\ w_strand' = s2 /\ peer_requested' = peer_requested /\ app' = app
  BY <1>1, <1>3, LinkIs
<1>5. TypeOK'
  BY <1>1, <1>3, <1>4 DEF WInv, TypeOK
<1>6. Served(peer_requested, s2, app, writes)
  BY <1>3 DEF Served
<1>7. QED
  BY <1>1, <1>2, <1>3, <1>4, <1>5, <1>6 DEF WInv

\* A new connection begins when no handler is left and the socket is closed: there is no write.
LEMMA ConnectStep == WInv /\ (w_connect \/ start_session) => WInv'
<1>1. ASSUME WInv, w_connect PROVE WInv'
  <2>1. /\ ~socket_open /\ w_strand = <<>> /\ UNCHANGED <<socket, socket_open, writes>>
        /\ LinkBecomes([Link EXCEPT !.buffer = clear_out_queue(@)])
    BY <1>1 DEF w_connect
  <2>2. PICK b : b = clear_out_queue(buffer)
    OBVIOUS
  <2>3. buffer \in Buffers /\ Counted(buffer) /\ Busy(buffer, w_strand, writes, socket, socket_open)
    BY <1>1 DEF WInv, TypeOK
  <2>4. b \in Buffers /\ Counted(b) /\ b.out = <<>>
    BY <2>2, <2>3, Clears
  <2>5. NoWrite(w_strand) /\ ~OneWrite(w_strand)
    BY <2>1 DEF NoWrite, OneWrite
  <2>6. Busy(b, w_strand, writes, socket, socket_open)
    BY <2>1, <2>3, <2>4, <2>5 DEF Busy
  <2>7. [Link EXCEPT !.buffer = clear_out_queue(@)] = LinkOf(b, w_strand, peer_requested, app)
    <3>1. [Link EXCEPT !.buffer = clear_out_queue(@)] = [Link EXCEPT !.buffer = b]
      BY <2>2 DEF Link
    <3>2. QED
      BY <3>1 DEF Link, LinkOf
  <2>8. buffer' = b /\ w_strand' = w_strand /\ peer_requested' = peer_requested /\ app' = app
    BY <2>1, <2>7, LinkIs
  <2>9. TypeOK'
    BY <1>1, <2>1, <2>4, <2>8 DEF WInv, TypeOK
  <2>10. QED
    BY <1>1, <2>1, <2>4, <2>6, <2>8, <2>9 DEF WInv
<1>2. ASSUME WInv, start_session PROVE WInv'
  <2>1. /\ ~socket_open /\ socket_open' = TRUE
        /\ UNCHANGED <<buffer, socket, peer_requested, w_strand, app, writes>>
    BY <1>2 DEF start_session
  <2>2. Busy(buffer, w_strand, writes, socket, socket_open)
    BY <1>2 DEF WInv
  <2>3. Busy(buffer, w_strand, writes, socket, socket_open')
    BY <2>1, <2>2 DEF Busy
  <2>4. TypeOK'
    BY <1>2, <2>1 DEF WInv, TypeOK
  <2>5. QED
    BY <1>2, <2>1, <2>3, <2>4 DEF WInv
<1>3. QED
  BY <1>1, <1>2

-----------------------------------------------------------------------------
\* A connection that was just opened satisfies the invariant.
LEMMA WriteStart == WriteInit => WInv
<1> SUFFICES ASSUME WriteInit PROVE WInv
  OBVIOUS
<1>1. /\ buffer.write = <<>> /\ buffer.sync = <<>> /\ buffer.out = <<>> /\ buffer.size = 0
      /\ w_strand = <<>> /\ writes = {} /\ peer_requested = NoRequest
  BY DEF WriteInit, Empty
<1>2. TypeOK
  BY DEF WriteInit, Empty, TypeOK, Buffers, NoRequest
<1>3. QED
  BY <1>1, <1>2 DEF WInv, Counted, Busy, NoWrite, Served

\* Every step of a connection keeps the invariant.
LEMMA WriteStep == WInv /\ [WriteNext]_write_vars => WInv'
<1>1. ASSUME WInv, UNCHANGED write_vars PROVE WInv'
  BY <1>1 DEF WInv, write_vars, TypeOK
<1>2. WInv /\ WriteNext => WInv'
  BY EnqueueStep, CancelSyncStep, SyncRequestStep, FetchBlockStep, EnqueueBlockStep, SendHandshakeStep,
     AsyncWriteStep, WrittenStep, CloseStep, CompleteStep, ReadErrorStep, ConnectStep
  DEF WriteNext, StrandStep
<1>3. QED
  BY <1>1, <1>2

\* The invariant says that at most one write is in progress and that a request goes on.
LEMMA WriteImplies == WInv => WritesSound
<1> SUFFICES ASSUME WInv PROVE WritesSound
  OBVIOUS
<1>1. Busy(buffer, w_strand, writes, socket, socket_open) /\ Counted(buffer)
  BY DEF WInv
<1>2. Cardinality(writes) <= 1
  <2>1. PICK w : writes = {} \/ writes = {w}
    BY <1>1, Zenon DEF Busy
  <2>2. Cardinality(writes) = 0 \/ Cardinality(writes) = 1
    BY <2>1, FS_EmptySet, FS_Singleton, Zenon
  <2>3. QED
    BY <2>2
<1>3. \A w \in writes : w.socket = socket /\ w.bufs = buffer.out
  BY <1>1 DEF Busy
<1>4. RequestServed
  <2>1. Fetches(app) => app # <<>>
    BY DEF Fetches
  <2>2. GoesOn(w_strand) => w_strand # <<>>
    BY DEF GoesOn
  <2>3. QED
    BY <2>1, <2>2 DEF WInv, Served, RequestServed
<1>5. QED
  BY <1>1, <1>2, <1>3, <1>4 DEF WritesSound, WritesSafe, Counted

\* do_queue_write, the handler of a completed write, _close and connect, in every order the strand
\* runs them in: at most one write is in progress, of what the out queue keeps; the size of the
\* queues is counted right; and a request for blocks is not forgotten while the chain has more.
THEOREM WritesStaySound == WriteSpec => []WritesSound
<1>1. QED
  BY WriteStart, WriteStep, WriteImplies, PTL DEF WriteSpec
=============================================================================
