---------------------------- MODULE SyncManager ----------------------------
(***************************************************************************)
(* How a node catches up with its peers: the sync manager of the net       *)
(* plugin (net_plugin.cpp), the connections it runs on and the main thread *)
(* that applies the blocks.                                                *)
(*                                                                         *)
(* One node is modelled from the inside, its peers by what the same code   *)
(* makes them answer.  All of them are on one chain, so a block is its     *)
(* number, and a block links if it is the next one after the head.  Every  *)
(* connection has a strand, a queue of handlers that run one at a time;    *)
(* the strands, the main thread, the timers and the peers interleave.      *)
(***************************************************************************)
EXTENDS Integers, Sequences, FiniteSetsExt

CONSTANTS
  Peers,       \* how many connections there are; they are 1..Peers, in the
               \* order of the set net_plugin_impl::connections
  Dialled,     \* the connections that the node opens; the peer opens the others
  Span,        \* sync_req_span: blocks asked for at a time
  Lag,         \* distance between the head and the last irreversible block
  MaxBlock,    \* bound: the last block of the chain
  PeerHeads,   \* the heads that the peers start with
  MaxRejected, \* max_consecutive_rejected_windows_
  MaxTroubles, \* bound: connections that break, answers that come too late, blocks that are
               \* refused and blocks that are broadcast meanwhile, together
  MaxWaiting   \* bound: blocks that wait for the main thread

ASSUME SyncAssumption ==
  /\ Peers \in Nat \ {0, 1} /\ Span \in Nat \ {0} /\ Lag \in Nat
  /\ MaxBlock \in Nat /\ MaxRejected \in Nat \ {0}

VARIABLES
  head,     \* chain_fork_head_blk_num: the node's best block
  sync,     \* the members of the sync_manager; state is lib_catchup, head_catchup or in_sync
  conn,     \* the members of the connections; timer: the timer of sync_wait is armed;
            \* sent: the head in the last handshake sent, or 0; fork_head: 0 if there is none
  strand,   \* the handlers posted to the strand of a connection
  in,       \* what a peer has sent, or is about to send
  mainq,    \* blocks posted to the main thread
  peer,     \* the peers
  refused,  \* a block was dropped because the node was producing
  troubles  \* counter for the bound

svars == <<head, sync, conn, strand, in, mainq, peer, refused, troubles>>

Conn == 1 .. Peers
Num == 0 .. MaxBlock
None == 0

LibOf(n) == Max({0, n - Lag})

----------------------------------------------------------------------------
(* The part of the state that the handlers of the sync manager change is   *)
(* handled as one record, so that a handler is the composition of the      *)
(* functions it calls.                                                     *)

Node == [sync |-> sync, conn |-> conn, strand |-> strand, in |-> in, peer |-> peer]

Becomes(x) ==
  sync' = x.sync /\ conn' = x.conn /\ strand' = x.strand /\ in' = x.in /\ peer' = x.peer

Post(x, c, task) == [x EXCEPT !.strand[c] = Append(@, task)]

\* connection::current()
Current(x, c) == x.conn[c].open /\ ~x.conn[c].connecting /\ ~x.conn[c].syncing

(* What a peer does with a message, by the same code: recv_handshake        *)
(* answers with a notice if the peer is ahead; a request for a range, or    *)
(* for the branch after a block (blk_send_branch), is answered with blocks; *)
(* the empty range drops the blocks that are not yet written.               *)
BlocksTo(first, last) == [i \in 1 .. (last - first + 1) |-> [t |-> "block", n |-> first + i - 1]]

Notice(ph, num) ==
  IF LibOf(ph) > num THEN <<[t |-> "last_irr_catch_up", head |-> ph]>>
  ELSE IF ph > num THEN <<[t |-> "catch_up", head |-> ph]>> ELSE <<>>

Answer(p, msg) ==
  CASE msg.t = "handshake" ->
         Notice(p.head, msg.head) \o (IF p.greeted THEN <<>> ELSE <<[t |-> "handshake", head |-> p.head]>>)
    [] msg.t = "request" -> BlocksTo(msg.first, Min({msg.last, p.head}))
    [] msg.t = "catch_up" /\ msg.head <= p.head -> BlocksTo(msg.head + 1, p.head)
    [] msg.t = "catch_up" /\ msg.head > p.head -> <<[t |-> "go_away"]>>
    [] OTHER -> <<>>

PeerAfter(p, msg) ==
  CASE msg.t = "handshake" -> [p EXCEPT !.greeted = TRUE, !.syncing = LibOf(p.head) > msg.head]
    [] msg.t = "none" -> [p EXCEPT !.syncing = FALSE]
    [] OTHER -> p

(* enqueue; a write to a socket that is not open ends in another close.     *)
Enqueue(x, c, msg) ==
  IF x.conn[c].open
  THEN [x EXCEPT !.in[c] = @ \o Answer(x.peer[c], msg), !.peer[c] = PeerAfter(@, msg)]
  ELSE Post(x, c, [t |-> "close"])

send_handshake(x, c, force) == Post(x, c, [t |-> "handshake", force |-> force])

cancel_wait(x, c) == [x EXCEPT !.conn[c].timer = FALSE]

sync_wait(x, c) == [x EXCEPT !.conn[c].timer = TRUE]

set_state(x, stage) == [x EXCEPT !.sync.state = stage]

\* sync_manager::send_handshakes()
send_handshakes(x) ==
  [x EXCEPT !.strand = [c \in Conn |-> IF Current(x, c) THEN Append(@[c], [t |-> "handshake", force |-> FALSE]) ELSE @[c]]]

(* The connection that is asked next: the one supplied if it is usable,    *)
(* otherwise the first usable one after the current source, round the ring.*)
NextSource(x, c) ==
  LET after(i) == ((x.sync.source + i - 1) % Peers) + 1
      usable == {i \in 1 .. Peers : Current(x, after(i))}
  IN IF c # None /\ Current(x, c) THEN c
     ELSE IF usable = {} THEN x.sync.source ELSE after(Min(usable))

request_next_chunk(x, c) ==
  LET s == x.sync
      source == NextSource(x, c)
      y == [x EXCEPT !.sync.source = source]
      last == Min({s.next_expected + Span - 1, s.known_lib})
  IN IF head < s.last_requested /\ s.source # None /\ Current(x, s.source) THEN x
     ELSE IF source = None \/ ~Current(x, source)
     THEN [y EXCEPT !.sync.known_lib = LibOf(head), !.sync.last_requested = 0, !.sync.state = "in_sync"]
     ELSE IF s.last_requested # s.known_lib /\ last > 0 /\ last >= s.next_expected
     THEN Post([y EXCEPT !.sync.last_requested = last], source,
               [t |-> "request", first |-> s.next_expected, last |-> last])
     ELSE send_handshake(y, source, FALSE)

\* Mutation: a source that is lost is not replaced.
ResetWithoutRequest(x, c) ==
  LET y == IF x.sync.state = "in_sync" THEN [x EXCEPT !.sync.source = None] ELSE x
  IN IF Current(y, c)
     THEN [y EXCEPT !.sync.known_lib = Max({@, y.conn[c].lib})]
     ELSE IF c = y.sync.source THEN [y EXCEPT !.sync.last_requested = 0]
     ELSE y

sync_reset_lib_num(x, c) ==
  LET y == IF x.sync.state = "in_sync" THEN [x EXCEPT !.sync.source = None] ELSE x
  IN IF Current(y, c)
     THEN [y EXCEPT !.sync.known_lib = Max({@, y.conn[c].lib})]
     ELSE IF c = y.sync.source THEN request_next_chunk([y EXCEPT !.sync.last_requested = 0], None)
     ELSE y

is_sync_required(s) == s.last_requested < s.known_lib \/ head < s.last_requested

start_sync(x, c, target) ==
  LET y == [x EXCEPT !.sync.known_lib = Max({@, target})]
      z == [y EXCEPT !.sync.state = IF @ = "in_sync" THEN "lib_catchup" ELSE @,
                     !.sync.next_expected = Max({LibOf(head) + 1, @})]
  IN IF ~is_sync_required(y.sync) \/ target <= LibOf(head) THEN y ELSE request_next_chunk(z, c)

sync_reassign_fetch(x, c) ==
  IF c # x.sync.source THEN x
  ELSE request_next_chunk([cancel_wait(x, c) EXCEPT !.sync.last_requested = 0], None)

(* A head that another connection, or this one, is catching up with        *)
(* already is not asked for again.  fork_head is the id of a block; on one *)
(* chain, its number.                                                      *)
verify_catchup(x, c, num) ==
  IF \E d \in Conn : x.conn[d].fork_head >= num
  THEN Enqueue([x EXCEPT !.conn[c].fork_head = 0], c, [t |-> "none"])
  ELSE IF x.sync.state = "lib_catchup" \/ num < LibOf(head) THEN x
  ELSE Enqueue([x EXCEPT !.sync.state = "head_catchup", !.conn[c].fork_head = num], c,
               [t |-> "catch_up", head |-> head])

recv_handshake(x, c, num) ==
  LET y == sync_reset_lib_num(x, c)
      ahead == [y EXCEPT !.conn[c].syncing = FALSE]
  IN IF head = num THEN ahead
     ELSE IF head < LibOf(num) THEN ahead
     ELSE IF LibOf(head) > num THEN [y EXCEPT !.conn[c].syncing = TRUE]
     ELSE IF head < num THEN verify_catchup(ahead, c, num)
     ELSE ahead

(* know: the dispatcher still has an entry for the block of the notice.    *)
sync_recv_notice(x, c, msg, know) ==
  IF msg.t = "catch_up"
  THEN IF know THEN send_handshake(x, c, FALSE) ELSE verify_catchup(x, c, msg.head)
  ELSE LET y == [x EXCEPT !.conn[c].lib = LibOf(msg.head)]
       IN start_sync(sync_reset_lib_num(y, c), c, LibOf(msg.head))

----------------------------------------------------------------------------
(* Handlers of a connection.                                               *)

Ready(c, t) == strand[c] # <<>> /\ strand[c][1].t = t

Rest(c) == [Node EXCEPT !.strand[c] = Tail(@)]

\* send_handshake posted: nothing is sent if the head is the one sent last
do_handshake(c) ==
  /\ Ready(c, "handshake")
  /\ Becomes(IF strand[c][1].force \/ conn[c].sent # head
             THEN Enqueue([Rest(c) EXCEPT !.conn[c].sent = head], c, [t |-> "handshake", head |-> head])
             ELSE Rest(c))
  /\ UNCHANGED <<head, mainq, refused, troubles>>

request_sync_blocks(c) ==
  /\ Ready(c, "request")
  /\ Becomes(sync_wait(Enqueue(Rest(c), c, strand[c][1]), c))
  /\ UNCHANGED <<head, mainq, refused, troubles>>

(* cancel_sync has the peer drop the blocks that it has not yet written.   *)
sync_timeout(c) ==
  /\ Ready(c, "timeout")
  /\ \E kept \in 0 .. Len(in[c]) :
       Becomes(IF c = sync.source
               THEN sync_reassign_fetch([Rest(c) EXCEPT !.in[c] = SubSeq(@, 1, kept)], c)
               ELSE Rest(c))
  /\ UNCHANGED <<head, mainq, refused, troubles>>

rejected_block(c) ==
  /\ Ready(c, "rejected")
  /\ \E window \in BOOLEAN :   \* the time since the last rejection is more than a window
       LET before == conn[c].events
           after == IF before = -1 THEN 0 ELSE IF window THEN before + 1 ELSE before
           x == [Rest(c) EXCEPT !.conn[c].events = after]
       IN Becomes(IF after >= MaxRejected
                  THEN Post([x EXCEPT !.sync.last_requested = 0, !.sync.source = None], c, [t |-> "close"])
                  ELSE send_handshake(x, c, TRUE))
  /\ UNCHANGED <<head, mainq, refused, troubles>>

(* sync_recv_block takes the mutex twice: once to move next_expected, and  *)
(* once more for what follows from the block.  Before it, for a block that *)
(* was just applied, dispatch_manager::recv_block cancels the timer.       *)
sync_update_expected(c) ==
  /\ Ready(c, "update")
  /\ LET n == strand[c][1].n
         applied == strand[c][1].applied
         x == [Node EXCEPT !.strand[c] = <<[t |-> "recv", n |-> n, known |-> strand[c][1].known]>> \o Tail(@),
                           !.conn[c].events = -1, !.conn[c].timer = IF applied THEN FALSE ELSE @]
     IN Becomes(IF n <= sync.last_requested /\ (n = sync.next_expected \/ applied)
                THEN [x EXCEPT !.sync.next_expected = n + 1] ELSE x)
  /\ UNCHANGED <<head, mainq, refused, troubles>>

(* head_catchup: the loop looks at every connection cp in turn, but clears *)
(* the fork head of c, the connection the block came from.                 *)
Reached(d, n) == conn[d].fork_head # 0 /\ conn[d].fork_head <= n

StillAhead(c, n) ==
  \E d \in Conn : conn[d].fork_head > n /\ (d = c => \A e \in 1 .. (c - 1) : ~Reached(e, n))

HeadCaughtUp(x, c, n, known) ==
  [x EXCEPT !.sync.source = None,
            !.conn[c].fork_head = IF \E d \in Conn : Reached(d, n) THEN 0 ELSE @,
            !.strand[c] = <<[t |-> "caught_up", ahead |-> StillAhead(c, n), known |-> known]>> \o @]

\* Mutation: the chunk that was asked for counts as the last one.
LibCaughtUpEarly(x, c, n) ==
  IF n = x.sync.last_requested THEN set_state(x, "in_sync") ELSE sync_wait(x, c)

LibCaughtUp(x, c, n) ==
  IF n = x.sync.known_lib THEN send_handshakes(set_state(x, "in_sync"))
  ELSE IF n = x.sync.last_requested THEN request_next_chunk(x, None)
  ELSE sync_wait(x, c)

(* known: called from process_next_message, which cancels the timer after  *)
(* sync_recv_block has returned.                                           *)
sync_recv_block(c) ==
  /\ Ready(c, "recv")
  /\ LET n == strand[c][1].n
         known == strand[c][1].known
         returned(x) == IF known THEN cancel_wait(x, c) ELSE x
     IN Becomes(CASE sync.state = "head_catchup" -> HeadCaughtUp(Rest(c), c, n, known)
                  [] sync.state = "lib_catchup" -> returned(LibCaughtUp(Rest(c), c, n))
                  [] OTHER -> returned(Rest(c)))
  /\ UNCHANGED <<head, mainq, refused, troubles>>

(* The state is set from what the loop has found, without the mutex.        *)
set_state_caught_up(c) ==
  /\ Ready(c, "caught_up")
  /\ LET task == strand[c][1]
         stage == IF task.ahead THEN "head_catchup" ELSE "in_sync"
         x == set_state(Rest(c), stage)
         y == IF task.ahead /\ sync.state = stage THEN x ELSE send_handshakes(x)
     IN Becomes(IF task.known THEN cancel_wait(y, c) ELSE y)
  /\ UNCHANGED <<head, mainq, refused, troubles>>

(* What goes wrong, or comes between, a bounded number of times.            *)
Trouble == troubles < MaxTroubles /\ troubles' = troubles + 1

Closed == [open |-> FALSE, connecting |-> FALSE, syncing |-> FALSE, timer |-> FALSE,
           lib |-> 0, sent |-> 0, fork_head |-> 0, events |-> -1]

(* connection::_close; fork_head is not cleared.                           *)
_close(c) ==
  /\ Ready(c, "close")
  /\ LET x == [Rest(c) EXCEPT !.conn[c] = [Closed EXCEPT !.fork_head = conn[c].fork_head],
                          !.in[c] = <<>>,
                          !.peer[c] = [@ EXCEPT !.greeted = FALSE, !.syncing = FALSE]]
     IN Becomes(cancel_wait(sync_reset_lib_num(x, c), c))
  /\ UNCHANGED <<head, mainq, refused, troubles>>

----------------------------------------------------------------------------
(* Reading from a connection.  A handler that is between its two uses of   *)
(* the mutex is not interrupted on its own strand.                         *)

Idle(c) == strand[c] # <<>> => (strand[c][1].t \notin {"recv", "caught_up"} /\ (strand[c][1].t = "update" => ~strand[c][1].known))

Reads(c, t) == conn[c].open /\ in[c] # <<>> /\ in[c][1].t = t /\ Idle(c)

Read(c) == [Node EXCEPT !.in[c] = Tail(@)]

handle_handshake(c) ==
  /\ Reads(c, "handshake")
  /\ LET x == [Read(c) EXCEPT !.conn[c].connecting = FALSE, !.conn[c].lib = LibOf(in[c][1].head)]
         y == IF conn[c].sent = 0 THEN send_handshake(x, c, FALSE) ELSE x
     IN Becomes(recv_handshake(y, c, in[c][1].head))
  /\ UNCHANGED <<head, mainq, refused, troubles>>

handle_notice(c) ==
  /\ Reads(c, "catch_up") \/ Reads(c, "last_irr_catch_up")
  /\ \E know \in {k \in BOOLEAN : k => in[c][1].head <= head} :
       Becomes(sync_recv_notice([Read(c) EXCEPT !.conn[c].connecting = FALSE], c, in[c][1], know))
  /\ UNCHANGED <<head, mainq, refused, troubles>>

handle_go_away(c) ==
  /\ Reads(c, "go_away")
  /\ Becomes(Post(Read(c), c, [t |-> "close"]))
  /\ UNCHANGED <<head, mainq, refused, troubles>>

(* A block that the dispatcher knows is only counted; an old block that    *)
(* nobody asked for is answered with an empty request and a handshake; any *)
(* other goes to the main thread.  The dispatcher may not know a block of  *)
(* the node: it forgets what is irreversible and learns of a block after   *)
(* it has been applied.                                                    *)
process_next_message(c) ==
  /\ Reads(c, "block")
  /\ LET n == in[c][1].n
         old == sync.state # "lib_catchup" /\ n < LibOf(head)
     IN \/ /\ n <= head
           /\ Becomes([Read(c) EXCEPT !.strand[c] =
                         <<[t |-> "update", n |-> n, applied |-> FALSE, known |-> TRUE]>> \o @])
           /\ UNCHANGED mainq
        \/ /\ old
           /\ IF n < LibOf(conn[c].sent)
              THEN Becomes(Post(Read(c), c, [t |-> "close"]))
              ELSE \E kept \in 0 .. Len(in[c]) - 1 :
                      Becomes(cancel_wait(send_handshake([Read(c) EXCEPT !.in[c] = SubSeq(@, 1, kept)], c, FALSE), c))
           /\ UNCHANGED mainq
        \/ /\ ~old
           /\ Len(mainq) < MaxWaiting
           /\ mainq' = Append(mainq, <<c, n>>)
           /\ Becomes(Read(c))
  /\ UNCHANGED <<head, refused, troubles>>

\* on the main thread
process_signed_block ==
  /\ mainq # <<>>
  /\ mainq' = Tail(mainq)
  /\ LET c == mainq[1][1]
         n == mainq[1][2]
         update(applied) == [t |-> "update", n |-> n, applied |-> applied, known |-> FALSE]
     IN \/ ~conn[c].open /\ Becomes(Node) /\ UNCHANGED <<head, refused, troubles>>
        \/ /\ conn[c].open /\ n <= head
           /\ Becomes(Post(Node, c, update(FALSE))) /\ UNCHANGED <<head, refused, troubles>>
        \/ /\ conn[c].open /\ n = head + 1
           /\ head' = n
           /\ Becomes(Post(Node, c, update(TRUE))) /\ UNCHANGED <<refused, troubles>>
        \/ /\ conn[c].open /\ n > head /\ Trouble   \* accept_block returns false
           /\ refused' = TRUE
           /\ Becomes(Node) /\ UNCHANGED head
        \/ /\ conn[c].open /\ n > head + 1                       \* unlinkable
           /\ Becomes(Post(Node, c, [t |-> "rejected", n |-> n])) /\ UNCHANGED <<head, refused, troubles>>

----------------------------------------------------------------------------
(* The peers: what the same code answers, and what may happen to a         *)
(* connection.                                                             *)

\* a peer's head advances, and it broadcasts the block
peer_bcast(c) ==
  /\ peer[c].head < MaxBlock /\ Trouble
  /\ LET n == peer[c].head + 1
         told == conn[c].open /\ peer[c].greeted /\ ~peer[c].syncing
     IN Becomes([Node EXCEPT !.peer[c].head = n,
                             !.in[c] = IF told THEN Append(@, [t |-> "block", n |-> n]) ELSE @])
  /\ UNCHANGED <<head, mainq, refused>>

\* the connection breaks, the read handler closes it
drop(c) ==
  /\ conn[c].open /\ Trouble
  /\ Becomes(Post(Node, c, [t |-> "close"]))
  /\ UNCHANGED <<head, mainq, refused>>

(* The timer of a connection expires: nothing is under way any more, or,    *)
(* a bounded number of times, the answer is late.  A handler that has been  *)
(* posted can no longer be cancelled.                                       *)
Quiet(c) == in[c] = <<>> /\ strand[c] = <<>> /\ mainq = <<>>

expire(c) ==
  /\ conn[c].timer
  /\ IF Quiet(c) THEN UNCHANGED troubles ELSE Trouble
  /\ Becomes(Post(cancel_wait(Node, c), c, [t |-> "timeout"]))
  /\ UNCHANGED <<head, mainq, refused>>

(* connection_monitor, resolve_and_connect and connect; or a peer connects  *)
(* to us, and speaks first.                                                 *)
Opened(x, c) ==
  LET y == [x EXCEPT !.conn[c].open = TRUE, !.conn[c].connecting = TRUE]
  IN IF c \in Dialled THEN send_handshake(y, c, FALSE)
     ELSE [y EXCEPT !.in[c] = <<[t |-> "handshake", head |-> x.peer[c].head]>>, !.peer[c].greeted = TRUE]

connect(c) ==
  /\ ~conn[c].open /\ strand[c] = <<>>
  /\ Becomes(Opened(Node, c))
  /\ UNCHANGED <<head, mainq, refused, troubles>>

SyncInit ==
  /\ head = 1
  /\ sync = [state |-> "in_sync", known_lib |-> 0, last_requested |-> 0, next_expected |-> 1, source |-> None]
  /\ conn = [c \in Conn |-> [Closed EXCEPT !.open = TRUE, !.connecting = TRUE]]
  /\ strand = [c \in Conn |-> IF c \in Dialled THEN <<[t |-> "handshake", force |-> FALSE]>> ELSE <<>>]
  /\ \E h \in PeerHeads :
       /\ peer = [c \in Conn |-> [head |-> h[c], greeted |-> c \notin Dialled, syncing |-> FALSE]]
       /\ in = [c \in Conn |-> IF c \in Dialled THEN <<>> ELSE <<[t |-> "handshake", head |-> h[c]]>>]
  /\ mainq = <<>>
  /\ refused = FALSE /\ troubles = 0

Handler(c) ==
  \/ do_handshake(c) \/ request_sync_blocks(c) \/ sync_timeout(c) \/ rejected_block(c)
  \/ sync_update_expected(c) \/ sync_recv_block(c) \/ set_state_caught_up(c)
  \/ _close(c)

Message(c) == handle_handshake(c) \/ handle_notice(c) \/ handle_go_away(c) \/ process_next_message(c)

\* What the node does by itself; the rest comes from its peers and from the network.
NodeStep == process_signed_block \/ \E c \in Conn : Handler(c) \/ Message(c) \/ connect(c) \/ expire(c)

SyncNext == NodeStep \/ \E c \in Conn : peer_bcast(c) \/ drop(c)

SyncFairness == WF_svars(NodeStep)

SyncSpec == SyncInit /\ [][SyncNext]_svars /\ SyncFairness

----------------------------------------------------------------------------
(* Properties.                                                             *)

(* The node gets every block that is irreversible for a peer: no order of   *)
(* closes, late answers, broadcasts and rejections leaves the sync manager  *)
(* waiting for what no one will send.  Only a block that accept_block drops *)
(* without a word while the node produces is not fetched again before there *)
(* is a new one.                                                            *)
CatchesUp == [](~refused) => <>(\A c \in Conn : head >= LibOf(peer[c].head))

(* In lib_catchup there is a source to wait for, and the connection to it   *)
(* is open: whoever closes it or gives it up has chosen another before the  *)
(* next handler runs, or left the state.  Once a block was dropped because  *)
(* the node produced, those that build on it are rejected and the sync may  *)
(* be left without a source until a peer has a new block.                   *)
AwaitsSomeone ==
  sync.state = "lib_catchup" /\ ~refused => sync.source # None /\ conn[sync.source].open
=============================================================================
