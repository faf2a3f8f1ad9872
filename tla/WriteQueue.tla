----------------------------- MODULE WriteQueue -----------------------------
(***************************************************************************)
(* How a connection of the net plugin writes (queued_buffer and connection *)
(* in net_plugin.cpp): messages wait in one of two queues, move to the out *)
(* queue and are handed to the socket, one asynchronous write at a time.   *)
(* The out queue keeps the buffers alive that the socket reads. Blocks     *)
(* that the peer asked for are fetched on the main thread, the next one    *)
(* when a write has completed.                                             *)
(*                                                                         *)
(* All handlers of a connection run on its strand, one at a time, in the   *)
(* order in which they were posted. A message is one unit long.            *)
(***************************************************************************)
EXTENDS Integers, Sequences, FiniteSets

CONSTANTS
    MaxMessages,  \* bound: messages that are sent, blocks not counted
    MaxBlockNum,  \* bound: the last block of the chain
    MaxRequests,  \* bound: requests for blocks
    MaxSockets,   \* bound: sockets, counting the one of each reconnection
    MaxSize       \* 2 * def_max_write_queue_size

ASSUME WriteAssumption == MaxBlockNum \in Nat

VARIABLES
    buffer,          \* the queues of queued_buffer
    socket,          \* number of the current socket
    socket_open, connecting,
    peer_requested,  \* what is left to be sent of a request, or None
    w_strand,        \* posted handlers
    app,             \* blocks to be fetched on the main thread
    writes,          \* asynchronous writes in progress
    count            \* how many messages and requests there were

write_vars == <<buffer, socket, socket_open, connecting, peer_requested, w_strand, app, writes, count>>

NoRequest == [last |-> 0, end |-> 0]
Empty == [write |-> <<>>, sync |-> <<>>, out |-> <<>>, size |-> 0]

AnyMessage == [t |-> "message"]
GoAway == [t |-> "go_away"]
BlockMessage(n) == [t |-> "block", n |-> n]

-----------------------------------------------------------------------------
\* The handlers change the queues, the strand and the request together.
Link == [buffer |-> buffer, strand |-> w_strand, requested |-> peer_requested, app |-> app]

LinkBecomes(x) ==
    buffer' = x.buffer /\ w_strand' = x.strand /\ peer_requested' = x.requested /\ app' = x.app

PostTo(x, task) == [x EXCEPT !.strand = Append(@, task)]

close(x) == PostTo(x, [t |-> "close"])

clear_write_queue(b) == [b EXCEPT !.write = <<>>, !.sync = <<>>, !.size = 0]

clear_out_queue(b) == [b EXCEPT !.out = <<>>]

ready_to_send(b) == (b.sync # <<>> \/ b.write # <<>>) /\ b.out = <<>>

fill_out_buffer(b) ==
    IF b.sync # <<>>
    THEN [b EXCEPT !.out = @ \o b.sync, !.sync = <<>>, !.size = @ - Len(b.sync)]
    ELSE [b EXCEPT !.out = @ \o b.write, !.write = <<>>, !.size = @ - Len(b.write)]

do_queue_write(x) ==
    IF ~ready_to_send(x.buffer) THEN x
    ELSE LET b == fill_out_buffer(x.buffer)
         IN PostTo([x EXCEPT !.buffer = b], [t |-> "write", bufs |-> b.out])

add_write_queue(b, m) ==
    IF m.t = "block"
    THEN [b EXCEPT !.sync = Append(@, m), !.size = @ + 1]
    ELSE [b EXCEPT !.write = Append(@, m), !.size = @ + 1]

queue_write(x, m) ==
    LET y == [x EXCEPT !.buffer = add_write_queue(@, m)]
    IN IF y.buffer.size > MaxSize THEN close(y) ELSE do_queue_write(y)

enqueue_sync_block(x) ==
    IF x.requested = NoRequest THEN x
    ELSE LET num == x.requested.last + 1
         IN [x EXCEPT !.requested = IF num = @.end THEN NoRequest ELSE [@ EXCEPT !.last = num],
                      !.app = Append(@, num)]

\* The callback of a message closes the connection after a go away message.
out_callback(x) ==
    IF \E i \in DOMAIN x.buffer.out : x.buffer.out[i] = GoAway THEN close(x) ELSE x

-----------------------------------------------------------------------------
\* Some handler of the connection sends a message.
enqueue ==
    /\ count.messages < MaxMessages
    /\ count' = [count EXCEPT !.messages = @ + 1]
    /\ \E m \in {AnyMessage, GoAway} : LinkBecomes(queue_write(Link, m))
    /\ UNCHANGED <<socket, socket_open, connecting, writes>>

\* cancel_sync: what waits is dropped for one last message.
cancel_sync ==
    /\ count.messages < MaxMessages
    /\ count' = [count EXCEPT !.messages = @ + 1]
    /\ \E m \in {AnyMessage, GoAway} :
          LinkBecomes(queue_write([Link EXCEPT !.buffer = clear_write_queue(@)], m))
    /\ UNCHANGED <<socket, socket_open, connecting, writes>>

\* handle_message(sync_request_message); end 0 takes back what was asked for
sync_request ==
    /\ socket_open /\ count.requests < MaxRequests
    /\ count' = [count EXCEPT !.requests = @ + 1]
    /\ \/ LinkBecomes([Link EXCEPT !.requested = NoRequest, !.buffer = clear_write_queue(@)])
       \/ \E first, last \in 1 .. MaxBlockNum + 1 :
             /\ first <= last
             /\ LinkBecomes(enqueue_sync_block([Link EXCEPT !.requested = [last |-> first - 1, end |-> last]]))
    /\ UNCHANGED <<socket, socket_open, connecting, writes>>

\* On the main thread: the block, or a handshake if there is none, is posted to the strand.
fetch_block ==
    /\ app # <<>>
    /\ LET task == IF Head(app) <= MaxBlockNum THEN [t |-> "block", n |-> Head(app)] ELSE [t |-> "handshake"]
       IN  LinkBecomes([PostTo(Link, task) EXCEPT !.app = Tail(@)])
    /\ UNCHANGED <<socket, socket_open, connecting, writes, count>>

Runs(t) == w_strand # <<>> /\ Head(w_strand).t = t

AfterTask == [Link EXCEPT !.strand = Tail(@)]

enqueue_block ==
    /\ Runs("block")
    /\ LinkBecomes(queue_write(AfterTask, BlockMessage(Head(w_strand).n)))
    /\ UNCHANGED <<socket, socket_open, connecting, writes, count>>

\* Nothing is sent if the head is the one sent last.
w_send_handshake ==
    /\ Runs("handshake")
    /\ \E changed \in BOOLEAN : LinkBecomes(IF changed THEN queue_write(AfterTask, AnyMessage) ELSE AfterTask)
    /\ UNCHANGED <<socket, socket_open, connecting, writes, count>>

\* The write fails at once if the socket is not open.
async_write ==
    /\ Runs("write")
    /\ IF socket_open
       THEN LinkBecomes(AfterTask) /\ writes' = writes \cup {[socket |-> socket, bufs |-> Head(w_strand).bufs]}
       ELSE /\ LinkBecomes(PostTo(AfterTask, [t |-> "written", socket |-> socket, error |-> TRUE]))
            /\ UNCHANGED writes
    /\ UNCHANGED <<socket, socket_open, connecting, count>>

\* The operating system has taken the bytes, or reports an error.
complete ==
    \E w \in writes, error \in BOOLEAN :
       /\ error => count.errors < MaxSockets - 1
       /\ writes' = writes \ {w}
       /\ count' = IF error THEN [count EXCEPT !.errors = @ + 1] ELSE count
       /\ LinkBecomes(PostTo(Link, [t |-> "written", socket |-> w.socket, error |-> error]))
       /\ UNCHANGED <<socket, socket_open, connecting>>

\* Mutation: the next block is not asked for.
AfterWriteNoBlock(x) == do_queue_write(out_callback(x))

AfterWrite(x) == do_queue_write(enqueue_sync_block(out_callback(x)))

\* The handler of a write that has completed. The out queue is cleared before its callbacks
\* are called.
written ==
    /\ Runs("written")
    /\ LET x == [AfterTask EXCEPT !.buffer = clear_out_queue(@)]
       IN LinkBecomes(IF ~socket_open \/ Head(w_strand).socket # socket \/ Head(w_strand).error
                      THEN close(x)
                      ELSE AfterWrite(x))
    /\ UNCHANGED <<socket, socket_open, connecting, writes, count>>

\* connection::_close. The writes of the old socket, and a connect under way, are cancelled.
\* A socket that was never opened is replaced by one like it.
w_close ==
    /\ Runs("close")
    /\ LET cancelled == {w \in writes : w.socket = socket}
           x == [AfterTask EXCEPT !.buffer = clear_write_queue(@), !.requested = NoRequest]
           y == IF cancelled = {} THEN x
                ELSE PostTo(x, [t |-> "written", socket |-> socket, error |-> TRUE])
       IN /\ LinkBecomes(IF connecting /\ ~socket_open THEN close(y) ELSE y)
          /\ writes' = writes \ cancelled
    /\ socket_open' = FALSE /\ connecting' = FALSE
    /\ socket' = IF socket_open THEN socket + 1 ELSE socket
    /\ UNCHANGED count

\* The peer has closed the connection, or the read fails.
read_error ==
    /\ socket_open /\ count.errors < MaxSockets - 1
    /\ count' = [count EXCEPT !.errors = @ + 1]
    /\ LinkBecomes(close(Link))
    /\ UNCHANGED <<socket, socket_open, connecting, writes>>

\* connection_monitor finds the connection closed. By the time the name is resolved the
\* handlers posted before have run.
w_connect ==
    /\ ~socket_open /\ ~connecting /\ w_strand = <<>>
    /\ socket <= MaxSockets
    /\ LinkBecomes([Link EXCEPT !.buffer = clear_out_queue(@)])
    /\ connecting' = TRUE
    /\ UNCHANGED <<socket, socket_open, writes, count>>

start_session ==
    /\ connecting /\ ~socket_open
    /\ socket_open' = TRUE /\ connecting' = FALSE
    /\ UNCHANGED <<buffer, socket, peer_requested, w_strand, app, writes, count>>

WriteInit ==
    /\ buffer = Empty /\ socket = 1 /\ socket_open = TRUE /\ connecting = FALSE
    /\ peer_requested = NoRequest /\ w_strand = <<>> /\ app = <<>> /\ writes = {}
    /\ count = [messages |-> 0, requests |-> 0, errors |-> 0]

StrandStep == enqueue_block \/ w_send_handshake \/ async_write \/ written \/ w_close

WriteNext ==
    \/ enqueue \/ cancel_sync \/ sync_request \/ fetch_block \/ StrandStep
    \/ complete \/ read_error \/ w_connect \/ start_session

WriteSpec == WriteInit /\ [][WriteNext]_write_vars

-----------------------------------------------------------------------------
(* Properties.                                                             *)

\* "If out_queue is not empty then async_write is in progress" (ready_to_send): at most one
\* write is in progress, on the current socket, and the out queue keeps the buffers it reads
\* until it has completed. The size that add_write_queue compares with the limit, and that
\* fill_out_buffer asserts to be zero, is the size of what waits.
WritesSafe ==
    /\ Cardinality(writes) <= 1
    /\ \A w \in writes : w.socket = socket /\ w.bufs = buffer.out
    /\ buffer.size = Len(buffer.write) + Len(buffer.sync)

\* A request for blocks is served as far as there are blocks: while one is left to be sent,
\* one is being fetched, written or about to be, and enqueue_sync_block is called again; or
\* the connection closes.
RequestServed ==
    socket_open /\ peer_requested # NoRequest /\ peer_requested.last < MaxBlockNum
        => app # <<>> \/ w_strand # <<>> \/ writes # {}

\* In do_queue_write at most one write is in progress, the out queue keeps what it reads, and the
\* size of the queues is counted right; and while a request for blocks is not served to its end,
\* enqueue_sync_block will be called again.
WritesSound == WritesSafe /\ RequestServed
=============================================================================
