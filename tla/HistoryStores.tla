---------------------------- MODULE HistoryStores -----------------------------
(***************************************************************************)
(* The files of the plugins that record history: the logs of the state     *)
(* history plugin and the slices of the trace API plugin.                  *)
(***************************************************************************)
EXTENDS BlockTree, Sequences

LOCAL INSTANCE Functions
LOCAL INSTANCE FiniteSetsExt

(***************************************************************************)
(* The state history plugin: two logs with an entry per block, each with   *)
(* an index of positions, cut back when the chain changes its branch, and  *)
(* a session that streams the entries to a client. What was written since  *)
(* the last flush may be lost in a crash, of each file independently.      *)
(***************************************************************************)

CONSTANTS
    EntrySize,    \* the bytes of the entry of a block
    MaxCredit,    \* bound: the messages a client allows in flight
    MaxQueue      \* bound: the messages queued when a client asks for the status

ASSUME StateHistoryAssumption == EntrySize \in [Block -> Nat \ {0}] /\ MaxCredit \in Nat \ {0}

Logs == {"trace", "chain_state"}
NoBlock == "none"

VARIABLES
    hist,         \* the two logs, their files and what is in memory
    running,      \* whether the node is up
    clean,        \* whether it was shut down in order
    chain,        \* its head, its last irreversible block, and the highest it ever had
    stored,       \* history: whether a block was accepted since the start
    session,      \* the queue, need_to_send_update and current_request
    view,         \* the block that the client has at each number
    final_only    \* irreversible_only, as this client always asks

ship_vars == <<hist, running, clean, chain, stored, session, view, final_only>>

Numbers == {Num[b] : b \in Block}
NoRequest == [start |-> 0, credit |-> 0]
NoSession == [open |-> FALSE, queue |-> <<>>, need |-> FALSE, request |-> NoRequest]
EmptyLog == [entries |-> <<>>, index |-> <<>>, torn |-> FALSE, log_flushed |-> 0, index_flushed |-> 0]

ShipInit ==
    /\ hist = [l \in Logs |-> EmptyLog]
    /\ running = TRUE
    /\ clean = TRUE
    /\ chain = [head |-> Genesis, root |-> Genesis, final |-> Genesis]
    /\ stored = FALSE
    /\ session = NoSession
    /\ view = [n \in Numbers |-> NoBlock]
    /\ final_only \in BOOLEAN

-----------------------------------------------------------------------------
(* state_history_log. begin_block and end_block follow from the entries.    *)

EntryPos(entries, i) == SumFunctionOnSet([j \in DOMAIN entries |-> EntrySize[entries[j]]], 1..(i - 1))
EntryPositions(entries) == [i \in DOMAIN entries |-> EntryPos(entries, i)]

begin_block(h) == IF h.entries = <<>> THEN 0 ELSE Num[h.entries[1]]
end_block(h) == IF h.entries = <<>> THEN 0 ELSE Num[h.entries[Len(h.entries)]] + 1

get_pos(h, n) == h.index[n - begin_block(h) + 1]
get_entry(h, n) ==
    IF \E i \in DOMAIN h.entries : EntryPos(h.entries, i) = get_pos(h, n)
    THEN h.entries[CHOOSE i \in DOMAIN h.entries : EntryPos(h.entries, i) = get_pos(h, n)]
    ELSE NoBlock

\* truncate: both files are flushed, then the log is cut, then the index.
CutLog(h, n) ==
    IF n <= begin_block(h)
    THEN [h EXCEPT !.entries = <<>>, !.log_flushed = 0, !.index_flushed = Len(h.index)]
    ELSE LET left == Cardinality({i \in DOMAIN h.entries : EntryPos(h.entries, i) < get_pos(h, n)})
         IN  [h EXCEPT !.entries = SubSeq(@, 1, left), !.log_flushed = left, !.index_flushed = Len(h.index)]
truncate(h, n) ==
    LET cut == CutLog(h, n)
        left == IF n <= begin_block(h) THEN 0 ELSE n - begin_block(h)
    IN  [cut EXCEPT !.index = SubSeq(@, 1, left), !.index_flushed = left]

\* What write_entry asserts: no block and no change of branch was missed.
NotMissed(h, b) ==
    LET n == Num[b]
    IN  /\ h.entries = <<>> \/ n <= end_block(h)
        /\ h.entries # <<>> /\ n > begin_block(h) =>
              Prev[b] = IF n = end_block(h) THEN h.entries[Len(h.entries)] ELSE get_entry(h, n - 1)

Truncated(h, b) == IF Num[b] < end_block(h) THEN truncate(h, Num[b]) ELSE h

write_entry(h, b) ==
    LET cut == Truncated(h, b)
        end == EntryPos(Append(cut.entries, b), Len(cut.entries) + 1)
    IN  [cut EXCEPT !.entries = Append(@, b), !.index = Append(@, end)]

\* open_log: the first entry must be whole; recover_blocks drops what is torn.
CanOpen(h) == ~(h.torn /\ h.entries = <<>>)

\* open_index compares the sizes.
IndexFits(h) == Len(h.index) = end_block(h) - begin_block(h)

open_log(h) ==
    [entries |-> h.entries, torn |-> FALSE, log_flushed |-> Len(h.entries),
     index |-> IF IndexFits(h) THEN h.index ELSE EntryPositions(h.entries),
     index_flushed |-> IF IndexFits(h) THEN Len(h.index) ELSE 0]

\* What a crash may leave of a log.
Survivors(h) ==
    {[h EXCEPT !.entries = SubSeq(@, 1, k), !.index = SubSeq(@, 1, i), !.torn = t,
               !.log_flushed = 0, !.index_flushed = 0] :
        k \in h.log_flushed..Len(h.entries), i \in h.index_flushed..Len(h.index), t \in BOOLEAN}

-----------------------------------------------------------------------------
(* The session.                                                            *)

BranchBlock(head, n) ==
    IF \E b \in Ancestry[head] : Num[b] = n THEN CHOOSE b \in Ancestry[head] : Num[b] = n ELSE NoBlock

get_block_id(hs, head, n) ==
    LET in(l) == n >= begin_block(hs[l]) /\ n < end_block(hs[l])
    IN  IF in("trace") THEN get_entry(hs["trace"], n)
        ELSE IF in("chain_state") THEN get_entry(hs["chain_state"], n)
        ELSE BranchBlock(head, n)

\* send_update(get_blocks_result_v0), past its early returns.
SendResult(s, hs, c) ==
    LET start == s.request.start
        current == IF final_only THEN Num[c.root] ELSE Num[c.head]
        more == start <= current
        next == IF more THEN start + 1 ELSE start
    IN  [s EXCEPT !.queue = <<[num |-> IF more THEN start ELSE 0,
                               block |-> IF more THEN get_block_id(hs, c.head, start) ELSE NoBlock]>>,
                  !.request = [start |-> next, credit |-> s.request.credit - 1],
                  !.need = next <= current]

CanSend(s) == s.queue = <<>> /\ s.request.start # 0 /\ s.request.credit > 0

\* send_update(bool): only when something is due.
SendDue(s, hs, c) == IF CanSend(s) /\ s.need THEN SendResult(s, hs, c) ELSE s

\* Mutation: the session goes on from where it was.
NoRewind(s, b) == s

\* A block below what was sent last: the stream goes back to it.
Rewound(s, b) == IF s.request.start # 0 /\ Num[b] < s.request.start THEN [s EXCEPT !.request.start = Num[b]] ELSE s

\* on_accepted_block. The controller swallows what is thrown: then the log after
\* it and the session are skipped.
on_accepted_block(b) ==
    LET c == [chain EXCEPT !.head = b]
        traces == NotMissed(hist["trace"], b)
        deltas == traces /\ NotMissed(hist["chain_state"], b)
        hs == [l \in Logs |-> IF (l = "trace" /\ traces) \/ deltas THEN write_entry(hist[l], b) ELSE hist[l]]
        s == [Rewound(session, b) EXCEPT !.need = TRUE]
    IN  /\ hist' = hs
        /\ session' = IF ~deltas \/ ~session.open THEN session ELSE SendDue(s, hs, c)
        /\ stored' = TRUE

\* A block is applied on the head or, after blocks were popped, below it; then the
\* irreversible blocks are logged.
Applies(b) ==
    /\ b \in Received /\ Prev[b] \in Ancestry[chain.head]
    /\ chain.root \in Ancestry[Prev[b]]
    /\ chain.final \in Ancestry[b] \/ b \in Ancestry[chain.final]

accept_block(b) ==
    /\ running
    /\ Applies(b)
    /\ on_accepted_block(b)
    /\ LET lib == BranchBlock(b, Lib[b])
           root == IF Lib[b] > Num[chain.root] THEN lib ELSE chain.root
       IN  chain' = [head |-> b, root |-> root,
                     final |-> IF Num[root] > Num[chain.final] THEN root ELSE chain.final]
    /\ UNCHANGED <<running, clean, view, final_only>>

connect ==
    /\ running /\ ~session.open
    /\ session' = [NoSession EXCEPT !.open = TRUE, !.queue = <<[num |-> 0, block |-> NoBlock]>>]
    /\ UNCHANGED <<hist, running, clean, chain, stored, view, final_only>>

\* get_blocks_request_v0: the client goes on after the last block it has and says
\* what it has; the stream starts at the first of them that differs.
get_blocks ==
    LET have == {n \in Numbers : view[n] # NoBlock}
        wanted == IF have = {} THEN Num[Genesis] + 1 ELSE Max(have) + 1
        differ == {n \in have : get_block_id(hist, chain.head, n) # view[n]}
        s == [session EXCEPT !.need = TRUE, !.request = [start |-> Min({wanted} \cup differ), credit |-> 1]]
    IN  /\ session.open /\ session.request.start = 0
        /\ session' = SendDue(s, hist, chain)
        /\ UNCHANGED <<hist, running, clean, chain, stored, view, final_only>>

get_status ==
    /\ session.open /\ Len(session.queue) < MaxQueue
    /\ session' = [session EXCEPT !.queue = Append(@, [num |-> 0, block |-> NoBlock])]
    /\ UNCHANGED <<hist, running, clean, chain, stored, view, final_only>>

get_blocks_ack ==
    /\ session.open /\ session.request.start # 0 /\ session.request.credit < MaxCredit
    /\ session' = SendDue([session EXCEPT !.request.credit = @ + 1], hist, chain)
    /\ UNCHANGED <<hist, running, clean, chain, stored, view, final_only>>

\* async_write completes: the client has the message, and send goes on.
deliver ==
    /\ session.queue # <<>>
    /\ LET m == Head(session.queue)
       IN  view' = IF m.block = NoBlock THEN view
                   ELSE [n \in Numbers |-> IF n < m.num THEN view[n] ELSE IF n = m.num THEN m.block ELSE NoBlock]
    /\ session' = SendDue([session EXCEPT !.queue = Tail(@)], hist, chain)
    /\ UNCHANGED <<hist, running, clean, chain, stored, final_only>>

\* on_fail: a read or a write failed.
disconnect ==
    /\ session.open
    /\ session' = NoSession
    /\ UNCHANGED <<hist, running, clean, chain, stored, view, final_only>>

-----------------------------------------------------------------------------
plugin_shutdown ==
    /\ running
    /\ running' = FALSE
    /\ clean' = TRUE
    /\ session' = NoSession
    /\ UNCHANGED <<hist, chain, stored, view, final_only>>

\* The node dies, perhaps while block b is stored: with a log cut and its index
\* not yet. A client's connection dies with it, which is a disconnect before.
CutFor(l, b) == NotMissed(hist[l], b) /\ Num[b] < end_block(hist[l])

Left(traces, deltas) == hist' = [l \in Logs |-> IF l = "trace" THEN traces ELSE deltas]

ship_crash ==
    /\ running /\ ~session.open
    /\ \/ \E traces \in Survivors(hist["trace"]), deltas \in Survivors(hist["chain_state"]) :
             Left(traces, deltas)
       \/ \E b \in Block, deltas \in Survivors(hist["chain_state"]) :
             /\ Applies(b) /\ CutFor("trace", b)
             /\ Left(CutLog(hist["trace"], Num[b]), deltas)
       \/ \E b \in Block :
             /\ Applies(b) /\ CutFor("chain_state", b) /\ NotMissed(hist["trace"], b)
             /\ \E traces \in Survivors(write_entry(hist["trace"], b)) :
                   Left(traces, CutLog(hist["chain_state"], Num[b]))
    /\ running' = FALSE
    /\ clean' = FALSE
    /\ UNCHANGED <<chain, stored, session, view, final_only>>

\* After a crash the state comes from a snapshot, an irreversible block that the
\* logs reach, as the guide for restoring snapshots asks for.
Reached(s, h) == h.entries = <<>> \/ Num[s] < end_block(h)

plugin_initialize ==
    /\ ~running
    /\ \A l \in Logs : CanOpen(hist[l])
    /\ \E s \in IF clean THEN {chain.head} ELSE Ancestry[chain.final] :
          /\ \A l \in Logs : clean \/ Reached(s, hist[l])
          /\ chain' = [chain EXCEPT !.head = s, !.root = IF clean THEN @ ELSE s]
    /\ hist' = [l \in Logs |-> open_log(hist[l])]
    /\ running' = TRUE
    /\ clean' = TRUE
    /\ stored' = FALSE
    /\ UNCHANGED <<session, view, final_only>>

delete_state_history ==
    /\ ~running
    /\ hist' = [l \in Logs |-> EmptyLog]
    /\ UNCHANGED <<running, clean, chain, stored, session, view, final_only>>

ShipNext ==
    \/ \E b \in Block : accept_block(b)
    \/ connect \/ get_blocks \/ get_status \/ get_blocks_ack \/ deliver \/ disconnect
    \/ plugin_shutdown \/ ship_crash \/ plugin_initialize \/ delete_state_history

ShipSpec == ShipInit /\ [][ShipNext]_ship_vars

-----------------------------------------------------------------------------
\* Once a block was accepted, both logs end with the head, hold one branch
\* without a gap, and find every entry by its number: no crash, restart or
\* change of branch makes a log miss a block.
HistoryIsBranch ==
    running /\ stored =>
        \A l \in Logs :
            /\ hist[l].entries # <<>> /\ hist[l].entries[Len(hist[l].entries)] = chain.head
            /\ \A n \in begin_block(hist[l])..(end_block(hist[l]) - 1) :
                  get_entry(hist[l], n) = BranchBlock(chain.head, n)

\* A client that was sent everything up to the head has the blocks of the head's
\* branch, however the branches changed while it was connected, slow or away. A
\* client of irreversible blocks never has any other.
ClientInStep ==
    /\ running /\ session.request.start > Num[chain.head] /\ session.queue = <<>> =>
          \A n \in Numbers \ {Num[Genesis]} : n <= Num[chain.head] => view[n] = BranchBlock(chain.head, n)
    /\ final_only => \A n \in Numbers : view[n] \in Ancestry[chain.final] \cup {NoBlock}

-----------------------------------------------------------------------------

(***************************************************************************)
(* The store of the trace API plugin: a trace file and an index file per   *)
(* slice of blocks. The chain appends, a thread prunes and compresses what *)
(* is old enough, and requests read, all without a lock on the files. A    *)
(* flushed write is never torn. A node that replays into an existing store *)
(* is left out.                                                            *)
(***************************************************************************)

CONSTANTS
    Width,             \* trace-slice-stride
    MinHistory,        \* trace-minimum-irreversible-history-blocks
    MinUncompressed,   \* trace-minimum-uncompressed-irreversible-history-blocks
    MaxHeight,         \* bound: the highest block
    MaxStops,          \* bound: the times the process ends
    MaxRows,           \* bound: the blocks written to a slice
    Requested,         \* bound: the heights that are asked for
    Forked             \* bound: the heights at which the chain may change its block

Heights == 1..MaxHeight
slice_number(h) == h \div Width
Slices == 0..slice_number(MaxHeight)
Versions(h) == IF h \in Forked THEN {1, 2} ELSE {1}

VARIABLES
    slices,        \* the index, the trace file and the compressed file of every slice
    branch,        \* the blocks accepted, the last at each height
    lib,           \* the last irreversible block
    writer,        \* the thread of the chain, inside append or append_lib
    mx,            \* the maintenance thread
    best_known_lib,
    shutdown,      \* _maintenance_shutdown
    reader,        \* a request
    stops,         \* history: the times the process has ended
    recreated      \* history: the slices where a reader created an empty file

trace_vars == <<slices, branch, lib, writer, mx, best_known_lib, shutdown, reader, stops, recreated>>

NoRows == [there |-> FALSE, header |-> FALSE, rows |-> <<>>]
WriterIdle == [pc |-> "idle", height |-> 0, version |-> 0]
MxStart == [pc |-> "wait", last_lib |-> 0, lib |-> 0, stop |-> FALSE,
            cleaned |-> -1, compressed |-> -1, todo |-> <<>>]
NoTrace == [num |-> 0, version |-> 0]
NoRead == [pc |-> "idle", height |-> 0, offset |-> 0, irreversible |-> FALSE, row |-> NoTrace]

TraceInit ==
    /\ slices = [s \in Slices |-> [index |-> NoRows, trace |-> NoRows, clog |-> NoRows]]
    /\ branch = <<>>
    /\ lib = 0
    /\ writer = WriterIdle
    /\ mx = MxStart
    /\ best_known_lib = 0
    /\ shutdown = FALSE
    /\ reader = NoRead
    /\ stops = 0
    /\ recreated = {}

-----------------------------------------------------------------------------
(* The chain: append writes the trace and then the index, append_lib the    *)
(* index and then the number that the maintenance thread looks at.          *)

Opened(f) == [f EXCEPT !.there = TRUE, !.header = TRUE]
Added(f, row) == [f EXCEPT !.rows = Append(@, row)]
Headless(f) == f.there /\ ~f.header

\* append opens both files: an index without its header throws, which stops the node.
find_or_create_slice_pair(h, v) ==
    LET s == slice_number(h)
    IN  /\ writer.pc = "idle" /\ ~shutdown
        /\ h > lib /\ h <= Len(branch) + 1 /\ v \in Versions(h)
        /\ h <= Len(branch) => branch[h] # v
        /\ Len(slices[s].trace.rows) < MaxRows
        /\ branch' = SubSeq(branch, 1, h - 1)
        /\ slices' = [slices EXCEPT ![s].trace = Opened(@),
                                    ![s].index = IF Headless(@) THEN @ ELSE Opened(@)]
        /\ writer' = IF Headless(slices[s].index) THEN [WriterIdle EXCEPT !.pc = "quit"]
                     ELSE [pc |-> "trace", height |-> h, version |-> v]
        /\ UNCHANGED <<lib, mx, best_known_lib, shutdown, reader, stops, recreated>>

append_trace ==
    LET s == slice_number(writer.height)
    IN  /\ writer.pc = "trace"
        /\ slices' = [slices EXCEPT ![s].trace = Added(@, [num |-> writer.height, version |-> writer.version])]
        /\ writer' = [writer EXCEPT !.pc = "index"]
        /\ UNCHANGED <<branch, lib, mx, best_known_lib, shutdown, reader, stops, recreated>>

append_index ==
    LET s == slice_number(writer.height)
        row == [num |-> writer.height, offset |-> Len(slices[s].trace.rows), lib |-> 0]
    IN  /\ writer.pc = "index"
        /\ slices' = [slices EXCEPT ![s].index = Added(@, row)]
        /\ branch' = Append(branch, writer.version)
        /\ writer' = WriterIdle
        /\ UNCHANGED <<lib, mx, best_known_lib, shutdown, reader, stops, recreated>>

append_lib ==
    LET s == slice_number(lib + 1)
    IN  /\ writer.pc = "idle" /\ ~shutdown
        /\ lib < Len(branch)
        /\ lib' = lib + 1
        /\ slices' = [slices EXCEPT ![s].index = Added(@, [num |-> 0, offset |-> 0, lib |-> lib + 1])]
        /\ writer' = [WriterIdle EXCEPT !.pc = "set_lib"]
        /\ UNCHANGED <<branch, mx, best_known_lib, shutdown, reader, stops, recreated>>

\* Whether notify_one reaches the thread is left open: the thread may sleep for ever.
set_lib ==
    /\ writer.pc = "set_lib"
    /\ best_known_lib' = lib
    /\ writer' = WriterIdle
    /\ UNCHANGED <<slices, branch, lib, mx, shutdown, reader, stops, recreated>>

\* stop_maintenance_thread, up to the join.
stop_maintenance_thread ==
    /\ writer.pc \in {"idle", "quit"} /\ ~shutdown /\ stops < MaxStops
    /\ shutdown' = TRUE
    /\ writer' = WriterIdle
    /\ UNCHANGED <<slices, branch, lib, mx, best_known_lib, reader, stops, recreated>>

-----------------------------------------------------------------------------
(* The maintenance thread.                                                 *)

\* Mutation: slices are due as soon as their first block is old enough.
DueEarly(n, min, lower) ==
    LET upper == n - min
    IN  IF slice_number(n) < 1 \/ lower >= slice_number(n) - 1 \/ upper < 0 THEN <<>>
        ELSE [i \in 1..Max({0, slice_number(upper) - lower}) |-> lower + i]

\* process_irreversible_slice_range: the slices to process, in order.
Due(n, min, lower) ==
    LET upper == n - min - Width
    IN  IF slice_number(n) < 1 \/ lower >= slice_number(n) - 1 \/ upper < 0 THEN <<>>
        ELSE [i \in 1..Max({0, slice_number(upper) - lower}) |-> lower + i]

\* run_maintenance_tasks as the steps it takes: for every slice to prune the index,
\* then the trace, then the compressed file; for every slice to compress the
\* compressed file (written in two steps) and then the trace.
Jobs(n) ==
    LET prune == Due(n, MinHistory, mx.cleaned)
        compress == IF MinUncompressed < MinHistory THEN Due(n, MinUncompressed, mx.compressed) ELSE <<>>
        steps == <<"index", "trace", "clog">>
        packs == <<"compress", "finish", "remove">>
    IN  [i \in 1..(3 * Len(prune)) |-> [op |-> steps[((i - 1) % 3) + 1], slice |-> prune[((i - 1) \div 3) + 1]]]
        \o [i \in 1..(3 * Len(compress)) |-> [op |-> packs[((i - 1) % 3) + 1], slice |-> compress[((i - 1) \div 3) + 1]]]

mx_wake ==
    /\ mx.pc = "wait"
    /\ mx' = IF mx.last_lib < best_known_lib
             THEN [mx EXCEPT !.pc = "run", !.lib = best_known_lib, !.stop = shutdown, !.todo = Jobs(best_known_lib)]
             ELSE [mx EXCEPT !.pc = IF shutdown THEN "done" ELSE "wait"]
    /\ UNCHANGED <<slices, branch, lib, writer, best_known_lib, shutdown, reader, stops, recreated>>

\* One step on one file. compressed_file::process throws when the trace file is
\* empty: the tasks are dropped and start again.
mx_step ==
    LET job == Head(mx.todo)
        f == slices[job.slice]
        skips == job.op = "compress" /\ ~f.trace.there
        fails == job.op = "compress" /\ f.trace.there /\ f.trace.rows = <<>>
        written == CASE job.op = "index" -> [f EXCEPT !.index = NoRows]
                     [] job.op \in {"trace", "remove"} -> [f EXCEPT !.trace = NoRows]
                     [] job.op = "clog" -> [f EXCEPT !.clog = NoRows]
                     [] job.op = "compress" -> [f EXCEPT !.clog = [NoRows EXCEPT !.there = TRUE]]
                     [] job.op = "finish" -> [f EXCEPT !.clog = f.trace]
    IN  /\ mx.pc = "run" /\ mx.todo # <<>>
        /\ slices' = IF skips \/ fails THEN slices ELSE [slices EXCEPT ![job.slice] = written]
        /\ mx' = IF fails THEN [mx EXCEPT !.pc = IF mx.stop THEN "done" ELSE "wait", !.todo = <<>>]
                 ELSE [mx EXCEPT !.todo = IF skips THEN SubSeq(@, 4, Len(@)) ELSE Tail(@),
                                 !.cleaned = IF job.op = "clog" THEN job.slice ELSE @,
                                 !.compressed = IF job.op = "remove" \/ skips THEN job.slice ELSE @]
        /\ UNCHANGED <<branch, lib, writer, best_known_lib, shutdown, reader, stops, recreated>>

mx_end ==
    /\ mx.pc = "run" /\ mx.todo = <<>>
    /\ mx' = [mx EXCEPT !.pc = IF mx.stop THEN "done" ELSE "wait", !.last_lib = mx.lib]
    /\ UNCHANGED <<slices, branch, lib, writer, best_known_lib, shutdown, reader, stops, recreated>>

-----------------------------------------------------------------------------
(* A request: get_block finds out whether a file is there and then opens   *)
(* it in a mode that creates it.                                           *)

Reads(r) == reader' = r /\ UNCHANGED <<branch, lib, writer, mx, best_known_lib, shutdown, stops>>
NoAnswer == NoRead \* an error, or no trace

get_block(h) ==
    /\ reader.pc \in {"idle", "found"}
    /\ Reads(IF slices[slice_number(h)].index.there THEN [NoRead EXCEPT !.height = h, !.pc = "index"]
             ELSE NoAnswer)
    /\ UNCHANGED <<slices, recreated>>

\* A file that was there and has been removed: the read fails, and the file is created
\* again unless it was opened before it was removed.
Vanished(s, created) ==
    /\ Reads(NoAnswer)
    /\ \/ slices' = [slices EXCEPT ![s] = created] /\ recreated' = recreated \cup {s}
       \/ UNCHANGED <<slices, recreated>>

\* The block last seen at a height before the number that makes the height irreversible.
Scan(h) ==
    LET rows == slices[slice_number(h)].index.rows
        final == {i \in DOMAIN rows : rows[i].lib >= h}
        seen == {i \in DOMAIN rows : rows[i].num = h /\ \A j \in final : i < j}
    IN  [offset |-> IF seen = {} THEN 0 ELSE rows[Max(seen)].offset, irreversible |-> final # {}]

scan_metadata_log_from ==
    LET s == slice_number(reader.height)
        f == slices[s].index
        scan == Scan(reader.height)
    IN  /\ reader.pc = "index"
        /\ IF ~f.there THEN Vanished(s, [slices[s] EXCEPT !.index.there = TRUE])
           ELSE /\ Reads(IF ~f.header \/ scan.offset = 0 THEN NoAnswer
                         ELSE [reader EXCEPT !.pc = "data", !.offset = scan.offset,
                                             !.irreversible = scan.irreversible])
                /\ UNCHANGED <<slices, recreated>>

\* What stands at the offset is returned, whichever block it is.
Extracted(f) == IF reader.offset > Len(f.rows) THEN NoAnswer
                ELSE [reader EXCEPT !.pc = "found", !.offset = 0, !.row = f.rows[reader.offset]]

read_data_log ==
    LET f == slices[slice_number(reader.height)]
    IN  /\ reader.pc = "data"
        /\ Reads(IF f.trace.there THEN [reader EXCEPT !.pc = "trace"]
                 ELSE IF f.clog.there THEN Extracted(f.clog)
                 ELSE NoAnswer)
        /\ UNCHANGED <<slices, recreated>>

read_trace ==
    LET s == slice_number(reader.height)
    IN  /\ reader.pc = "trace"
        /\ IF slices[s].trace.there THEN Reads(Extracted(slices[s].trace)) /\ UNCHANGED <<slices, recreated>>
           ELSE Vanished(s, [slices[s] EXCEPT !.trace = Opened(@)])

-----------------------------------------------------------------------------
(* The process ends, by a clean stop or not, and starts again with the     *)
(* blocks the store has been told of.                                      *)

Started ==
    /\ stops < MaxStops /\ stops' = stops + 1
    /\ writer' = WriterIdle /\ mx' = MxStart /\ reader' = NoRead
    /\ best_known_lib' = 0 /\ shutdown' = FALSE
    /\ UNCHANGED <<branch, lib, recreated>>

restart ==
    /\ shutdown /\ writer.pc = "idle" /\ mx.pc = "done"
    /\ Started /\ UNCHANGED slices

\* A crash leaves a trace cut short, or a new index without its header.
trace_crash ==
    LET s == slice_number(writer.height)
    IN  /\ Started
        /\ \/ UNCHANGED slices
           \/ writer.pc = "trace" /\ Len(slices[s].trace.rows) < MaxRows
              /\ slices' = [slices EXCEPT ![s].trace = Added(@, NoTrace)]
           \/ writer.pc = "trace" /\ slices[s].index.rows = <<>>
              /\ slices' = [slices EXCEPT ![s].index = [NoRows EXCEPT !.there = TRUE]]

TraceNext ==
    \/ \E h \in Heights : \E v \in Versions(h) : find_or_create_slice_pair(h, v)
    \/ \E h \in Requested : get_block(h)
    \/ append_trace \/ append_index \/ append_lib \/ set_lib
    \/ stop_maintenance_thread \/ restart \/ trace_crash
    \/ mx_wake \/ mx_step \/ mx_end
    \/ scan_metadata_log_from \/ read_data_log \/ read_trace

TraceSpec == TraceInit /\ [][TraceNext]_trace_vars

-----------------------------------------------------------------------------
(* A trace that a request is given as irreversible is the trace of the     *)
(* block that became final at the requested height, whatever forks were    *)
(* written to the slice, however the request interleaves with pruning and  *)
(* compression, and after crashes between the files of an append.          *)
RightTrace ==
    reader.pc = "found" /\ reader.irreversible =>
        reader.row = [num |-> reader.height, version |-> branch[reader.height]]

\* A request for the height would be answered with the final block's trace.
Accessible(h) ==
    LET f == slices[slice_number(h)]
        data == IF f.trace.there THEN f.trace ELSE f.clog
        scan == Scan(h)
    IN  /\ f.index.header
        /\ scan.irreversible
        /\ scan.offset \in DOMAIN data.rows
        /\ data.rows[scan.offset] = [num |-> h, version |-> branch[h]]

Retained == {h \in 1..lib : lib - h <= MinHistory}

(* The maintenance thread never makes a trace unreadable that the options  *)
(* say is retained: pruning stops short of the minimum history, and        *)
(* compression replaces a trace file only by a complete compressed one.    *)
(* Slices in which a request created an empty file are excepted.           *)
RetainedReadable == \A h \in Retained : slice_number(h) \notin recreated => Accessible(h)

(* "Compressed slice files are still accessible" (trace_api_plugin.cpp):   *)
(* a retained trace can be read.                                           *)
StillAccessible == \A h \in Retained : Accessible(h)
=============================================================================
