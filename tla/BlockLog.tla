------------------------------- MODULE BlockLog -------------------------------
(***************************************************************************)
(* The block log: blocks.log, where every block is followed by its own     *)
(* position, and blocks.index, which has the position of every block. An   *)
(* operation is the sequence of states it takes the files through. The     *)
(* process may die between two of them, or in the middle of writing a      *)
(* block; what the operating system was given is not lost.                 *)
(***************************************************************************)
EXTENDS Naturals, Sequences

CONSTANTS
    MaxBlock,      \* bound: the highest block number
    BufferLength   \* index_writer::_max_buffer_length, the positions in one write

ASSUME BlockLogAssumption == MaxBlock \in Nat /\ BufferLength \in Nat \ {0}

VARIABLES
    disk,          \* blocks.log, blocks.index, the blocks in old.log and in the backups
    todo,          \* what the operation in progress has still to do to the files
    doing,         \* which operation that is
    logger,        \* the block log in the node: "closed", "open" or "refused"
    kept,          \* history: the blocks written and not trimmed on purpose
    interrupted    \* history: the operations that a crash cut short

log_vars == <<disk, todo, doing, logger, kept, interrupted>>

Idle == todo = <<>>

\* header: no file, an empty one, a header cut short, version 0, a complete one.
NoBlocks(header, first) == [header |-> header, first |-> first, blocks |-> <<>>, torn |-> FALSE]

LogInit ==
    /\ disk = [log |-> NoBlocks("absent", 0), index |-> <<>>, old |-> {}, backup |-> {}]
    /\ todo = <<>>
    /\ doing = "nothing"
    /\ logger = "closed"
    /\ kept = {}
    /\ interrupted = {}

Blocks(l) == {l.blocks[i] : i \in 1..Len(l.blocks)}

\* A genesis state takes more room than a chain id.
HeaderSize(first) == IF first = 1 THEN 2 ELSE 1
Pos(l, i) == HeaderSize(l.first) + i - 1
Positions(l) == [i \in 1..Len(l.blocks) |-> Pos(l, i)]

\* The block at a position; 0 where none begins.
read_block(l, pos) ==
    IF \E i \in 1..Len(l.blocks) : Pos(l, i) = pos
    THEN l.blocks[pos - HeaderSize(l.first) + 1]
    ELSE 0

read_head(l) == IF l.blocks = <<>> THEN 0 ELSE l.blocks[Len(l.blocks)]

\* 0 stands for no block, and for a read past the end of the index.
read_block_by_num(n) ==
    LET l == disk.log
    IN  IF l.header = "set" /\ read_head(l) # 0 /\ n <= read_head(l) /\ n >= l.first
           /\ n - l.first < Len(disk.index)
        THEN read_block(l, disk.index[n - l.first + 1])
        ELSE 0

\* The operation goes through the given states of the files; from the first
\* of them on the blocks in keep are the ones that count.
Starts(name, states, keep) ==
    /\ Idle
    /\ todo' = [i \in 1..Len(states) |-> [disk |-> states[i], kept |-> keep[i]]]
    /\ doing' = name

Always(keep, states) == [i \in 1..Len(states) |-> keep]

-----------------------------------------------------------------------------
\* index_writer writes the positions from the last buffer to the first; what
\* it has not reached yet reads as zero.
IndexWriter(d) ==
    LET n == Len(d.log.blocks)
        buffers == (n + BufferLength - 1) \div BufferLength
    IN  [j \in 1..buffers |->
            [d EXCEPT !.index = [i \in 1..n |-> IF i + j * BufferLength > n THEN Pos(d.log, i) ELSE 0]]]

construct_index(d) ==
    LET removed == [d EXCEPT !.index = <<>>] IN <<removed>> \o IndexWriter(removed)

\* Mutation: any index that is there is trusted.
IndexIsThere(d) == d.index # <<>>

\* The last position in the index is the one at the end of the log.
IndexHeadMatches(d) ==
    /\ d.index # <<>> /\ d.log.blocks # <<>>
    /\ d.index[Len(d.index)] = Pos(d.log, Len(d.log.blocks))

open ==
    /\ logger # "open" /\ Idle
    /\ \/ /\ disk.log.header \in {"absent", "empty"}
          /\ disk' = [disk EXCEPT !.log = NoBlocks("empty", 0), !.index = <<>>]
          /\ logger' = "open"
          /\ UNCHANGED <<todo, doing>>
       \/ /\ disk.log.header \in {"part", "invalid"} \/ disk.log.torn
          /\ logger' = "refused"
          /\ UNCHANGED <<disk, todo, doing>>
       \/ /\ disk.log.header = "set" /\ ~disk.log.torn
          /\ logger' = "open"
          /\ IF IndexHeadMatches(disk)
             THEN UNCHANGED <<todo, doing>>
             ELSE Starts("index", construct_index(disk), Always(kept, construct_index(disk)))
          /\ UNCHANGED disk
    /\ UNCHANGED <<kept, interrupted>>

\* append: the block with its position reaches the file before the index.
AppendedTo(d, n) ==
    LET logged == [d EXCEPT !.log.blocks = Append(@, n)]
    IN  <<logged, [logged EXCEPT !.index = Append(@, Pos(logged.log, Len(logged.log.blocks)))]>>

append(n) ==
    /\ logger = "open" /\ disk.log.header = "set"
    /\ disk.log.first + Len(disk.index) = n
    /\ Starts("append", AppendedTo(disk, n), Always(kept \cup {n}, AppendedTo(disk, n)))
    /\ UNCHANGED <<disk, logger, kept, interrupted>>

\* reset, which the controller calls on a log without blocks: version 0 until
\* all is written.
Reset(first, firstBlock) ==
    LET removed == [disk EXCEPT !.log = NoBlocks("absent", 0)]
        bare == [removed EXCEPT !.index = <<>>]
        begun == [bare EXCEPT !.log = NoBlocks("invalid", first)]
        states == <<removed, bare, begun>> \o (IF firstBlock THEN AppendedTo(begun, first) ELSE <<>>)
        done == [states[Len(states)] EXCEPT !.log.header = "set"]
    IN  /\ logger = "open" /\ read_head(disk.log) = 0
        /\ Starts("reset", Append(states, done),
                  Append(Always({}, states), IF firstBlock THEN {first} ELSE {}))
        /\ UNCHANGED <<disk, logger, kept, interrupted>>

reset_from_genesis == Reset(1, TRUE)
reset_from_snapshot(n) == n > 1 /\ Reset(n, FALSE)

close ==
    /\ logger = "open" /\ Idle
    /\ logger' = "closed"
    /\ UNCHANGED <<disk, todo, doing, kept, interrupted>>

-----------------------------------------------------------------------------
\* repair_log copies back the blocks up to the one to stop at.
CopyCount(stop) ==
    IF stop \in Blocks(disk.log)
    THEN CHOOSE i \in 1..Len(disk.log.blocks) : disk.log.blocks[i] = stop
    ELSE Len(disk.log.blocks)
CopiedBack(d, n) ==
    [d EXCEPT !.log = [NoBlocks("set", 1) EXCEPT !.blocks = SubSeq(disk.log.blocks, 1, n)]]

\* The directory is moved away before any check; then the version and the header are
\* written, unless the log is refused, and the blocks one by one up to the first that
\* is not whole.
RepairStates(moved, versioned, stop) ==
    IF disk.log.header \in {"empty", "invalid"} THEN <<moved>>
    ELSE IF disk.log.header = "part" \/ disk.log.first # 1 THEN <<moved, versioned>>
    ELSE <<moved, versioned>> \o [i \in 1..(CopyCount(stop) + 1) |-> CopiedBack(moved, i - 1)]

repair_log(stop) ==
    LET moved == [disk EXCEPT !.log = NoBlocks("empty", 0), !.index = <<>>,
                              !.backup = @ \cup Blocks(disk.log)]
        versioned == [moved EXCEPT !.log = NoBlocks("part", 0)]
        states == RepairStates(moved, versioned, stop)
    IN  /\ logger # "open" /\ disk.log.header # "absent"
        /\ Starts("repair", states,
                  Always({n \in kept : stop = 0 \/ n <= stop}, states))
        /\ logger' = "closed"
        /\ UNCHANGED <<disk, kept, interrupted>>

\* trim_data: both files are there, and the index is right about the first block.
TrimData == disk.log.header = "set" /\ disk.index # <<>> /\ read_block(disk.log, disk.index[1]) = disk.log.first
LastIndexed == disk.log.first + Len(disk.index) - 1

\* trim_data::block_pos, which throws when the log does not have block n there.
block_pos(n) == disk.index[n - disk.log.first + 1]
HasBlockAt(n) == read_block(disk.log, block_pos(n)) = n

\* How many blocks of the log are before a position.
BlocksBefore(pos) == pos - HeaderSize(disk.log.first)

\* The new log: a header with the chain id, and the blocks from n on.
TrimmedFront(n) ==
    [header |-> "set", first |-> n, torn |-> FALSE,
     blocks |-> SubSeq(disk.log.blocks, BlocksBefore(block_pos(n)) + 1, Len(disk.log.blocks))]

\* trim_blocklog_front: the new files are complete before the four renames. If
\* the index has not as many blocks as the log, index_writer::complete throws
\* before the first of them, as does a log with a torn end.
trim_blocklog_front(n) ==
    LET moved == [disk EXCEPT !.log = NoBlocks("absent", 0), !.old = Blocks(disk.log)]
        logged == [moved EXCEPT !.log = TrimmedFront(n)]
        bare == [logged EXCEPT !.index = <<>>]
        states == <<moved, logged, bare, [bare EXCEPT !.index = Positions(bare.log)]>>
    IN  /\ logger # "open" /\ TrimData
        /\ disk.log.first < n /\ n <= LastIndexed
        /\ HasBlockAt(n)
        /\ ~disk.log.torn /\ Len(disk.index) = Len(disk.log.blocks)
        /\ Starts("trim", states, Always({b \in kept : b >= n}, states))
        /\ UNCHANGED <<disk, logger, kept, interrupted>>

\* trim_blocklog_end: two files cut one after the other.
trim_blocklog_end(n) ==
    LET cut == [disk EXCEPT !.log.blocks = SubSeq(@, 1, BlocksBefore(block_pos(n + 1))),
                             !.log.torn = FALSE]
        states == <<cut, [cut EXCEPT !.index = SubSeq(@, 1, n - cut.log.first + 1)]>>
    IN  /\ logger # "open" /\ TrimData
        /\ disk.log.first <= n /\ n < LastIndexed
        /\ HasBlockAt(n + 1)
        /\ Starts("cut", states, Always({b \in kept : b <= n}, states))
        /\ UNCHANGED <<disk, logger, kept, interrupted>>

make_index ==
    /\ logger # "open"
    /\ disk.log.header = "set" /\ ~disk.log.torn /\ disk.log.blocks # <<>>
    /\ Starts("index", construct_index(disk), Always(kept, construct_index(disk)))
    /\ UNCHANGED <<disk, logger, kept, interrupted>>

-----------------------------------------------------------------------------
\* The operation in progress reaches its next state of the files.
write_file ==
    /\ todo # <<>>
    /\ disk' = Head(todo).disk
    /\ kept' = Head(todo).kept
    /\ todo' = Tail(todo)
    /\ doing' = IF Len(todo) = 1 THEN "nothing" ELSE doing
    /\ interrupted' = CASE doing = "reset" -> {}
                        [] doing = "index" /\ Len(todo) = 1 -> interrupted \ {"index"}
                        [] OTHER -> interrupted
    /\ UNCHANGED logger

\* A block that was being written may be there in part.
Torn(d, next) ==
    IF d.log.header = "set" /\ Len(next.log.blocks) > Len(d.log.blocks)
    THEN {d, [d EXCEPT !.log.torn = TRUE]}
    ELSE {d}

log_crash ==
    /\ logger = "open" \/ ~Idle
    /\ disk' \in IF Idle THEN {disk} ELSE Torn(disk, Head(todo).disk)
    /\ interrupted' = IF Idle THEN interrupted ELSE interrupted \cup {doing}
    /\ logger' = "closed"
    /\ todo' = <<>>
    /\ doing' = "nothing"
    /\ UNCHANGED kept

LogNext ==
    \/ open
    \/ \E n \in 1..MaxBlock : append(n)
    \/ reset_from_genesis
    \/ \E n \in 1..MaxBlock : reset_from_snapshot(n)
    \/ close
    \/ \E stop \in 0..MaxBlock : repair_log(stop)
    \/ \E n \in 1..MaxBlock : trim_blocklog_front(n)
    \/ \E n \in 1..MaxBlock : trim_blocklog_end(n)
    \/ make_index
    \/ write_file
    \/ log_crash

LogSpec == LogInit /\ [][LogNext]_log_vars

-----------------------------------------------------------------------------
\* A log that has been opened finds by its number every block from the first
\* to the head and nothing else, whatever the crash before left behind. It may
\* not when the crash cut short an earlier construct_index: the last position
\* is written first, so such an index looks complete.
ReadsBack ==
    logger = "open" /\ Idle /\ "index" \notin interrupted =>
        \A n \in 1..MaxBlock :
            read_block_by_num(n) = IF disk.log.first <= n /\ n <= read_head(disk.log) THEN n ELSE 0

\* No block that was appended is lost unless it was trimmed on purpose: it is in
\* the log, in the log that trimming moved away or in a backup of repair_log;
\* it is in the log itself if no trimming and no repair was interrupted.
KeepsBlocks ==
    /\ kept \subseteq Blocks(disk.log) \cup disk.old \cup disk.backup
    /\ logger = "open" /\ Idle /\ interrupted \cap {"repair", "trim"} = {}
       => kept \subseteq Blocks(disk.log)

\* The block log and its index give back every block that was appended, whatever a crash, a repair
\* or a trim left behind, but for an index whose construction was cut short; and no tool loses a
\* block it was not asked to drop.
LogSound == ReadsBack /\ KeepsBlocks
==============================================================================
