------------------------------- MODULE MCStores -------------------------------
(***************************************************************************)
(* What a node keeps on disk, one store at a time: the block log, the      *)
(* state history, the trace slices, the file of the fork database and the  *)
(* snapshots. A behaviour takes steps of the store that its initial state  *)
(* picks.                                                                  *)
(***************************************************************************)
EXTENDS BlockLog, HistoryStores, TLC

\* Two branches after number 2. On the second a block stores more than on the first, and
\* its last block makes two blocks irreversible at once.
MCBlock == {"g", "a2", "a3", "a4", "b3", "b4"}
MCGenesis == "g"
MCPrev == ("a2" :> "g") @@ ("a3" :> "a2") @@ ("a4" :> "a3") @@ ("b3" :> "a2") @@ ("b4" :> "b3")
MCNum == ("g" :> 1) @@ ("a2" :> 2) @@ ("a3" :> 3) @@ ("a4" :> 4) @@ ("b3" :> 3) @@ ("b4" :> 4)
MCAncestry[b \in MCBlock] ==
    IF b = MCGenesis THEN {b} ELSE {b} \cup MCAncestry[MCPrev[b]]
MCLib == ("g" :> 0) @@ ("a2" :> 1) @@ ("a3" :> 1) @@ ("a4" :> 2) @@ ("b3" :> 1) @@ ("b4" :> 3)
MCRank == ("g" :> 0) @@ ("a2" :> 1) @@ ("a3" :> 2) @@ ("a4" :> 3) @@ ("b3" :> 4) @@ ("b4" :> 5)
MCEntrySize == [b \in MCBlock |-> IF b \in {"b3", "b4"} THEN 2 ELSE 1]

VARIABLES
    part,
    f_index, f_validated, f_root, f_head, f_status, f_file, f_exists, f_loaded,
    s_mode, s_index, s_root, s_head, s_pending, s_files, s_answers

file_vars == <<f_index, f_validated, f_root, f_head, f_status, f_file, f_exists, f_loaded>>
snapshot_vars == <<s_mode, s_index, s_root, s_head, s_pending, s_files, s_answers>>

ForkFile == INSTANCE ForkDatabaseFile WITH
    index <- f_index, validated <- f_validated, root <- f_root, fork_head <- f_head,
    status <- f_status, file <- f_file, exists <- f_exists, loaded <- f_loaded

Snap == INSTANCE Snapshots WITH
    Request <- 1..3,
    mode <- s_mode, index <- s_index, root <- s_root, head <- s_head,
    pending <- s_pending, files <- s_files, answers <- s_answers

Parts == {"log", "history", "traces", "fork", "snapshots"}

Init ==
    /\ part \in Parts
    /\ LogInit /\ ShipInit /\ TraceInit /\ ForkFile!FileInit /\ Snap!Init
    /\ part # "history" => ~final_only
    /\ part # "snapshots" => s_mode = "speculative"

Same(others) == UNCHANGED <<part, others>>

Next ==
    \/ part = "log" /\ LogNext /\ Same(<<ship_vars, trace_vars, file_vars, snapshot_vars>>)
    \/ part = "history" /\ ShipNext /\ Same(<<log_vars, trace_vars, file_vars, snapshot_vars>>)
    \/ part = "traces" /\ TraceNext /\ Same(<<log_vars, ship_vars, file_vars, snapshot_vars>>)
    \/ part = "fork" /\ ForkFile!FileNext /\ Same(<<log_vars, ship_vars, trace_vars, snapshot_vars>>)
    \/ part = "snapshots" /\ Snap!Next /\ Same(<<log_vars, ship_vars, trace_vars, file_vars>>)

Spec == Init /\ [][Next]_<<part, log_vars, ship_vars, trace_vars, file_vars, snapshot_vars>>

-----------------------------------------------------------------------------
\* A restart through the file is invisible: what fork_database::open restores is what
\* close saved, flags and head included, and all else is a call on the database.
RestartIsInvisible == ForkFile!RestartIsInvisible

\* The state history logs are the branch the node is on, through forks and crashes between the two
\* logs and their indices, and a client that reads them is told of every change of branch.
HistorySound == HistoryIsBranch /\ ClientInStep

\* A request for the trace of a block gets the trace of the block that became final, and every
\* block inside the promised history is readable while slices are compressed and removed.
TracesSound == RightTrace /\ RetainedReadable

\* Every request for a snapshot is answered once, and whoever is told that it is done finds the
\* file under its name; when on_irreversible_block has run, every snapshot up to the block is
\* decided.
SnapshotsSound == [](Snap!AnsweredOnce /\ Snap!DoneHasFile) /\ Snap!NoneOverdue
==============================================================================
