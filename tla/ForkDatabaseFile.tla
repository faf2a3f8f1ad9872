-------------------------- MODULE ForkDatabaseFile --------------------------
(***************************************************************************)
(* The fork database with the file that carries it over a restart: close   *)
(* writes the blocks in an order from which open can add them one by one.  *)
(* open deletes the file once it has read it.                              *)
(***************************************************************************)
EXTENDS ForkDatabase, Sequences

LOCAL INSTANCE SequencesExt
LOCAL INSTANCE Functions

VARIABLES
    status,     \* "open"; "closed"; "loading": inside open; "failed": open threw
    file,       \* fork_db.dat: its blocks in order, which are flagged, root, head
    exists,     \* whether the file is there
    loaded      \* how many of its blocks open has added

file_vars == <<status, file, exists, loaded>>
all_vars == <<vars, file_vars>>

Contents(blocks, valid, r, h) == [blocks |-> blocks, valid |-> valid, root |-> r, head |-> h]

NoFile == Contents(<<>>, {}, Genesis, Genesis)

FileInit ==
    /\ Init
    /\ status = "open"
    /\ file = NoFile
    /\ exists = FALSE
    /\ loaded = 0

\* Mutation: the flagged blocks last, whatever their numbers.
UnvalidatedFirst(a, b) ==
    IF a \in validated <=> b \in validated THEN Precedes(b, a) ELSE b \in validated

\* The order in which close merges the two halves of the index, each backwards.
WriteBefore(a, b) ==
    \/ first_preferred(b, a)
    \/ /\ ~first_preferred(a, b)
       /\ IF a \in validated <=> b \in validated THEN Rank[a] > Rank[b] ELSE a \in validated

close ==
    /\ status = "open"
    /\ file' = Contents(SetToSortSeq(index, WriteBefore), validated, root, fork_head)
    /\ exists' = TRUE
    /\ index' = {}
    /\ validated' = {}
    /\ status' = "closed"
    /\ loaded' = 0
    /\ UNCHANGED <<root, fork_head>>

\* open up to the loop, with a file and without one.
open ==
    /\ status = "closed"
    /\ IF exists
       THEN reset(file.root) /\ status' = "loading"
       ELSE reset(Genesis) /\ status' = "open"
    /\ UNCHANGED <<file, exists, loaded>>

\* One turn of the loop: the block comes with its flag.
load_block ==
    /\ status = "loading"
    /\ loaded < Len(file.blocks)
    /\ LET b == file.blocks[loaded + 1]
       IN  IF Prev[b] \notin Linkable
           THEN status' = "failed" /\ UNCHANGED <<vars, loaded>>
           ELSE /\ index' = index \cup {b}
                /\ validated' = validated \cup ({b} \cap file.valid)
                /\ fork_head' = HeadAfterAdd(validated', fork_head)
                /\ loaded' = loaded + 1
                /\ UNCHANGED <<root, status>>
    /\ UNCHANGED <<file, exists>>

\* The end of open: the head by its id, and what is asserted of it.
finish_open ==
    /\ status = "loading"
    /\ loaded = Len(file.blocks)
    /\ LET found == file.head \in Linkable
           best == IF validated = {} THEN file.head = root
                   ELSE ~first_preferred(First(validated), file.head)
       IN  IF found /\ best
           THEN /\ fork_head' = file.head
                /\ status' = "open"
                /\ exists' = FALSE
                /\ file' = NoFile
                /\ loaded' = 0
           ELSE status' = "failed" /\ UNCHANGED <<fork_head, file, exists, loaded>>
    /\ UNCHANGED <<index, validated, root>>

\* The process dies: while open is reading, the file is still there.
die ==
    /\ status \in {"open", "loading"}
    /\ status' = "closed"
    /\ index' = {}
    /\ validated' = {}
    /\ loaded' = 0
    /\ UNCHANGED <<root, fork_head, file, exists>>

FileNext ==
    \/ status = "open" /\ Next /\ UNCHANGED file_vars
    \/ close \/ open \/ load_block \/ finish_open \/ die

FileSpec == FileInit /\ [][FileNext]_all_vars

-----------------------------------------------------------------------------
(* Properties.                                                             *)

\* Between the two, the contents are those of the file: closing and opening the
\* database is no step of it. Without a file it is reset.
kept == exists /\ status \in {"closed", "loading"}
Restored == INSTANCE ForkDatabase WITH
    index <- IF kept THEN Range(file.blocks) ELSE index,
    validated <- IF kept THEN file.valid ELSE validated,
    root <- IF kept THEN file.root ELSE IF status = "closed" THEN Genesis ELSE root,
    fork_head <- IF kept THEN file.head ELSE IF status = "closed" THEN Genesis ELSE fork_head

\* A restart through the file is invisible: what open restores is what close
\* saved, flags and head included, and all else is a call on the database.
RestartIsInvisible == Restored!Spec
=============================================================================
