------------------------------ MODULE Snapshots ------------------------------
(***************************************************************************)
(* Snapshots on request. The producer plugin writes the state at the head  *)
(* to a file, keeps the file pending until its block is irreversible, and  *)
(* answers everyone who asked. Blocks arrive meanwhile, and the head moves *)
(* between forks. In irreversible mode the head is the last irreversible   *)
(* block and the answer is immediate.                                      *)
(***************************************************************************)
EXTENDS BlockTree, Sequences

LOCAL INSTANCE Functions

CONSTANT
    Request     \* the calls of create_snapshot

VARIABLES
    mode,       \* read_mode: "irreversible" or "speculative"
    index,      \* the blocks in the fork database
    root,       \* the last irreversible block
    head,       \* the head of the chain
    pending,    \* _pending_snapshot_index: who waits, for each block in it
    files,      \* the snapshot files, as pairs of a block and a stage
    answers     \* what each request has been answered so far

vars == <<mode, index, root, head, pending, files, answers>>
chain_vars == <<mode, index, root, head>>

Init ==
    /\ mode \in {"irreversible", "speculative"}
    /\ index = {}
    /\ root = Genesis
    /\ head = Genesis
    /\ pending = <<>>
    /\ files = {}
    /\ answers = [r \in Request |-> <<>>]

Waiting == UNION Range(pending)
Told(requests, what, b) ==
    [r \in Request |-> IF r \in requests THEN Append(answers[r], [what |-> what, block |-> b])
                       ELSE answers[r]]

Renamed(b, from, to) == (files \ {<<b, from>>}) \cup {<<b, to>>}

\* The request joins the ones that wait for the same block.
Attach(r) == [pending EXCEPT ![head] = @ \cup {r}]

create_snapshot(r) ==
    /\ answers[r] = <<>> /\ r \notin Waiting
    /\ UNCHANGED chain_vars
    /\ \/ /\ <<head, "final">> \in files
          /\ answers' = Told({r}, "exists", head)
          /\ UNCHANGED <<pending, files>>
       \/ /\ <<head, "final">> \notin files
          /\ mode = "speculative" /\ head \in DOMAIN pending
          /\ pending' = Attach(r)
          /\ UNCHANGED <<files, answers>>
       \/ \* Writing or renaming fails; what was written stays.
          /\ <<head, "final">> \notin files
          /\ mode = "irreversible" \/ head \notin DOMAIN pending
          /\ files' \in {files, files \cup {<<head, "incomplete">>}}
          /\ answers' = Told({r}, "error", head)
          /\ UNCHANGED pending
       \/ /\ <<head, "final">> \notin files
          /\ mode = "irreversible"
          /\ files' = Renamed(head, "incomplete", "final")
          /\ answers' = Told({r}, "done", head)
          /\ UNCHANGED pending
       \/ /\ <<head, "final">> \notin files
          /\ mode = "speculative" /\ head \notin DOMAIN pending
          /\ files' = Renamed(head, "incomplete", "pending")
          /\ pending' = [b \in DOMAIN pending \cup {head} |-> IF b = head THEN {r} ELSE pending[b]]
          /\ UNCHANGED answers

\* Mutation: the snapshot at the irreversible block itself is left for later.
DueBelow(lib) == {b \in DOMAIN pending : Num[b] < Num[lib]}

\* The snapshots that a new irreversible block decides.
Due(lib) == {b \in DOMAIN pending : Num[b] <= Num[lib]}

\* fetch_block_by_id, while the fork database still holds held.
fetch_block_by_id(b, held) == b \in held \/ b \in Ancestry[root]

\* pending_snapshot::finalize: promoted, not promoted because the file cannot
\* be renamed, or forked out.
finalize(b, held, fails) ==
    CASE ~fetch_block_by_id(b, held) -> "forked"
      [] fetch_block_by_id(b, held) /\ b \in fails -> "error"
      [] OTHER -> "done"

Promotes(due, fate) ==
    (files \ {<<b, "pending">> : b \in {c \in due : fate[c] # "error"}})
        \cup {<<b, "final">> : b \in {c \in due : fate[c] = "done"}}

Undecided(due) == Restrict(pending, DOMAIN pending \ due)

\* on_irreversible_block for all blocks up to lib: log_irreversible sends the
\* signals one after the other while the fork database holds what it held.
on_irreversible_block(lib, held) ==
    \E fails \in SUBSET Due(lib) :
        LET due == Due(lib)
            fate == [b \in due |-> finalize(b, held, fails)]
            asked == [r \in UNION {pending[b] : b \in due} |-> CHOOSE b \in due : r \in pending[b]]
        IN  /\ files' = Promotes(due, fate)
            /\ pending' = Undecided(due)
            /\ answers' = [r \in Request |->
                  IF r \in DOMAIN asked
                  THEN Append(answers[r], [what |-> fate[asked[r]], block |-> asked[r]])
                  ELSE answers[r]]

\* push_block: the block is stored, the best branch becomes the head, and what
\* it makes irreversible is logged before the root moves and its forks go.
push_block(b) ==
    LET held == index \cup {b}
        best == IF first_preferred(b, head) THEN b ELSE head
        source == IF mode = "speculative" THEN best
                  ELSE First({c \in held : \A d \in held : ~first_preferred(d, c)})
        logged == {c \in Ancestry[source] : Num[c] <= Lib[source] /\ Num[c] > Num[root]}
        lib == CHOOSE c \in logged : \A d \in logged : Num[d] <= Num[c]
    IN  /\ b \in Received \ index /\ Prev[b] \in index \cup {root}
        /\ IF logged = {}
           THEN /\ index' = held
                /\ head' = IF mode = "speculative" THEN best ELSE head
                /\ UNCHANGED <<root, pending, files, answers>>
           ELSE /\ root' = lib
                /\ index' = {c \in held : lib \in Ancestry[c] /\ c # lib}
                /\ head' = IF mode = "speculative" THEN best ELSE lib
                /\ on_irreversible_block(lib, held)
        /\ UNCHANGED mode

\* The process ends: what is pending is forgotten, those who wait are never
\* answered, and the files stay.
restart ==
    /\ pending' = <<>>
    /\ answers' = [r \in Request |-> IF r \in Waiting
                                     THEN Append(answers[r], [what |-> "gone", block |-> head])
                                     ELSE answers[r]]
    /\ UNCHANGED <<chain_vars, files>>

Next ==
    \/ \E r \in Request : create_snapshot(r)
    \/ \E b \in Block : push_block(b)
    \/ restart

Spec == Init /\ [][Next]_vars

-----------------------------------------------------------------------------
\* Nobody who asked for a snapshot is answered twice, and nobody who waits has
\* been answered: the handlers that create_snapshot chains to an entry of the
\* index are all called, once, when the entry is decided.
AnsweredOnce ==
    \A r \in Request : /\ Len(answers[r]) <= 1
                       /\ r \in Waiting => answers[r] = <<>>

\* When the last irreversible block moves, every snapshot up to it is decided.
NoneOverdue == [][root' # root => \A b \in DOMAIN pending' : Num[b] > Num[root']]_vars

\* Whoever is told that the snapshot is done finds the file under its name.
DoneHasFile ==
    \A r \in Request : answers[r] # <<>> /\ answers[r][1].what = "done"
                       => <<answers[r][1].block, "final">> \in files
==============================================================================
