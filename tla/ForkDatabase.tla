---------------------------- MODULE ForkDatabase ----------------------------
(***************************************************************************)
(* The fork database: the tree of the blocks that build on the last        *)
(* irreversible block and may still be reversed, which of them have been   *)
(* validated, and the head that validation has led to.                     *)
(*                                                                         *)
(* Every action is one call of the public interface that changes state. A  *)
(* call whose EOS_ASSERT fails before anything is written leaves the state *)
(* alone and is no step here.                                              *)
(***************************************************************************)
EXTENDS BlockTree

VARIABLES
    index,      \* the blocks in the multi-index
    validated,  \* the blocks of the index whose validated flag is set
    root,       \* the root of the tree, not in the index
    fork_head   \* fork_database_impl::head

vars == <<index, validated, root, fork_head>>

\* reset: an empty tree whose head is its root.
Init ==
    /\ index = {}
    /\ validated = {}
    /\ root = Genesis
    /\ fork_head = Genesis

-----------------------------------------------------------------------------
(* What the operations compute.                                            *)

\* get_block_header: the blocks another block can link to.
Linkable == index \cup {root}

\* Mutation: a greater number is enough.
HeadAfterMarkByNum(valid, old) ==
    IF Num[First(valid)] > Num[old] THEN First(valid) ELSE old

\* add re-reads the head from the front of the index, id order included,
\* whenever the front of the index is a valid block.
HeadAfterAdd(valid, old) == IF valid = {} THEN old ELSE First(valid)

\* mark_valid moves the head only to a block that is strictly preferred.
HeadAfterMark(valid, old) ==
    IF first_preferred(First(valid), old) THEN First(valid) ELSE old

\* The best block that has not been validated, when it beats the head.
pending_head ==
    LET unvalidated == index \ validated
    IN  IF unvalidated # {} /\ first_preferred(First(unvalidated), fork_head)
        THEN First(unvalidated)
        ELSE fork_head

\* The blocks the queue of remove(id) visits in the index idx: id itself and
\* whatever hangs below it, that is, the least set with id that holds every
\* block whose previous block it holds.
remove_queue(idx, id) ==
    {b \in idx \cup {id} :
        \A S \in SUBSET (idx \cup {id}) :
            (id \in S /\ \A c \in idx : Prev[c] \in S => c \in S) => b \in S}

\* Mutation: only the branches off id's predecessor are looked for.
OrphanedOneLevel(id) == remove_queue(index \ {id}, Prev[id])

\* What advance_root(id) removes: once id itself is out of the index, removing
\* the blocks from id's predecessor down to the old root one after the other
\* takes everything below the old root that does not hang below id.
Orphaned(id) == remove_queue(index \ {id}, root)

\* The branch that ends with h: fetch_branch without its trimming.
fetch_branch(h) == IF h \in index THEN Ancestry[h] \cap index ELSE {}

\* The block numbered n on that branch, as a set with at most one element.
search_on_branch(h, n) == {b \in fetch_branch(h) : Num[b] = n}

\* One half of fetch_branch_from: what first does not share with second.
fetch_branch_from(first, second) == Ancestry[first] \ Ancestry[second]

-----------------------------------------------------------------------------
(* The operations.                                                         *)

add(n) ==
    /\ n \in Received \ index
    /\ Prev[n] \in Linkable
    /\ index' = index \cup {n}
    /\ fork_head' = HeadAfterAdd(validated, fork_head)
    /\ UNCHANGED <<validated, root>>

\* The caller marks a block after applying it, so its parent is valid.
mark_valid(h) ==
    /\ h \in index \ validated
    /\ Prev[h] \in validated \cup {root}
    /\ validated' = validated \cup {h}
    /\ fork_head' = HeadAfterMark(validated', fork_head)
    /\ UNCHANGED <<index, root>>

remove(id) ==
    /\ id \in index
    /\ fork_head \notin remove_queue(index, id)
    /\ index' = index \ remove_queue(index, id)
    /\ validated' = validated \ remove_queue(index, id)
    /\ UNCHANGED <<root, fork_head>>

RollbackOneLevel ==
    /\ validated' = {b \in validated : Prev[b] # root}
    /\ fork_head' = root
    /\ UNCHANGED <<index, root>>

\* The last conjunct of the guard is what keeps remove from throwing halfway:
\* the head hangs below the new root. Controller shows it of every call.
advance_root(id) ==
    /\ id \in validated
    /\ fork_head \notin Orphaned(id)
    /\ index' = (index \ {id}) \ Orphaned(id)
    /\ validated' = (validated \ {id}) \ Orphaned(id)
    /\ root' = id
    /\ UNCHANGED fork_head

rollback_head_to_root ==
    /\ validated' = {}
    /\ fork_head' = root
    /\ UNCHANGED <<index, root>>

reset(b) ==
    /\ index' = {}
    /\ validated' = {}
    /\ root' = b
    /\ fork_head' = b

Next ==
    \/ \E b \in Block : add(b) \/ mark_valid(b) \/ remove(b)
                        \/ advance_root(b) \/ reset(b)
    \/ rollback_head_to_root

Spec == Init /\ [][Next]_vars

-----------------------------------------------------------------------------
(* Properties.                                                             *)

\* The state is a set of blocks, the flagged ones among them, and two blocks.
TypeOK ==
    /\ index \subseteq Received
    /\ validated \subseteq index
    /\ root \in Block
    /\ fork_head \in Block

\* The database is one tree over its root: every block links to the root or to
\* another block of the database, so that no branch is orphaned (the invariant
\* advance_root asserts while it walks down), every block is preferred over
\* the root, and the head is the root or a validated block of the tree.
OneTree ==
    /\ \A b \in index : Prev[b] \in Linkable
    /\ \A b \in index : first_preferred(b, root)
    /\ fork_head \in validated \cup {root}

\* No validated block beats the head: what open asserts of the file it reads,
\* and what makes the head the chain the node should be on.
HeadIsBest == \A b \in validated : ~first_preferred(b, fork_head)

\* A validated block builds on validated blocks only, through every removal,
\* rollback and advance of the root.
ValidatedPrefix == \A b \in validated : Prev[b] \in validated \cup {root}

\* No block of the database, validated or not, beats pending_head: the block
\* push_block goes for is one of the best there are.
PendingHeadIsBest == \A b \in index : ~first_preferred(b, pending_head)

\* What a step may do to the root, to the tree when the root moves, and to the
\* head.
RootStep ==
    \/ root' = root
    \/ \E b \in Block : reset(b)
    \/ /\ root' \in validated
       /\ root \in Ancestry[root']
       /\ root' \in Ancestry[fork_head']
KeepStep ==
    \/ root' = root
    \/ \E b \in Block : reset(b)
    \/ index' = {b \in index \ {root'} : root' \in Ancestry[b]}
HeadStep ==
    \/ rollback_head_to_root
    \/ \E b \in Block : reset(b)
    \/ ~first_preferred(fork_head, fork_head')

\* The root only ever moves, other than by reset, to a validated block that
\* builds on the old root and that the head builds on: what is irreversible
\* stays irreversible and the head stays on it.
RootAdvances == [][RootStep]_vars

\* advance_root keeps exactly the blocks that build on the new root, the ones
\* on other branches than the head's included.
AdvanceKeepsBranches == [][KeepStep]_vars

\* The head never moves to a block the old head beats, except where it is sent
\* back to the root on purpose.
HeadNeverWorsens == [][HeadStep]_vars
=============================================================================
