------------------------------ MODULE BlockTree ------------------------------
(***************************************************************************)
(* The tree of blocks a node may ever hear of, as the parts of a           *)
(* block_header_state that chain selection looks at: the link to the       *)
(* previous block, the block number, the last irreversible block number    *)
(* (dpos_irreversible_blocknum) the header implies, and the position of    *)
(* the block id in the order sha256_less gives.                            *)
(***************************************************************************)
EXTENDS Naturals

CONSTANTS
    Block,      \* the block ids
    Genesis,    \* the block every chain starts with
    Prev,       \* header.previous
    Num,        \* block_num
    Ancestry,   \* a block and everything it builds on
    Lib,        \* dpos_irreversible_blocknum
    Rank        \* the place of the id in the order of sha256_less

\* block_header_state::next numbers a block one past the block it builds on.
\* The irreversible block number it implies is below the number of the block
\* itself, because calc_dpos_last_irreversible only sees what the headers before
\* the block proposed, and it does not fall along a chain: module Dpos checks
\* both, and shows that the second needs schedules that do not shrink.
ASSUME TreeAssumption ==
    /\ Genesis \in Block
    /\ Prev \in [Block \ {Genesis} -> Block]
    /\ Num \in [Block -> Nat]
    /\ Lib \in [Block -> Nat]
    /\ \A b \in Block \ {Genesis} : /\ Num[b] = Num[Prev[b]] + 1
                                    /\ Lib[b] >= Lib[Prev[b]]
    /\ \A b \in Block : Lib[b] < Num[b]

\* Two blocks never have the same id.
ASSUME RankAssumption ==
    /\ Rank \in [Block -> Nat]
    /\ \A a, b \in Block : Rank[a] = Rank[b] => a = b

\* The blocks a fork database can hold: every block but the genesis block
\* builds on another one.
Received == Block \ {Genesis}

\* The chain of previous links below a block; the links leave no other choice.
ASSUME AncestryAssumption ==
    /\ Ancestry \in [Block -> SUBSET Block]
    /\ Ancestry[Genesis] = {Genesis}
    /\ \A b \in Received : Ancestry[b] = {b} \cup Ancestry[Prev[b]]

\* The strict order of chain selection: the greater irreversible block number
\* wins, then the greater block number. It does not look at the id.
first_preferred(lhs, rhs) ==
    \/ Lib[lhs] > Lib[rhs]
    \/ Lib[lhs] = Lib[rhs] /\ Num[lhs] > Num[rhs]

\* The order of the index by_lib_block_num among blocks that agree on being
\* valid: as first_preferred, and the smaller id first where that ties.
Precedes(lhs, rhs) ==
    \/ first_preferred(lhs, rhs)
    \/ ~first_preferred(rhs, lhs) /\ Rank[lhs] < Rank[rhs]

\* The first element of a non-empty part of that index.
First(S) == CHOOSE b \in S : \A c \in S \ {b} : Precedes(b, c)
==============================================================================
