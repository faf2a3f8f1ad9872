---------------------------- MODULE AccountQuery ----------------------------
(***************************************************************************)
(* account_query_db: an index of permissions by the keys in them, kept in  *)
(* step with the chain from the transaction traces of each block.  There   *)
(* is no undo: every entry has the height of its last change, and a block  *)
(* at or below the highest of them makes the index roll back, entry by     *)
(* entry, to what the chain now says.                                      *)
(*                                                                         *)
(* An authority is the key in it.  The index by height is the sequence it  *)
(* is iterated in, since the roll-back changes it while iterating.         *)
(***************************************************************************)
EXTENDS Integers, Sequences, FiniteSets, TLC, SequencesExt

CONSTANTS
    Perms, Keys,
    Blocks,     \* what a block may do: sequences of [op, perm, key]
    MaxHeight, MaxForks

VARIABLES
    chain,      \* the blocks applied: [time, ops, perms]
    lib,        \* last irreversible block number
    index,      \* permission_info_index by height: sequence of [perm, height]
    bimap,      \* permission -> key found in the bimaps, "none" if absent
    times,      \* time_to_block_num: time -> number, 0 when absent
    failed,     \* a commit threw half-way (and was logged and dropped)
    popped,     \* blocks were popped and no block was committed since
    undone,     \* what popped blocks did to which permission, since the index was built
    forks

vars == <<chain, lib, index, bimap, times, failed, popped, undone, forks>>

Absent == [key |-> "none", time |-> 0]
Genesis == [time |-> 1, ops |-> << >>, perms |-> [p \in Perms |-> Absent]]
HeadPerms(c) == Last(c).perms
Times == 1 .. MaxHeight + 1

-----------------------------------------------------------------------------
\* The chain: a block's actions on the permission table.
Applied(perms, op, time) ==
    [perms EXCEPT ![op.perm] = IF op.op = "delete" THEN Absent ELSE [key |-> op.key, time |-> time]]
Executed(perms, ops, time) ==
    LET After[i \in 0 .. Len(ops)] == IF i = 0 THEN perms ELSE Applied(After[i - 1], ops[i], time) IN After[Len(ops)]
Legal(perms, ops) ==
    \A i \in DOMAIN ops :
        ops[i].op = "delete" => Executed(perms, SubSeq(ops, 1, i - 1), 1)[ops[i].perm] # Absent

-----------------------------------------------------------------------------
\* The index.
Without(ix, i) == SubSeq(ix, 1, i - 1) \o SubSeq(ix, i + 1, Len(ix))
Link(ix, e) ==
    LET k == Cardinality({j \in DOMAIN ix : ix[j].height <= e.height})
    IN  SubSeq(ix, 1, k) \o <<e>> \o SubSeq(ix, k + 1, Len(ix))

\* modify: an entry whose neighbours still agree keeps its place.
Modify(ix, i, h) ==
    LET e == [ix[i] EXCEPT !.height = h]
        fits == (i = 1 \/ ix[i - 1].height <= h) /\ (i = Len(ix) \/ h <= ix[i + 1].height)
    IN  IF fits THEN [ix EXCEPT ![i] = e] ELSE Link(Without(ix, i), e)

Find(ix, p) == {i \in DOMAIN ix : ix[i].perm = p}

\* last_updated_time_to_height: -1 stands for the assertion.
last_updated_time_to_height(tm, time) ==
    IF time <= chain[lib].time THEN lib
    ELSE IF tm[time] # 0 THEN tm[time] ELSE -1

\* rollback_to_before, from the highest entry down.  base is the node the reverse iterator was
\* made from ("end" at first); the entry it stands on is the one before.  Erasing yields base
\* again; after a modify the iterator steps back from base, wherever base is by then.
Pos(ix, base) == IF base = "end" THEN Len(ix) + 1 ELSE CHOOSE i \in DOMAIN ix : ix[i].perm = base

rollback_entry(s, perms, time, bnum, tm) ==
    LET i  == Pos(s.index, s.base) - 1
        p  == s.index[i].perm
        po == perms[p]
        h  == IF po.time = time THEN bnum ELSE last_updated_time_to_height(tm, po.time)
        ix == Modify(s.index, i, h)
    IN  CASE i < 1 \/ s.stop -> [s EXCEPT !.stop = TRUE]
          [] i >= 1 /\ ~s.stop /\ s.index[i].height < bnum -> [s EXCEPT !.stop = TRUE]
          [] OTHER ->
             IF po = Absent THEN [s EXCEPT !.index = Without(@, i), !.bimap[p] = "none"]
             ELSE IF h = -1 THEN [s EXCEPT !.bimap[p] = "none", !.stop = TRUE, !.ok = FALSE]
             ELSE [s EXCEPT !.index = ix, !.bimap[p] = po.key, !.base = ix[Pos(ix, s.base) - 1].perm]

rollback_to_before(perms, time, bnum) ==
    LET bound == [t \in Times |-> IF times[t] >= bnum THEN 0 ELSE times[t]]
        start == [index |-> index, bimap |-> bimap, base |-> "end", stop |-> FALSE, ok |-> TRUE]
        Walk[n \in 0 .. Cardinality(Perms)] ==
            IF n = 0 THEN start ELSE rollback_entry(Walk[n - 1], perms, time, bnum, bound)
    IN  Walk[Cardinality(Perms)] @@ [times |-> bound]

is_rollback_required(bnum) == index # << >> /\ Last(index).height >= bnum

\* commit_block_prelock: what the block's traces leave updated and deleted, in order.
updated_set(ops) == {p \in Perms : \E i \in DOMAIN ops :
    ops[i].perm = p /\ ops[i].op # "delete" /\ \A j \in i + 1 .. Len(ops) : ops[j].perm = p => ops[j].op # "delete"}
deleted_set(ops) == {p \in Perms : \E i \in DOMAIN ops :
    ops[i].perm = p /\ ops[i].op = "delete" /\ \A j \in i + 1 .. Len(ops) : ops[j].perm = p => ops[j].op = "delete"}

\* The second half of commit_block: updated permissions get the block's number, which no entry
\* exceeds, so that they end the index; deleted ones go.
commit_changes(r, perms, ops, bnum) ==
    LET up   == updated_set(ops)
        del  == deleted_set(ops)
        kept == SelectSeq(r.index, LAMBDA e : e.perm \notin up \cup del)
    IN  [r EXCEPT !.index = kept \o [i \in 1 .. Cardinality(up) |-> [perm |-> SetToSeq(up)[i], height |-> bnum]],
                  !.bimap = [p \in Perms |-> IF p \in del THEN "none" ELSE IF p \in up THEN perms[p].key ELSE @[p]]]

commit_block(perms, time, ops, bnum) ==
    IF ops = << >> /\ ~is_rollback_required(bnum) THEN UNCHANGED <<index, bimap, times, failed>>
    ELSE LET r == rollback_to_before(perms, time, bnum)
             c == IF r.ok THEN commit_changes(r, perms, ops, bnum) ELSE r
         IN  /\ index' = c.index /\ bimap' = c.bimap
             /\ times' = IF r.ok THEN [c.times EXCEPT ![time] = bnum] ELSE c.times
             /\ failed' = (failed \/ ~r.ok)

-----------------------------------------------------------------------------
\* A block is applied; its traces and the accepted_block signal reach the index.
accept_block(time, ops) ==
    /\ Len(chain) < MaxHeight /\ time \in Times \ 1 .. Last(chain).time
    /\ Legal(HeadPerms(chain), ops)
    /\ LET perms == Executed(HeadPerms(chain), ops, time)
       IN  /\ chain' = Append(chain, [time |-> time, ops |-> ops, perms |-> perms])
           /\ commit_block(perms, time, ops, Len(chain) + 1)
    /\ popped' = FALSE
    /\ UNCHANGED <<lib, undone, forks>>

\* A fork switch pops blocks without any signal; the new branch follows.
pop_blocks(n) ==
    /\ ~popped /\ forks < MaxForks /\ n \in lib .. Len(chain) - 1
    /\ chain' = SubSeq(chain, 1, n)
    /\ undone' = undone \cup UNION {{<<chain[i].ops[j].op, chain[i].ops[j].perm>> :
                     j \in DOMAIN chain[i].ops} : i \in n + 1 .. Len(chain)}
    /\ popped' = TRUE /\ forks' = forks + 1
    /\ UNCHANGED <<lib, index, bimap, times, failed>>

advance_lib ==
    /\ ~popped /\ lib < Len(chain) - 1
    /\ lib' = lib + 1
    /\ UNCHANGED <<chain, index, bimap, times, failed, popped, undone, forks>>

\* The node restarts: the index is built from the state and the reversible blocks.
build_account_query_map ==
    /\ ~popped
    /\ LET tm  == [t \in Times |-> LET ns == {n \in lib + 1 .. Len(chain) : chain[n].time = t}
                                   IN  IF ns = {} THEN 0 ELSE CHOOSE n \in ns : TRUE]
           all == SetToSeq({p \in Perms : HeadPerms(chain)[p] # Absent})
       IN  /\ times' = tm
           /\ bimap' = [p \in Perms |-> HeadPerms(chain)[p].key]
           /\ index' = FoldLeft(LAMBDA ix, p : Link(ix, [perm |-> p, height |->
                           last_updated_time_to_height(tm, HeadPerms(chain)[p].time)]), << >>, all)
    /\ undone' = {} /\ failed' = FALSE
    /\ UNCHANGED <<chain, lib, popped, forks>>

Init ==
    /\ chain = <<Genesis>> /\ lib = 1
    /\ index = << >> /\ bimap = [p \in Perms |-> "none"] /\ times = [t \in Times |-> 0]
    /\ failed = FALSE /\ popped = FALSE /\ undone = {} /\ forks = 0

Next ==
    \/ \E ops \in Blocks, time \in Times : accept_block(time, ops)
    \/ \E n \in 1 .. MaxHeight : pop_blocks(n)
    \/ advance_lib
    \/ build_account_query_map

Spec == Init /\ [][Next]_vars

-----------------------------------------------------------------------------
\* get_accounts_by_authorizers, for a key.
get_accounts_by_authorizers(k) == {p \in Perms : bimap[p] = k}
InChain(k) == {p \in Perms : HeadPerms(chain)[p].key = k}

\* "this will effectively roll back the database to just before the incoming block": after every
\* block a query finds the permissions that have the key in the chain's state.
QueryInStep == ~popped => ~failed /\ \A k \in Keys : get_accounts_by_authorizers(k) = InChain(k)

\* The same, as long as the branches left behind changed one permission at most and deleted none.
QueryRollsBack ==
    Cardinality({u[2] : u \in undone}) <= 1 /\ (\A u \in undone : u[1] # "delete") => QueryInStep
=============================================================================
