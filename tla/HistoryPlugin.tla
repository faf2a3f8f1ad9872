--------------------------- MODULE HistoryPlugin ---------------------------
(***************************************************************************)
(* history_plugin: the actions each account took part in, kept in the      *)
(* chain's own database, so that aborted and popped blocks take their      *)
(* history with them, and the queries over it.  Accounts are numbers, as   *)
(* the index orders them; a blank of a filter is 0.  Positions are         *)
(* int32_t: Limit stands for 2^31.                                         *)
(***************************************************************************)
EXTENDS Integers, Sequences, FiniteSets, FiniteSetsExt, SequencesExt

CONSTANTS
    Traces,     \* action traces: [receiver, name, actors, perm, op, keys]
    Accounts,
    Configs,    \* [bypass, filter_on, filter_out]
    trx_id,     \* n-th action -> the id of its transaction, digits from the left
    MinDigits,  \* the digits of an id a query has to give: 8 characters
    MaxActions, Limit

VARIABLES
    config,
    blocks,     \* the chain's blocks: sequences of executed traces
    pending,    \* the traces of the block being built
    hist        \* one history per block, the last for the pending block: [acts, accs, keys]

vars == <<config, blocks, pending, hist>>

-----------------------------------------------------------------------------
filter(t) ==
    LET on(a, x)  == <<t.receiver, a, x>> \in config.filter_on
        out(a, x) == <<t.receiver, a, x>> \in config.filter_out
    IN  /\ config.bypass \/ on(0, 0) \/ on(t.name, 0) \/ \E x \in t.actors : on(0, x) \/ on(t.name, x)
        /\ ~out(0, 0) /\ ~out(t.name, 0) /\ \A x \in t.actors : ~out(0, x) /\ ~out(t.name, x)

account_set(t) ==
    {t.receiver} \cup
    {x \in t.actors :
        /\ \/ config.bypass
           \/ {<<t.receiver, 0, 0>>, <<t.receiver, 0, x>>, <<t.receiver, t.name, 0>>, <<t.receiver, t.name, x>>}
                 \cap config.filter_on # {}
        /\ {<<t.receiver, 0, 0>>, <<t.receiver, 0, x>>, <<t.receiver, t.name, 0>>, <<t.receiver, t.name, x>>}
                 \cap config.filter_out = {}}

\* The entry before (n+1, 0) in the order of account and sequence number, if it is n's. Of an
\* empty index the code reads the end: space of a node that was never filled, zero in a database
\* file, which is nobody's account.
Before(accs, n) == {e \in accs : e.account < n + 1}
LastOf(accs, n) ==
    LET top == CHOOSE e \in Before(accs, n) : \A f \in Before(accs, n) :
                   f.account < e.account \/ (f.account = e.account /\ f.seq <= e.seq)
    IN  IF Before(accs, n) = {} THEN -1 ELSE IF top.account = n THEN top.seq ELSE -1

record_account_action(accs, n, global) ==
    accs \cup {[account |-> n, action |-> global, seq |-> LastOf(accs, n) + 1]}

on_system_action(keys, t) ==
    CASE t.op = "newaccount" -> [keys EXCEPT ![t.perm] = @ \cup t.keys]
      [] t.op = "updateauth" -> [keys EXCEPT ![t.perm] = t.keys]
      [] t.op = "deleteauth" -> [keys EXCEPT ![t.perm] = {}]
      [] OTHER -> keys

on_action_trace(h, t, global) ==
    [acts |-> IF filter(t) THEN h.acts \cup {[action |-> global, trace |-> t, block |-> Len(blocks) + 1]} ELSE h.acts,
     accs |-> IF filter(t)
              THEN FoldSet(LAMBDA n, accs : record_account_action(accs, n, global), h.accs, account_set(t))
              ELSE h.accs,
     keys |-> IF t.receiver = 1 THEN on_system_action(h.keys, t) ELSE h.keys]

-----------------------------------------------------------------------------
Executed == FlattenSeq(blocks) \o pending

\* A transaction of one action; those that fail reach the plugin without a receipt that counts,
\* and what they did is undone.
on_applied_transaction(t, status) ==
    /\ Len(Executed) < MaxActions
    /\ IF status \in {"executed", "soft_fail"}
       THEN /\ pending' = Append(pending, t)
            /\ hist' = [hist EXCEPT ![Len(hist)] = on_action_trace(@, t, Len(Executed) + 1)]
       ELSE UNCHANGED <<pending, hist>>
    /\ UNCHANGED <<config, blocks>>

\* The chain's database, as far as the plugin's tables are concerned.
commit_block ==
    /\ blocks' = Append(blocks, pending) /\ Len(blocks) < MaxActions
    /\ pending' = << >>
    /\ hist' = Append(hist, Last(hist))
    /\ UNCHANGED config

abort_block ==
    /\ pending # << >>
    /\ pending' = << >>
    /\ hist' = [hist EXCEPT ![Len(hist)] = hist[Len(hist) - 1]]
    /\ UNCHANGED <<config, blocks>>

pop_block ==
    /\ pending = << >> /\ blocks # << >>
    /\ blocks' = Front(blocks)
    /\ hist' = Append(SubSeq(hist, 1, Len(hist) - 2), hist[Len(hist) - 2])
    /\ UNCHANGED <<config, pending>>

Init ==
    /\ config \in Configs
    /\ blocks = << >> /\ pending = << >>
    /\ hist = LET none == [acts |-> {}, accs |-> {}, keys |-> [n \in Accounts |-> {}]] IN <<none, none>>

Next ==
    \/ \E t \in Traces, status \in {"executed", "soft_fail", "hard_fail"} : on_applied_transaction(t, status)
    \/ commit_block
    \/ abort_block
    \/ pop_block

Spec == Init /\ [][Next]_vars

-----------------------------------------------------------------------------
Wrap(x) == ((x + Limit) % (2 * Limit)) - Limit

\* get_actions: the account_sequence_nums returned, or {-1} when it throws. The walk ends after
\* taken entries when 100 ms have passed.
get_actions(h, n, position, offset, taken) ==
    LET pos   == IF position = -1 /\ LastOf(h.accs, n) # -1 THEN LastOf(h.accs, n) + 1
                 ELSE IF position = -1 THEN Limit \div 8 - 1 ELSE position
        back  == Wrap(pos + offset)
        start == IF offset > 0 THEN pos ELSE IF back > pos THEN 0 ELSE back
        end   == IF offset > 0 THEN Wrap(pos + offset) ELSE pos
        found == {e.seq : e \in {f \in h.accs : f.account = n /\ f.seq >= start /\ f.seq <= end}}
    IN  IF end < start THEN {-1}
        ELSE IF Cardinality(found) <= taken THEN found
        ELSE {i \in found : Cardinality({j \in found : j < i}) < taken}

\* get_transaction: the first id not below the given digits, padded with zeros, if it starts
\* with them; without one, the block the caller hints at is searched. Too few digits are refused.
Below(a, b) == \E i \in DOMAIN a : a[i] < b[i] /\ \A j \in 1 .. i - 1 : a[j] = b[j]
padded(p, id) == [i \in DOMAIN id |-> IF i <= Len(p) THEN p[i] ELSE 0]
txn_id_matched(p, id) == SubSeq(id, 1, Len(p)) = p
get_transaction(h, p, hint) ==
    LET ids   == {trx_id[a.action] : a \in h.acts}
        from  == {id \in ids : ~Below(id, padded(p, id))}
        first == CHOOSE id \in from : \A other \in from : ~Below(other, id)
    IN  IF Len(p) < MinDigits THEN {}
        ELSE IF from # {} /\ txn_id_matched(p, first) THEN {first}
        ELSE {id \in {trx_id[i] : i \in hint} : txn_id_matched(p, id)}

get_key_accounts(h, k) == {n \in DOMAIN h.keys : k \in h.keys[n]}

Mine(n) == SelectSeq([i \in DOMAIN Executed |-> [i |-> i, t |-> Executed[i]]],
                     LAMBDA r : filter(r.t) /\ n \in account_set(r.t))

\* Whatever was aborted or popped, an account's history is the executed actions it took part in,
\* numbered from 0 without a gap, and the key index is what the executed system actions leave.
HistoryMatchesChain ==
    LET h == Last(hist)
        Keys[i \in 0 .. Len(Executed)] ==
            IF i = 0 THEN [n \in Accounts |-> {}]
            ELSE IF Executed[i].receiver = 1 THEN on_system_action(Keys[i - 1], Executed[i]) ELSE Keys[i - 1]
    IN  /\ \A n \in Accounts : LET mine == Mine(n) IN
               {e \in h.accs : e.account = n} = {[account |-> n, action |-> mine[i].i, seq |-> i - 1] : i \in DOMAIN mine}
        /\ \A e \in h.accs : \E a \in h.acts : a.action = e.action /\ a.trace = Executed[e.action]
        /\ h.keys = Keys[Len(Executed)]

\* get_actions gives the actions from pos to pos + offset (below pos for a negative offset), both
\* ends included, and the last ones when no position is given. An answer cut short by the time
\* limit has the first of them and leaves no gap, so that the rest can be asked for. A
\* transaction is found by every beginning of its id that is long enough, in the history or in
\* the block the caller hints at.
QueriesRight ==
    LET h == Last(hist)
        Hinted == IF blocks = << >> THEN {} ELSE 1 .. Len(blocks[1])
        Whole(n, pos, offset) == get_actions(h, n, pos, offset, MaxActions + 1)
        CutRight(cut, all) == (all # {} => cut # {}) /\ cut \subseteq all /\ \A i \in all \ cut, j \in cut : j < i
    IN  /\ \A n \in Accounts : LET count == Len(Mine(n)) IN
            \A offset \in - MaxActions .. MaxActions :
                /\ \A pos \in 0 .. MaxActions : Whole(n, pos, offset) =
                       {i \in 0 .. count - 1 : IF offset > 0 THEN i \in pos .. pos + offset ELSE i \in pos + offset .. pos}
                /\ offset < 0 => Whole(n, -1, offset) = {i \in 0 .. count - 1 : i >= count + offset}
        /\ \A n \in Accounts, r \in {<<-1, - MaxActions>>, <<0, MaxActions>>}, taken \in 1 .. 2 :
               CutRight(get_actions(h, n, r[1], r[2], taken), Whole(n, r[1], r[2]))
        /\ \A p \in {SubSeq(trx_id[i], 1, m) : i \in DOMAIN trx_id, m \in 1 .. 3}, hint \in {{}, Hinted} :
               get_transaction(h, p, hint) # {} <=>
                   /\ Len(p) >= MinDigits
                   /\ \E i \in {a.action : a \in h.acts} \cup hint : txn_id_matched(p, trx_id[i])
=============================================================================
