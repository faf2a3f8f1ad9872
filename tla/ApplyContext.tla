----------------------------- MODULE ApplyContext -----------------------------
(***************************************************************************)
(* apply_context: how actions run and notify each other, and the tables    *)
(* it gives to the contracts that run.                                     *)
(***************************************************************************)
EXTENDS Integers, Sequences, FiniteSets, FiniteSetsExt, Functions

(***************************************************************************)
(* How the actions of one transaction run: apply_context and the parts of  *)
(* transaction_context it drives, with contracts that make any host calls. *)
(* An action runs for its account, then for every account it notified,     *)
(* then the context free inline actions it sent, then the others, each     *)
(* with what it sends in turn.  The traces of all of them live in one      *)
(* vector that grows while contexts point into it.                         *)
(***************************************************************************)

CONSTANTS
    Accounts,
    Grants,             \* account -> accounts whose eosio.code permission may act for it
    Transactions,       \* [cfa, actions: sequences of actions], an action is [account, actors]
    Inline,             \* actions contracts may send
    Promotable,         \* accounts whose privilege may change
    MaxInlineDepth,     \* max_inline_action_depth
    MaxTraces

VARIABLES
    mode,       \* [restrict, producing, skip_auth]
    status,     \* "idle", "running", "done", "failed"
    roots,      \* original actions not yet executed
    traces,     \* trace->action_traces, with the privileges each ran with
    storage,    \* its allocation: [capacity, at]
    frames,     \* apply_contexts, innermost last
    db,         \* [privileged, global, recv, auth]
    saved,      \* db when the transaction began
    executed,   \* ordinals in the order of their receipts
    touched     \* a context free action read or wrote state

action_vars == <<mode, status, roots, traces, storage, frames, db, saved, executed, touched>>

Top == frames[Len(frames)]
Ordinal == Top.notified[Top.i].ordinal
Receiver == Top.notified[Top.i].receiver
Running == status = "running" /\ frames # << >> /\ Top.phase = "run"

WithTop(f) == [frames EXCEPT ![Len(frames)] = f]
Trace(act, receiver, context_free, creator, ancestor) ==
    [act |-> act, receiver |-> receiver, context_free |-> context_free, creator |-> creator,
     ancestor |-> ancestor, receipt |-> <<0, 0>>, privileged |-> FALSE]

\* emplace_back: a full vector moves to storage of twice the size.
Grown(s, n) == IF n <= s.capacity THEN s ELSE [capacity |-> 2 * s.capacity, at |-> s.at + 1]
\* reserve allocates what is asked for.
Reserved(s, n) == IF n <= s.capacity THEN s ELSE [capacity |-> n, at |-> s.at + 1]

-----------------------------------------------------------------------------
\* transaction_context::exec schedules the actions it was given; execute_action follows one by one.
exec_trx(t, m) ==
    /\ status = "idle"
    /\ status' = "running" /\ mode' = m
    /\ traces' = [i \in 1 .. Len(t.cfa) |-> Trace(t.cfa[i], t.cfa[i].account, TRUE, 0, 0)]
                 \o [i \in 1 .. Len(t.actions) |-> Trace(t.actions[i], t.actions[i].account, FALSE, 0, 0)]
    /\ storage' = [capacity |-> Len(t.cfa) + Len(t.actions), at |-> 1]
    /\ roots' = [i \in 1 .. Len(t.cfa) + Len(t.actions) |-> i]
    /\ UNCHANGED <<frames, db, saved, executed, touched>>

\* The apply_context of a scheduled action; exec_one reads whether the receiver is privileged.
apply_context(ordinal, depth) ==
    [notified |-> <<[receiver |-> traces[ordinal].receiver, ordinal |-> ordinal]>>, i |-> 1,
     cfa |-> << >>, inl |-> << >>, depth |-> depth, first |-> ordinal,
     act |-> [at |-> storage.at, ordinal |-> ordinal], context_free |-> traces[ordinal].context_free,
     privileged |-> traces[ordinal].receiver \in db.privileged, phase |-> "run"]

StartsOn(ordinal, depth, rest) ==
    /\ frames' = Append(rest, apply_context(ordinal, depth))
    /\ traces' = [traces EXCEPT ![ordinal].privileged = traces[ordinal].receiver \in db.privileged]

execute_action ==
    /\ status = "running" /\ frames = << >> /\ roots # << >>
    /\ StartsOn(Head(roots), 0, << >>)
    /\ roots' = Tail(roots)
    /\ UNCHANGED <<mode, status, storage, db, saved, executed, touched>>

finish ==
    /\ status = "running" /\ frames = << >> /\ roots = << >>
    /\ status' = "done"
    /\ UNCHANGED <<mode, roots, traces, storage, frames, db, saved, executed, touched>>

\* Any failure undoes the transaction; nothing refers to its traces.
fail ==
    /\ status' = "failed" /\ db' = saved /\ frames' = << >> /\ roots' = << >>
    /\ traces' = << >> /\ executed' = << >>
    /\ UNCHANGED <<mode, storage, saved, touched>>

-----------------------------------------------------------------------------
(* Host calls.                                                             *)

\* The APIs' constructors: context_aware_api with and without context_free, context_free_api and
\* privileged_api.
Allowed(api) ==
    CASE api = "free" -> TRUE
      [] api = "context_free" -> Top.context_free
      [] api = "aware" -> ~Top.context_free
      [] api = "privileged" -> ~Top.context_free /\ Top.privileged

\* The pointer to the action is left as it was.
schedule_keeping_pointer(act, receiver, list, st) ==
    /\ traces' = Append(traces, Trace(act, receiver, list = "cfa", Ordinal, Top.first))
    /\ storage' = st
    /\ frames' = WithTop([Top EXCEPT
           !.notified = IF list = "notified"
                        THEN Append(@, [receiver |-> receiver, ordinal |-> Len(traces) + 1]) ELSE @,
           !.cfa = IF list = "cfa" THEN Append(@, Len(traces) + 1) ELSE @,
           !.inl = IF list = "inl" THEN Append(@, Len(traces) + 1) ELSE @])

\* schedule_action of both contexts: the action pointer is taken anew.
schedule_action(act, receiver, list, st) ==
    /\ traces' = Append(traces, Trace(act, receiver, list = "cfa", Ordinal, Top.first))
    /\ storage' = st
    /\ frames' = WithTop([Top EXCEPT
           !.act = [at |-> st.at, ordinal |-> Ordinal],
           !.notified = IF list = "notified"
                        THEN Append(@, [receiver |-> receiver, ordinal |-> Len(traces) + 1]) ELSE @,
           !.cfa = IF list = "cfa" THEN Append(@, Len(traces) + 1) ELSE @,
           !.inl = IF list = "inl" THEN Append(@, Len(traces) + 1) ELSE @])

Act == traces[Top.act.ordinal].act

HasRecipient(a) == \E p \in Range(Top.notified) : p.receiver = a

require_recipient(a) ==
    /\ Running /\ Allowed("aware") /\ ~HasRecipient(a) /\ Len(traces) < MaxTraces
    /\ schedule_action(traces[Ordinal].act, a, "notified",
                       Grown(Reserved(storage, Len(traces) + 1), Len(traces) + 1))
    /\ touched' = (touched \/ Top.context_free)
    /\ UNCHANGED <<mode, status, roots, db, saved, executed>>

\* check_authorization of one action by the sender's eosio.code permission and what is inherited.
Satisfied(a, sender, inherited) == \A x \in a.actors \ inherited : sender \in Grants[x]

MaySend(a) ==
    LET to_self   == a.account = Receiver
        inherited == IF ~mode.restrict /\ to_self /\ Receiver = Act.account /\ mode.producing
                     THEN a.actors \cap Act.actors ELSE {}
    IN  \/ mode.skip_auth \/ Top.privileged
        \/ Satisfied(a, Receiver, inherited)
        \/ ~mode.restrict /\ to_self /\ ~mode.producing

send_inline(a) ==
    /\ Running /\ Allowed("aware") /\ Len(traces) < MaxTraces
    /\ MaySend(a)
    /\ schedule_action(a, a.account, "inl", Grown(storage, Len(traces) + 1))
    /\ touched' = (touched \/ Top.context_free)
    /\ UNCHANGED <<mode, status, roots, db, saved, executed>>

send_context_free_inline(a) ==
    /\ Running /\ Allowed("aware") /\ Len(traces) < MaxTraces
    /\ a.actors = {}
    /\ schedule_action(a, a.account, "cfa", Grown(storage, Len(traces) + 1))
    /\ touched' = (touched \/ Top.context_free)
    /\ UNCHANGED <<mode, status, roots, db, saved, executed>>

\* Everything else that reads or writes chain state, and set_privileged among it.
reads_or_writes ==
    /\ Running /\ Allowed("aware")
    /\ touched' = (touched \/ Top.context_free)
    /\ UNCHANGED <<mode, status, roots, traces, storage, frames, db, saved, executed>>

set_privileged(a, is_priv) ==
    /\ Running /\ Allowed("privileged")
    /\ (a \in db.privileged) # is_priv
    /\ db' = [db EXCEPT !.privileged = IF is_priv THEN @ \cup {a} ELSE @ \ {a}]
    /\ touched' = (touched \/ Top.context_free)
    /\ UNCHANGED <<mode, status, roots, traces, storage, frames, saved, executed>>

\* get_sender names the receiver of the creator.
get_sender(o) == IF traces[o].creator > 0 THEN traces[traces[o].creator].receiver ELSE "none"

\* A call outside its API's context, require_auth and eosio_assert that fail, a deadline.
throws == Running /\ fail

-----------------------------------------------------------------------------
\* The rest of exec_one and the loop of exec over _notified.
returns ==
    /\ Running
    /\ LET actors == Act.actors
           d == [db EXCEPT !.global = @ + 1, !.recv[Receiver] = @ + 1,
                           !.auth = [x \in Accounts |-> IF x \in actors THEN @[x] + 1 ELSE @[x]]]
           more == Top.i < Len(Top.notified)
           next == Top.notified[Top.i + 1]
           receipted == [traces EXCEPT ![Ordinal].receipt = <<d.global, d.recv[Receiver]>>]
       IN  /\ db' = d
           /\ executed' = Append(executed, Ordinal)
           /\ IF more
              THEN /\ frames' = WithTop([Top EXCEPT !.i = @ + 1, !.privileged = next.receiver \in d.privileged])
                   /\ traces' = [receipted EXCEPT ![next.ordinal].privileged = next.receiver \in d.privileged]
              ELSE frames' = WithTop([Top EXCEPT !.phase = "spawn"]) /\ traces' = receipted
    /\ UNCHANGED <<mode, status, roots, storage, saved, touched>>

\* The inline actions of either kind, and the depth they may have.
execute_inlines ==
    /\ status = "running" /\ frames # << >> /\ Top.phase = "spawn"
    /\ LET all == Top.cfa \o Top.inl
           rest == WithTop(IF Top.cfa # << >> THEN [Top EXCEPT !.cfa = Tail(@)] ELSE [Top EXCEPT !.inl = Tail(@)])
       IN  \/ /\ all # << >> /\ Top.depth < MaxInlineDepth
              /\ StartsOn(Head(all), Top.depth + 1, rest)
              /\ UNCHANGED <<mode, status, roots, storage, db, saved, executed, touched>>
           \/ all # << >> /\ Top.depth >= MaxInlineDepth /\ fail
           \/ /\ all = << >>
              /\ frames' = SubSeq(frames, 1, Len(frames) - 1)
              /\ UNCHANGED <<mode, status, roots, traces, storage, db, saved, executed, touched>>

-----------------------------------------------------------------------------
Modes == {m \in [restrict : BOOLEAN, producing : BOOLEAN, skip_auth : BOOLEAN] : m.skip_auth => ~m.producing}

InitWith(privileged) ==
    /\ mode = [restrict |-> FALSE, producing |-> FALSE, skip_auth |-> FALSE]
    /\ status = "idle" /\ roots = << >> /\ traces = << >> /\ storage = [capacity |-> 0, at |-> 0]
    /\ frames = << >> /\ executed = << >> /\ touched = FALSE
    /\ db = [privileged |-> privileged, global |-> 0, recv |-> [a \in Accounts |-> 0], auth |-> [a \in Accounts |-> 0]]
    /\ saved = db

ActionInit == \E p \in SUBSET Promotable : InitWith(p)

ActionNext ==
    \/ \E t \in Transactions, m \in Modes : exec_trx(t, m)
    \/ execute_action \/ finish
    \/ \E a \in Accounts : require_recipient(a)
    \/ \E a \in Inline : send_inline(a)
    \/ \E a \in Inline : send_context_free_inline(a)
    \/ reads_or_writes
    \/ \E a \in Promotable, b \in BOOLEAN : set_privileged(a, b)
    \/ throws \/ returns \/ execute_inlines

ActionSpec == ActionInit /\ [][ActionNext]_action_vars

-----------------------------------------------------------------------------
\* The action of the innermost context is read from the vector's present storage and is the action
\* its trace records, however often the vector grew since the context was made.
ActionAlive ==
    Running => /\ Top.act.at = storage.at
               /\ Act = traces[Ordinal].act

Sorted(S) == LET f[T \in SUBSET S] == IF T = {} THEN << >> ELSE <<Min(T)>> \o f[T \ {Min(T)}] IN f[S]
Concat(ss) == LET f[i \in 0 .. Len(ss)] == IF i = 0 THEN << >> ELSE f[i - 1] \o ss[i] IN f[Len(ss)]

\* The order the receipts promise: an action, those it notified in the order of the notifications
\* (those of notified accounts included), then its context free inline actions and then the other
\* ones, each followed by all it led to.
Order ==
    LET under(g, P(_)) == Sorted({o \in DOMAIN traces : traces[o].ancestor = g /\ P(traces[o])})
        Notified(t) == t.receiver # t.act.account
        Free(t) == t.receiver = t.act.account /\ t.context_free
        Other(t) == t.receiver = t.act.account /\ ~t.context_free
        f[g \in DOMAIN traces] ==
            LET each(s) == Concat([i \in DOMAIN s |-> f[s[i]]])
            IN  <<g>> \o under(g, Notified) \o each(under(g, Free)) \o each(under(g, Other))
        top == under(0, LAMBDA t : TRUE)
    IN  Concat([i \in DOMAIN top |-> f[top[i]]])

\* A finished transaction ran every scheduled action once, in that order; its receipts number the
\* actions of the chain and of every receiver without gap, and the sender a notified or inline
\* action is told is an account that ran before it.
ReceiptsInOrder ==
    status = "done" =>
        /\ executed = Order
        /\ \A i \in DOMAIN executed : traces[executed[i]].receipt[1] = i
        /\ \A i \in DOMAIN executed :
               traces[executed[i]].receipt[2] =
                   Cardinality({j \in 1 .. i : traces[executed[j]].receiver = traces[executed[i]].receiver})
        /\ \A o \in DOMAIN traces : get_sender(o) # "none" =>
               \E j \in DOMAIN executed : executed[j] = traces[o].creator
                                          /\ \E k \in j + 1 .. Len(executed) : executed[k] = o

\* With restrict_action_to_self, no action runs in the name of an account that neither authorized
\* the transaction's own action nor lets the sending contract act for it, unless the sender was
\* privileged when it was started.  A context free action reads and writes nothing and leads to
\* nothing.
InlineAuthorized ==
    /\ mode.restrict /\ ~mode.skip_auth =>
           \A o \in DOMAIN traces :
               LET t == traces[o]
               IN  t.creator > 0 /\ t.receiver = t.act.account =>
                       \/ traces[t.creator].privileged
                       \/ \A x \in t.act.actors : traces[t.creator].receiver \in Grants[x]
    /\ \A o \in DOMAIN traces :
           traces[o].context_free => /\ traces[o].act.actors = {} /\ ~touched
                                     /\ \A p \in DOMAIN traces : traces[p].creator # o

-----------------------------------------------------------------------------

(***************************************************************************)
(* A contract's tables as apply_context gives them to it: rows of the      *)
(* primary index (db_*_i64) and of a secondary index (generic_index), the  *)
(* tables that hold them, the RAM their payers are charged, and the two    *)
(* iterator caches of the running action.  A contract holds small          *)
(* integers; the caches translate them to addresses of database objects,   *)
(* which the database reuses once an object is removed.                    *)
(*                                                                         *)
(* A call that fails aborts its transaction and leaves no trace: it is     *)
(* modelled by its guard.  The five secondary index types differ in their  *)
(* key only and are one index here.                                        *)
(***************************************************************************)

CONSTANTS
    Scopes,         \* tables of a code are told apart by scope
    Ids, Keys,      \* primary and secondary keys (numbers)
    Payers, receiver, authorizers,    \* payers, the contract, who authorized the action
    Sizes, KvOverhead, IdxOverhead, TableOverhead,
    Restricted,     \* ram_restrictions is activated
    MaxCalls, MaxTables, MaxRows

VARIABLES
    tables,         \* table id -> [code, scope, payer, count]
    rows,           \* address -> row; rows of both indices
    nextTable,      \* id of the next table
    ram,            \* Account -> bytes charged
    cache,          \* "kv", "idx" -> iterator_cache
    bound,          \* "kv", "idx" -> what each iterator was given out for
    calls

table_vars == <<tables, rows, nextTable, ram, cache, bound, calls>>

Kinds == {"kv", "idx"}
Codes == {receiver, "other"}
None == 0
NoPayer == "none"

RowsOf(kind, t) == {a \in DOMAIN rows : rows[a].kind = kind /\ rows[a].t = t}
find_table(code, scope) == {t \in DOMAIN tables : tables[t].code = code /\ tables[t].scope = scope}
Billable(r) == IF r.kind = "kv" THEN r.size + KvOverhead ELSE IdxOverhead

\* by_scope_primary, by_primary and by_secondary, within one table.
Before(by, r, s) ==
    IF by = "primary" THEN r.id < s.id ELSE r.key < s.key \/ (r.key = s.key /\ r.id < s.id)

-----------------------------------------------------------------------------
(* iterator_cache, as functions from a cache to a cache and a result.      *)

EmptyCache == [ends |-> << >>, objs |-> << >>, iters |-> [a \in {} |-> 0]]

EndIndex(c, t) == {i \in DOMAIN c.ends : c.ends[i] = t}

\* _table_cache is keyed by the table's id; the i-th table's end iterator is -i - 1.
cache_table(c, t) == IF EndIndex(c, t) # {} THEN c ELSE [c EXCEPT !.ends = Append(@, t)]

add(c, a) ==
    IF a \in DOMAIN c.iters THEN c
    ELSE [c EXCEPT !.objs = Append(@, a),
                   !.iters = [x \in DOMAIN @ \cup {a} |-> IF x = a THEN Len(c.objs) ELSE @[x]]]
iterator_of(c, a) == c.iters[a]

\* The address stays known to the cache.
remove_keeping_address(c, i) == [c EXCEPT !.objs[i + 1] = None]

remove(c, i) ==
    [c EXCEPT !.objs[i + 1] = None, !.iters = [x \in DOMAIN @ \ {c.objs[i + 1]} |-> @[x]]]

Derefs(c, i) == i >= 0 /\ i < Len(c.objs) /\ c.objs[i + 1] # None
get(c, i) == c.objs[i + 1]

-----------------------------------------------------------------------------
(* Finding: the address an index position yields, None for the table's end. *)

First(by, S) == IF S = {} THEN None ELSE CHOOSE a \in S : \A b \in S \ {a} : Before(by, rows[a], rows[b])
Last(by, S)  == IF S = {} THEN None ELSE CHOOSE a \in S : \A b \in S \ {a} : Before(by, rows[b], rows[a])

NextOf(kind, by, a) == First(by, {b \in RowsOf(kind, rows[a].t) : Before(by, rows[a], rows[b])})
next(kind, by, a) == NextOf(kind, by, a)
previous(kind, by, a) == Last(by, {b \in RowsOf(kind, rows[a].t) : Before(by, rows[b], rows[a])})

find(kind, by, t, k) ==
    First(by, {a \in RowsOf(kind, t) : IF by = "primary" THEN rows[a].id = k ELSE rows[a].key = k})
lowerbound(kind, by, t, k) ==
    First(by, {a \in RowsOf(kind, t) : IF by = "primary" THEN rows[a].id >= k ELSE rows[a].key >= k})
upperbound(kind, by, t, k) ==
    First(by, {a \in RowsOf(kind, t) : IF by = "primary" THEN rows[a].id > k ELSE rows[a].key > k})

\* The calls that give out an iterator for address a of table t, or t's end iterator.
GivesOut(kind, t, a) ==
    LET c == cache_table(cache[kind], t)
        d == IF a = None THEN c ELSE add(c, a)
    IN  /\ cache' = [cache EXCEPT ![kind] = d]
        /\ bound' = [bound EXCEPT ![kind] = IF Len(d.objs) > Len(@) THEN Append(@, rows[a]) ELSE @]

Called == calls < MaxCalls /\ calls' = calls + 1
ReadOnly == UNCHANGED <<tables, rows, nextTable, ram>>

db_find(kind, by, code, scope, k, how) ==
    /\ Called /\ ReadOnly
    /\ \E t \in find_table(code, scope) :
           GivesOut(kind, t, CASE how = "find" -> find(kind, by, t, k)
                               [] how = "lower" -> lowerbound(kind, by, t, k)
                               [] how = "upper" -> upperbound(kind, by, t, k)
                               [] how = "end" -> None)

db_next(kind, by, i) ==
    /\ Called /\ ReadOnly
    /\ Derefs(cache[kind], i)
    /\ LET a == get(cache[kind], i) IN GivesOut(kind, rows[a].t, next(kind, by, a))

\* The last row before a table's end iterator.  That of a removed table leads to memory that is used
\* again: any table's id may be read there, or that of no table any more.
previous_of_end(kind, by, i) ==
    /\ -i - 1 \in DOMAIN cache[kind].ends
    /\ LET t == cache[kind].ends[-i - 1]
       IN  \E read \in IF t \in DOMAIN tables THEN {t} ELSE DOMAIN tables \cup {t} :
               LET a == Last(by, RowsOf(kind, read))
                   d == add(cache[kind], a)
               IN  IF a = None THEN UNCHANGED <<cache, bound>>
                   ELSE /\ cache' = [cache EXCEPT ![kind] = d]
                        /\ bound' = [bound EXCEPT ![kind] = IF Len(d.objs) > Len(@)
                                                            THEN Append(@, rows[a]) ELSE @]

\* -1 gives out nothing.
db_previous(kind, by, i) ==
    /\ Called /\ ReadOnly
    /\ \/ /\ Derefs(cache[kind], i)
          /\ LET a == previous(kind, by, get(cache[kind], i))
             IN  IF a = None THEN UNCHANGED <<cache, bound>> ELSE GivesOut(kind, rows[a].t, a)
       \/ previous_of_end(kind, by, i)

-----------------------------------------------------------------------------
(* Changing.                                                               *)

\* update_db_usage: charging another account takes its authorization until ram_restrictions, which
\* checks at the end of the action, is activated.  The receiver is not privileged, and runs an
\* action of its own account, not a notification, where others may not be charged.
MayCharge(payer) == payer = receiver \/ Restricted \/ payer \in authorizers

FreeAddress == Min({a \in 1 .. MaxRows + 1 : a \notin DOMAIN rows})

\* The table rows of a scope are stored in, made and charged for if there is none.
find_or_create_table(scope, payer) ==
    LET ts == find_table(receiver, scope)
    IN  IF ts = {} THEN [t |-> nextTable, charge |-> TableOverhead] ELSE [t |-> CHOOSE x \in ts : TRUE, charge |-> 0]

\* What both stores do; primary keys are unique within an index of a table.
store(kind, scope, payer, id, key, size) ==
    LET table == find_or_create_table(scope, payer)
        t     == table.t
        fresh == t = nextTable
        row   == [kind |-> kind, t |-> t, id |-> id, key |-> key, size |-> size, payer |-> payer]
        a     == FreeAddress
        c     == add(cache_table(cache[kind], t), a)
    IN  /\ Called /\ Cardinality(DOMAIN rows) < MaxRows /\ (fresh => nextTable <= MaxTables)
        /\ MayCharge(payer)
        /\ \A x \in RowsOf(kind, t) : rows[x].id # id
        /\ rows' = [x \in DOMAIN rows \cup {a} |-> IF x = a THEN row ELSE rows[x]]
        /\ tables' = IF fresh
                     THEN [x \in DOMAIN tables \cup {t} |->
                              IF x = t THEN [code |-> receiver, scope |-> scope, payer |-> payer, count |-> 1]
                              ELSE tables[x]]
                     ELSE [tables EXCEPT ![t].count = @ + 1]
        /\ nextTable' = IF fresh THEN nextTable + 1 ELSE nextTable
        /\ ram' = [ram EXCEPT ![payer] = @ + Billable(row) + table.charge]
        /\ cache' = [cache EXCEPT ![kind] = c]
        /\ bound' = [bound EXCEPT ![kind] = IF Len(c.objs) > Len(@) THEN Append(@, row) ELSE @]

db_store_i64(scope, payer, id, size) == store("kv", scope, payer, id, Min(Keys), size)
idx_store(scope, payer, id, key) == store("idx", scope, payer, id, key, Min(Sizes))

Writable(kind, i) == Derefs(cache[kind], i) /\ tables[rows[get(cache[kind], i)].t].code = receiver

\* What a change of payer or size costs whom.  payer NoPayer keeps the payer.
UpdateCharge(old, new) ==
    IF old.payer # new.payer
    THEN [ram EXCEPT ![old.payer] = @ - Billable(old), ![new.payer] = @ + Billable(new)]
    ELSE [ram EXCEPT ![old.payer] = @ + Billable(new) - Billable(old)]

\* What both updates do.
update(kind, i, payer, key, size) ==
    /\ Called /\ Writable(kind, i)
    /\ LET a   == get(cache[kind], i)
           old == rows[a]
           new == [old EXCEPT !.payer = IF payer = NoPayer THEN @ ELSE payer,
                              !.key = IF kind = "kv" THEN @ ELSE key,
                              !.size = IF kind = "kv" THEN size ELSE @]
       IN  /\ (old.payer # new.payer \/ Billable(new) > Billable(old)) => MayCharge(new.payer)
           /\ rows' = [rows EXCEPT ![a] = new]
           /\ ram' = UpdateCharge(old, new)
    /\ UNCHANGED <<tables, nextTable, cache, bound>>

db_update_i64(i, payer, size) == update("kv", i, payer, Min(Keys), size)
idx_update(i, payer, key) == update("idx", i, payer, key, Min(Sizes))

remove_table(t, freed) == [freed EXCEPT ![tables[t].payer] = @ - TableOverhead]

\* What both removals do: an empty table goes with its last row, whichever index the row is of.
RemoveRow(kind, i) ==
    /\ Called /\ Writable(kind, i)
    /\ LET a    == get(cache[kind], i)
           r    == rows[a]
           last == tables[r.t].count = 1
           freed == [ram EXCEPT ![r.payer] = @ - Billable(r)]
       IN  /\ rows' = [x \in DOMAIN rows \ {a} |-> rows[x]]
           /\ tables' = IF last THEN [x \in DOMAIN tables \ {r.t} |-> tables[x]]
                        ELSE [tables EXCEPT ![r.t].count = @ - 1]
           /\ ram' = IF last THEN remove_table(r.t, freed) ELSE freed
           /\ cache' = [cache EXCEPT ![kind] = remove(@, i)]
    /\ UNCHANGED <<nextTable, bound>>

db_remove_i64(i) == RemoveRow("kv", i)
idx_remove(i) == RemoveRow("idx", i)

\* The action ends; the next has caches of its own.
next_action ==
    /\ cache # [k \in Kinds |-> EmptyCache]
    /\ cache' = [k \in Kinds |-> EmptyCache] /\ bound' = [k \in Kinds |-> << >>]
    /\ UNCHANGED <<tables, rows, nextTable, ram, calls>>

-----------------------------------------------------------------------------
\* Another contract's table with a row of each index.
TableInit ==
    /\ tables = [t \in {1} |-> [code |-> "other", scope |-> Min(Scopes), payer |-> receiver, count |-> 2]]
    /\ rows = [a \in {1, 2} |-> [kind |-> IF a = 1 THEN "kv" ELSE "idx", t |-> 1, id |-> Min(Ids), key |-> Min(Keys),
                                 size |-> Min(Sizes), payer |-> receiver]]
    /\ nextTable = 2
    /\ ram = [x \in Payers |-> IF x = receiver
                                 THEN Min(Sizes) + KvOverhead + IdxOverhead + TableOverhead ELSE 0]
    /\ cache = [k \in Kinds |-> EmptyCache] /\ bound = [k \in Kinds |-> << >>]
    /\ calls = 0

Iterators(kind) == 0 .. Len(cache[kind].objs) - 1
Orders(kind) == IF kind = "kv" THEN {"primary"} ELSE {"primary", "secondary"}

TableNext ==
    \/ \E scope \in Scopes, payer \in Payers, id \in Ids :
           \/ \E size \in Sizes : db_store_i64(scope, payer, id, size)
           \/ \E key \in Keys : idx_store(scope, payer, id, key)
    \/ \E kind \in Kinds : \E by \in Orders(kind), code \in Codes, scope \in Scopes,
          k \in Ids \cup Keys, how \in {"find", "lower", "upper", "end"} : db_find(kind, by, code, scope, k, how)
    \/ \E kind \in Kinds : \E by \in Orders(kind), i \in Iterators(kind) : db_next(kind, by, i)
    \/ \E kind \in Kinds : \E by \in Orders(kind), i \in -Len(cache[kind].ends) - 1 .. Len(cache[kind].objs) - 1 :
           db_previous(kind, by, i)
    \/ \E i \in Iterators("kv") : db_remove_i64(i) \/ \E payer \in Payers \cup {NoPayer}, size \in Sizes : db_update_i64(i, payer, size)
    \/ \E i \in Iterators("idx") : idx_remove(i) \/ \E payer \in Payers \cup {NoPayer}, key \in Keys : idx_update(i, payer, key)
    \/ next_action

TableSpec == TableInit /\ [][TableNext]_table_vars

-----------------------------------------------------------------------------
Sum(f(_), S) == MapThenSumSet(f, S)

\* What is charged is what is there: every account pays for exactly the rows and tables it is the
\* payer of, after any sequence of stores, changes of payer and size, and removals through either
\* index; a table exists while rows of it do.
RamMatchesRows ==
    /\ \A x \in Payers :
           ram[x] = Sum(LAMBDA a : Billable(rows[a]), {a \in DOMAIN rows : rows[a].payer = x})
                    + TableOverhead * Cardinality({t \in DOMAIN tables : tables[t].payer = x})
    /\ \A t \in DOMAIN tables : tables[t].count = Cardinality({a \in DOMAIN rows : rows[a].t = t})
    /\ \A a \in DOMAIN rows : rows[a].t \in DOMAIN tables
    /\ \A t \in DOMAIN tables : tables[t].count > 0

\* An iterator means the row it was given out for (same index, table and primary key) for the rest
\* of the action, or fails as deleted; it never comes to mean a row that reuses the address.  Every
\* row an iterator was given out for and that is still there is reached by one that works.
IteratorsStable ==
    \A kind \in Kinds :
        LET c == cache[kind]
        IN  /\ \A i \in Iterators(kind) :
                   c.objs[i + 1] # None =>
                       /\ c.objs[i + 1] \in DOMAIN rows
                       /\ LET r == rows[c.objs[i + 1]] b == bound[kind][i + 1]
                          IN  r.kind = kind /\ r.t = b.t /\ r.id = b.id
            /\ \A a \in DOMAIN c.iters : Derefs(c, c.iters[a]) /\ get(c, c.iters[a]) = a

\* Walking next from the lower bound of the smallest key meets every row of the table once and in
\* order, and previous from the end meets them in the opposite order.
Walk(step(_, _, _), kind, by, a0) ==
    LET w[n \in 0 .. MaxRows] ==
            IF n = 0 THEN IF a0 = None THEN << >> ELSE <<a0>>
            ELSE LET s == w[n - 1]
                     a == IF s = << >> THEN None ELSE step(kind, by, s[Len(s)])
                 IN  IF a = None THEN s ELSE Append(s, a)
    IN  w[MaxRows]

WalksMeetAll ==
    \A kind \in Kinds : \A by \in Orders(kind), t \in DOMAIN tables :
        LET there == Walk(next, kind, by, lowerbound(kind, by, t, 0))
            back  == Walk(previous, kind, by, Last(by, RowsOf(kind, t)))
        IN  /\ Range(there) = RowsOf(kind, t) /\ Len(there) = Cardinality(RowsOf(kind, t))
            /\ back = [i \in 1 .. Len(there) |-> there[Len(there) + 1 - i]]
=============================================================================
