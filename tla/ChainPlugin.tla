----------------------------- MODULE ChainPlugin ------------------------------
(***************************************************************************)
(* chain_plugin: the API it serves while the chain moves, and the way it   *)
(* starts a node.                                                          *)
(***************************************************************************)
EXTENDS Integers, Sequences, FiniteSets

(***************************************************************************)
(* The chain API of chain_plugin: listings a client reads page by page     *)
(* while blocks change what is listed (table rows by primary or secondary  *)
(* key, tables by scope, producers by votes, scheduled transactions), and  *)
(* the calls that push transactions and answer when the last one is done.  *)
(*                                                                         *)
(* An entry of an index is [p, s, row]: primary key, secondary key and     *)
(* whether there is a row of that primary key.  A bound is the text of a   *)
(* key: what kind of text it is, and the number it stands for.             *)
(***************************************************************************)

CONSTANTS
    Entries,        \* entries an index may hold
    Listings,       \* what clients ask for: records call, type, reverse, limit
    Pushes,         \* lists of transactions pushed in one call
    Traces,         \* action traces of a transaction
    MaxKey, MaxChanges

VARIABLES
    index,          \* the entries that are there now
    client,         \* a client reading a listing
    call,           \* a call of push_transactions
    changes         \* changes of the index so far

api_vars == <<index, client, call, changes>>

None == [kind |-> "none", n |-> 0]
Text(kind, n) == [kind |-> kind, n |-> n]
Keys == 0..MaxKey

Sorted(S, Less(_, _)) ==
    LET Rank(e) == Cardinality({f \in S : Less(f, e)})
    IN  [i \in 1..Cardinality(S) |-> CHOOSE e \in S : Rank(e) = i - 1]

ByPrimary(e, f) == e.p < f.p
BySecondary(e, f) == e.s < f.s \/ (e.s = f.s /\ e.p < f.p)

-----------------------------------------------------------------------------
(* Keys as text *)

Half == (MaxKey + 1) \div 2

\* What a text names for a key of that type, as a set: several when bytes of the key are left
\* uninitialized (the upper half of a small 256 bit number), none when it is refused.
convert_to_type(type, text) ==
    CASE type = "name" /\ text.kind = "dec" -> {}
      [] type = "i256" /\ text.n < Half -> {k \in Keys : k % Half = text.n}
      [] OTHER -> {text.n}

\* The text of the next key: always a number for 64 bit keys; for 128 bit floats a double, of
\* which the even keys are those that are exact.
convert_to_string(type, key) ==
    CASE type = "float128" -> Text("dec", 2 * ((key + 1) \div 2))
      [] OTHER -> Text("dec", key)

-----------------------------------------------------------------------------
(* One page *)

\* Entries from lower to upper in the order walked; the walk stops at the limit, or at any entry
\* after the first when 10 ms are over.
Walked(range, reverse) == IF reverse THEN [i \in 1..Len(range) |-> range[Len(range) + 1 - i]] ELSE range
Page(rows, more, next) == [rows |-> rows, more |-> more, next |-> next]
NoPage == Page(<< >>, FALSE, None)

\* How far a walk goes that shows limit entries at most, or stops early after stop steps.
Steps(range, limit, stop, Shown(_)) ==
    LET shown[i \in 0..Len(range)] == IF i = 0 THEN 0
                                      ELSE shown[i - 1] + IF Shown(range[i]) THEN 1 ELSE 0
        full == {i \in 0..Len(range) : shown[i] >= limit} \cup {Len(range), stop}
    IN  CHOOSE i \in full : \A j \in full : i <= j

walk_range(range, limit, stop, Shown(_), ApiNext(_)) ==
    LET n == Steps(range, limit, stop, Shown)
    IN  Page(SelectSeq(SubSeq(range, 1, n), Shown), n < Len(range),
             IF n < Len(range) THEN ApiNext(range[n + 1]) ELSE None)

Bounded(seq, In(_)) == SelectSeq(seq, In)

get_table_rows_ex(q, lower, upper, stop) ==
    IF upper < lower THEN NoPage
    ELSE walk_range(Walked(Bounded(Sorted(index, ByPrimary), LAMBDA e : e.p \in lower..upper), q.reverse),
                    q.limit, stop, LAMBDA e : TRUE, LAMBDA e : convert_to_string(q.type, e.p))

\* An entry whose row is missing is passed over.
get_table_rows_by_seckey(q, lower, upper, stop) ==
    IF upper < lower THEN NoPage
    ELSE walk_range(Walked(Bounded(Sorted(index, BySecondary), LAMBDA e : e.s \in lower..upper), q.reverse),
                    q.limit, stop, LAMBDA e : e.row, LAMBDA e : convert_to_string(q.type, e.s))

\* The secondary key stands for the scope, the primary key for the table, row for the table asked
\* for; what is left is named by its scope.
get_table_by_scope(q, lower, upper, stop) ==
    IF upper < lower THEN NoPage
    ELSE walk_range(Walked(Bounded(Sorted(index, BySecondary), LAMBDA e : e.s \in lower..upper), q.reverse),
                    q.limit, stop, LAMBDA e : e.row, LAMBDA e : Text("name", e.s))

\* By votes from the best on, starting at the first producer whose name is not below the bound.
get_producers(q, lower, stop) ==
    LET order == Sorted(index, BySecondary)
        from == {e \in index : e.p >= lower}
        first == CHOOSE e \in from : \A f \in from : e.p <= f.p
        start == IF lower = 0 THEN 1
                 ELSE IF from = {} THEN Len(order) + 1
                 ELSE CHOOSE i \in 1..Len(order) : order[i] = first
    IN  walk_range(SubSeq(order, start, Len(order)), q.limit, stop, LAMBDA e : TRUE,
                   LAMBDA e : Text("name", e.p))

\* catch(...): the answer to anything that fails, a row that takes too long to serialize included.
\* It has the active schedule, which are no entries of the index, and no next name.
Schedule == Page(<< >>, FALSE, Text("schedule", 0))

\* By time of execution; a bound is a time or the id of a transaction, which may be gone.
get_scheduled_transactions(q, bound, stop) ==
    LET order == Sorted(index, BySecondary)
        At(i) == \/ bound.kind = "none"
                 \/ bound.kind = "time" /\ order[i].s >= bound.n
                 \/ bound.kind = "id" /\ \E j \in 1..i : order[j].p = bound.n
    IN  walk_range(SelectSeq([i \in 1..Len(order) |-> [at |-> At(i), e |-> order[i]]], LAMBDA x : x.at),
                   q.limit, stop, LAMBDA x : TRUE, LAMBDA x : Text("id", x.e.p))

Unwrapped(page) == [page EXCEPT !.rows = [i \in 1..Len(@) |-> @[i].e]]

\* The pages a request may get.
Bounds(type, text, default) == IF text = None THEN {default} ELSE convert_to_type(type, text)
Answers(q, lower, upper) ==
    CASE q.call = "rows" ->
             {get_table_rows_ex(q, l, u, stop) :
                 l \in Bounds(q.type, lower, 0), u \in Bounds(q.type, upper, MaxKey), stop \in 1..q.limit}
      [] q.call = "secondary" ->
             {get_table_rows_by_seckey(q, l, u, stop) :
                 l \in Bounds(q.type, lower, 0), u \in Bounds(q.type, upper, MaxKey), stop \in 1..q.limit}
      [] q.call = "scopes" ->
             {get_table_by_scope(q, l, u, stop) :
                 l \in Bounds("scope", lower, 0), u \in Bounds("scope", upper, MaxKey), stop \in 1..q.limit}
      [] q.call = "producers" -> {get_producers(q, lower.n, stop) : stop \in 0..q.limit} \cup {Schedule}
      [] q.call = "scheduled" -> {Unwrapped(get_scheduled_transactions(q, lower, stop)) : stop \in 0..q.limit}

-----------------------------------------------------------------------------
(* Reading a listing to its end *)

NoClient == [state |-> "idle", q |-> [call |-> "none", type |-> "i64", reverse |-> FALSE, limit |-> 1],
             lower |-> None, upper |-> None, got |-> {}, again |-> FALSE, fallback |-> FALSE,
             steady |-> {}, changed |-> FALSE]

ask(q) ==
    /\ client.state = "idle"
    /\ client' = [NoClient EXCEPT !.state = "reading", !.q = q, !.steady = index]
    /\ UNCHANGED <<index, call, changes>>

Rows(page) == {page.rows[i] : i \in 1..Len(page.rows)}

\* The value a page ends with is the lower bound of the next request, or the upper one in reverse.
read_page ==
    /\ client.state = "reading"
    /\ \E page \in Answers(client.q, client.lower, client.upper) :
          client' = [client EXCEPT
              !.got = @ \cup Rows(page),
              !.again = @ \/ Rows(page) \cap client.got # {},
              !.fallback = (page = Schedule),
              !.state = IF page.more THEN "reading" ELSE "done",
              !.lower = IF page.more /\ ~client.q.reverse THEN page.next ELSE @,
              !.upper = IF page.more /\ client.q.reverse THEN page.next ELSE @]
    /\ UNCHANGED <<index, call, changes>>

refuse_bound ==
    /\ client.state = "reading" /\ Answers(client.q, client.lower, client.upper) = {}
    /\ client' = [client EXCEPT !.state = "failed"]
    /\ UNCHANGED <<index, call, changes>>

\* Blocks add and remove entries.
change(now) ==
    /\ changes < MaxChanges /\ client.state = "reading"
    /\ index' = now
    /\ client' = [client EXCEPT !.steady = @ \cap now, !.changed = TRUE]
    /\ changes' = changes + 1
    /\ UNCHANGED call

store(e) == (\A f \in index : f.p # e.p) /\ change(index \cup {e})
erase(e) == e \in index /\ change(index \ {e})

-----------------------------------------------------------------------------
(* Pushing transactions *)

\* The traces that ran, or failed to, as a tree: (ordinal, ordinal of the parent) in the order of
\* execution.  A trace is [ancestor, seq, except], seq 0 when it has no receipt.
convert_act_trace_to_tree_struct(t) ==
    LET ran == {o \in 1..Len(t) : t[o].seq > 0 \/ t[o].except}
        Key(o) == IF t[o].seq > 0 THEN t[o].seq ELSE 1000
        Below(a) == Sorted({o \in ran : t[o].ancestor = a}, LAMBDA x, y : Key(x) < Key(y))
        tree[a \in 0..Len(t)] ==
            LET Append1(i) == <<<<Below(a)[i], a>>>> \o tree[Below(a)[i]]
                list[i \in 0..Len(Below(a))] == IF i = 0 THEN << >> ELSE list[i - 1] \o Append1(i)
            IN  list[Len(Below(a))]
    IN  tree[0]

NoCall == [state |-> "idle", list |-> << >>, results |-> << >>, answers |-> 0, traces |-> << >>, tree |-> << >>]

\* An empty list has no first element: the call is answered with that error.
push_transactions(list) ==
    /\ call.state = "idle"
    /\ call' = IF list = << >> THEN [NoCall EXCEPT !.state = "done", !.answers = 1]
               ELSE [NoCall EXCEPT !.state = "pushing", !.list = list]
    /\ UNCHANGED <<index, client, changes>>

\* An error ends the call.
push_until_error(result) ==
    LET results == Append(call.results, result)
        more == Len(results) < Len(call.list)
    IN  call' = [call EXCEPT !.results = results, !.state = IF more THEN "pushing" ELSE "done",
                             !.answers = @ + (IF more /\ result[2] = "trace" THEN 0 ELSE 1)]

\* wrapped_next: the result of one, then the next one or the answer.
push_recurse(result) ==
    LET results == Append(call.results, result)
        more == Len(results) < Len(call.list)
    IN  call' = [call EXCEPT !.results = results, !.state = IF more THEN "pushing" ELSE "done",
                             !.answers = @ + (IF more THEN 0 ELSE 1)]

Pushing == call.list[Len(call.results) + 1]

\* push_transaction: refused when it cannot be unpacked, else answered by the producer.
push_transaction(outcome) ==
    /\ call.state = "pushing"
    /\ (outcome = "invalid") = (Pushing = "invalid")
    /\ push_recurse(<<Pushing, outcome>>)
    /\ UNCHANGED <<index, client, changes>>

\* push_transaction shows the traces as a tree; send_transaction as they are.
show_traces(t) ==
    /\ call.state = "idle" /\ call.traces = << >>
    /\ call' = [call EXCEPT !.traces = t, !.tree = convert_act_trace_to_tree_struct(t), !.state = "done"]
    /\ UNCHANGED <<index, client, changes>>

Indices == {S \in SUBSET Entries : \A e, f \in S : e.p = f.p => e = f}

ApiInit ==
    /\ \/ index \in Indices /\ call = [NoCall EXCEPT !.state = "unused"] /\ client = NoClient
       \/ index = {} /\ call = NoCall /\ client = [NoClient EXCEPT !.state = "unused"]
    /\ changes = 0

ApiNext ==
    \/ \E q \in Listings : ask(q)
    \/ read_page
    \/ refuse_bound
    \/ \E e \in Entries : store(e) \/ erase(e)
    \/ \E list \in Pushes : push_transactions(list)
    \/ \E outcome \in {"invalid", "exception", "trace"} : push_transaction(outcome)
    \/ \E t \in Traces : show_traces(t)

ApiSpec == ApiInit /\ [][ApiNext]_api_vars

-----------------------------------------------------------------------------
Shown(q, S) == IF q.call \in {"secondary", "scopes"} THEN {e \in S : e.row} ELSE S
Complete == Shown(client.q, client.steady) \subseteq client.got

\* Listings that follow their order: by a 64 bit key, by scope; scheduled transactions, and
\* producers unless the schedule took their place, while nothing changes. Others do not: the text
\* of the next key is not the key for names, small 256 bit numbers and 128 bit floats, a
\* producer moves with its votes, and a scheduled transaction that is gone is no bound.
InOrder == \/ client.q.call \in {"rows", "secondary"} /\ client.q.type = "i64"
           \/ client.q.call = "scopes"
           \/ ~client.changed /\ ~client.fallback /\ client.q.call \in {"producers", "scheduled"}

\* In a listing that follows its order a client that follows the keys to the end has seen every
\* row that was there all the time, however pages were cut short and whatever came and went; what
\* has a name of its own (rows by primary key, producers, transactions) it sees once.
PagesComplete ==
    /\ client.state = "done" /\ InOrder => Complete
    /\ InOrder /\ client.q.call \in {"rows", "producers", "scheduled"} => ~client.again

\* "fill lower_bound with this value to fetch more rows", of every listing. The code does not keep
\* it: see InOrder.
NextKeyFetchesMore == client.state # "failed" /\ (client.state = "done" => Complete)

\* A call of push_transactions is answered once, when every transaction has its result, in the
\* order of the list.
PushedInOrder ==
    /\ call.answers <= 1
    /\ call.answers = 1 => /\ Len(call.results) = Len(call.list)
                           /\ \A i \in 1..Len(call.list) : call.results[i][1] = call.list[i]

\* Every trace that ran is in the tree once, below the action it answers to.
TreeComplete ==
    call.traces # << >> =>
        LET ran == {o \in 1..Len(call.traces) : call.traces[o].seq > 0 \/ call.traces[o].except}
        IN  /\ Len(call.tree) = Cardinality(ran)
            /\ \A o \in ran : \E i \in 1..Len(call.tree) : call.tree[i] = <<o, call.traces[o].ancestor>>

-----------------------------------------------------------------------------

(***************************************************************************)
(* How chain_plugin starts a node: what its options do to the files, which *)
(* chain the node decides to be on, and how the controller brings state,   *)
(* fork database, block log and reversible blocks together, over any       *)
(* sequence of starts, refused starts, stops and crashes.                  *)
(*                                                                         *)
(* A block is its number: the blocks of a chain are one branch (forks are  *)
(* the subject of Controller).  A chain stands for its genesis state and   *)
(* its chain id.                                                           *)
(***************************************************************************)

CONSTANTS
    CommandLines,   \* the options nodeos is started with
    Default,        \* the chain of the default genesis state
    MaxBlock, MaxStarts

VARIABLES
    disk,           \* the files
    node,           \* the running node
    last,           \* how the last start or stop went
    starts          \* starts so far

start_vars == <<disk, node, last, starts>>

\* state: shared_memory.bin, bare without tables, indexed when they are there and no header is.
\* log: blocks.log; a stub is cut off inside its header.  backup: logs moved away.
NoState == [kind |-> "none", chain |-> Default, head |-> 0, dirty |-> FALSE]
NoFork == [on |-> FALSE, root |-> 0, head |-> 0]
NoLog == [on |-> FALSE, stub |-> FALSE, genesis |-> FALSE, chain |-> Default, first |-> 0, last |-> 0]
NoRev == [on |-> FALSE, dirty |-> FALSE, chain |-> Default, first |-> 1, last |-> 0]
NoFile == [chain |-> Default, first |-> 1, last |-> 0]
NoSnapshot == [on |-> FALSE, chain |-> Default, head |-> 0]
Nothing == [state |-> NoState, fork |-> NoFork, log |-> NoLog, rev |-> NoRev,
            backup |-> {}, exported |-> NoFile, snapshot |-> NoSnapshot]
Down == [up |-> FALSE, chain |-> Default, lib |-> 0, head |-> 0, fork |-> 0]

Smaller(x, y) == IF x < y THEN x ELSE y
Larger(x, y) == IF x < y THEN y ELSE x
HasBlocks(log) == log.on /\ ~log.stub /\ log.first <= log.last
EmptyRev(r) == r.first > r.last

\* A stage of a start: the files as it left them, and why the start ends there, if it does.
Goes(d) == [d |-> d, stop |-> "no", node |-> Down]
Stops(d, why) == [d |-> d, stop |-> why, node |-> Down]

-----------------------------------------------------------------------------
(* The options that work on the files *)

clear_directory_contents(d) == [d EXCEPT !.state = NoState, !.fork = NoFork]
clear_chainbase_files(d) == [d EXCEPT !.state = NoState]

\* A database that is clean and ends before the block to stop at stays as it is.
recover_reversible_blocks(r, truncate) ==
    LET upto == IF truncate = 0 THEN r.last ELSE Smaller(r.last, truncate)
    IN  IF ~r.dirty /\ (truncate = 0 \/ (~EmptyRev(r) /\ r.last <= truncate)) THEN r
        ELSE IF truncate > 0 /\ ~EmptyRev(r) /\ r.first > truncate THEN [NoRev EXCEPT !.on = TRUE]
        ELSE [r EXCEPT !.dirty = FALSE, !.last = upto]

\* The log takes the place of the old one with nothing put aside.
repair_in_place(d, truncate) ==
    IF ~d.log.on THEN Stops(d, "block_log_not_found")
    ELSE IF d.log.stub \/ d.log.first # 1 THEN Stops([d EXCEPT !.log.stub = TRUE], "block_log")
    ELSE Goes([d EXCEPT !.log.last = IF truncate = 0 THEN @ ELSE Smaller(@, truncate), !.rev = NoRev])

\* Log and reversible blocks are moved away together; a log that does not start at block 1 is
\* refused after that.
repair_log(d, truncate) ==
    LET moved == [d EXCEPT !.backup = @ \cup {d.log}, !.rev = NoRev]
    IN  IF ~d.log.on THEN Stops(d, "block_log_not_found")
        ELSE IF d.log.stub \/ d.log.first # 1 THEN Stops([moved EXCEPT !.log.stub = TRUE], "block_log")
        ELSE Goes([moved EXCEPT !.log.last = IF truncate = 0 THEN @ ELSE Smaller(@, truncate)])

\* The reversible blocks that were moved away are recovered or copied back.
Recovered(old, repaired, o) ==
    IF repaired.stop # "no" \/ (~old.rev.on /\ ~o.fix) THEN repaired
    ELSE IF ~old.rev.on THEN Stops(repaired.d, "filesystem")
    ELSE Goes([repaired.d EXCEPT !.rev = recover_reversible_blocks(old.rev, o.truncate)])

do_hard_replay(d, o) == Recovered(d, repair_log(clear_directory_contents(d), o.truncate), o)

fix_reversible(d, truncate) ==
    IF d.rev.on THEN Goes([d EXCEPT !.rev = recover_reversible_blocks(@, truncate)])
    ELSE Stops(d, "filesystem")

import_reversible_blocks(d) ==
    [d EXCEPT !.rev = [on |-> TRUE, dirty |-> FALSE, chain |-> d.exported.chain,
                       first |-> d.exported.first, last |-> d.exported.last]]

\* A dirty database is exported too.
export_reversible_blocks(d) ==
    [d EXCEPT !.exported = [chain |-> d.rev.chain, first |-> d.rev.first, last |-> d.rev.last]]

\* plugin_initialize up to the choice of the chain.
manage(d, o) ==
    CASE o.command = "extract-genesis-json" ->
             Stops(d, IF d.log.on /\ (d.log.stub \/ ~d.log.genesis) THEN "no_genesis" ELSE "done")
      [] o.command = "export-reversible-blocks" ->
             IF d.rev.on THEN Stops(export_reversible_blocks(d), "done") ELSE Stops(d, "filesystem")
      [] o.command = "delete-all-blocks" ->
             Goes([clear_directory_contents(d) EXCEPT !.log = NoLog, !.rev = NoRev])
      [] o.command = "hard-replay-blockchain" -> do_hard_replay(d, o)
      [] o.command = "replay-blockchain" ->
             IF o.fix THEN fix_reversible(clear_chainbase_files(d), 0) ELSE Goes(clear_chainbase_files(d))
      [] o.command \in {"none", "import-reversible-blocks"} /\ o.fix ->
             Stops(fix_reversible(d, o.truncate).d, IF d.rev.on THEN "done" ELSE "filesystem")
      [] o.command = "import-reversible-blocks" /\ ~o.fix /\ o.truncate = 0 ->
             Stops(import_reversible_blocks(d), "done")
      [] OTHER -> Goes(d)

-----------------------------------------------------------------------------
(* Which chain *)

\* extract_chain_id_from_db: nothing when the database is missing, dirty or without tables.
StateChain(d) == IF d.state.kind = "ok" /\ ~d.state.dirty THEN {d.state.chain} ELSE {}
LogChain(d) == IF d.log.on THEN {d.log.chain} ELSE {}

NoChain(why) == [stop |-> why, chain |-> Default, from |-> "none"]
Chosen(chain, from) == [stop |-> "no", chain |-> chain, from |-> from]

from_snapshot(d, o, s) ==
    IF ~s.on THEN NoChain("no_snapshot")
    ELSE IF o.genesis # "none" THEN NoChain("incompatible_options")
    ELSE IF d.state.kind # "none" THEN NoChain("not_empty")
    ELSE IF d.log.on /\ d.log.stub THEN NoChain("block_log")
    ELSE IF ~(LogChain(d) \subseteq {s.chain}) THEN NoChain("chain_id")
    ELSE Chosen(s.chain, "snapshot")

\* The genesis state given must be the one there is, and is used when there is no state.
from_genesis(d, given) ==
    IF given = "missing" THEN NoChain("no_genesis_file")
    ELSE IF ~(StateChain(d) \cup LogChain(d) \subseteq {given}) THEN NoChain("genesis_differs")
    ELSE Chosen(given, IF StateChain(d) # {} THEN "state" ELSE "genesis")

\* Without one: the state, else the genesis state in the log, else the default one.
from_files(d) ==
    IF StateChain(d) # {} THEN Chosen(d.state.chain, "state")
    ELSE IF d.log.on /\ ~d.log.genesis THEN NoChain("genesis_necessary")
    ELSE IF d.log.on THEN Chosen(d.log.chain, "genesis")
    ELSE Chosen(Default, "genesis")

\* A genesis state given is taken without a look at the log.
trust_genesis(d, o) ==
    IF o.snapshot THEN from_snapshot(d, o, d.snapshot)
    ELSE IF d.state.kind = "indexed" /\ ~d.state.dirty THEN NoChain("bad_database_version")
    ELSE IF d.log.on /\ d.log.stub THEN NoChain("block_log")
    ELSE IF o.genesis \notin {"none", "missing"} /\ StateChain(d) = {} THEN Chosen(o.genesis, "genesis")
    ELSE IF o.genesis = "missing" THEN NoChain("no_genesis_file") ELSE from_files(d)

choose_chain(d, o) ==
    IF o.snapshot THEN from_snapshot(d, o, d.snapshot)
    ELSE IF d.state.kind = "indexed" /\ ~d.state.dirty THEN NoChain("bad_database_version")
    ELSE IF d.log.on /\ d.log.stub THEN NoChain("block_log")
    ELSE IF d.log.on /\ ~(StateChain(d) \subseteq {d.log.chain}) THEN NoChain("chain_id")
    ELSE IF o.genesis # "none" THEN from_genesis(d, o.genesis) ELSE from_files(d)

-----------------------------------------------------------------------------
(* The controller *)

\* The constructor: each store is opened, and made when it is missing; the tables are added.
open_stores(d) ==
    IF d.state.dirty THEN Stops(d, "dirty")
    ELSE IF d.rev.dirty
    THEN Stops([d EXCEPT !.state.kind = IF @ = "none" THEN "bare" ELSE @], "dirty")
    ELSE Goes([d EXCEPT !.state.kind = IF @ = "ok" THEN @ ELSE "indexed",
                        !.rev.on = TRUE,
                        !.log = IF d.log.on THEN @ ELSE [NoLog EXCEPT !.on = TRUE, !.stub = TRUE]])

NewState(chain, head) == [kind |-> "ok", chain |-> chain, head |-> head, dirty |-> FALSE]
NewLog(chain, genesis, first, end) ==
    [on |-> TRUE, stub |-> FALSE, genesis |-> genesis, chain |-> chain, first |-> first, last |-> end]

Running(d, chain, lib, head) ==
    [d    |-> [d EXCEPT !.state = [NewState(chain, head) EXCEPT !.dirty = TRUE],
                        !.rev = [on |-> TRUE, dirty |-> TRUE, chain |-> chain, first |-> lib + 1, last |-> head],
                        !.fork = NoFork],
     stop |-> "no",
     node |-> [up |-> TRUE, chain |-> chain, lib |-> lib, head |-> head, fork |-> Larger(d.fork.head, head)]]

\* The process dies where it reads the log's head block, which an empty log does not have.
Dies(d) == Stops([d EXCEPT !.state.dirty = TRUE, !.rev.dirty = TRUE, !.fork = NoFork], "dies")

\* Irreversible blocks from the log, then reversible ones; the fork database follows.
replay(d, chain, lib, head, end) ==
    LET upto == Larger(head, lib)
        reset == lib > head /\ (d.fork.head < upto \/ upto < d.fork.root)
        forks == [d.fork EXCEPT !.head = IF reset THEN upto ELSE @, !.root = IF lib > head THEN upto ELSE @]
    IN  IF ~HasBlocks(d.log) THEN Dies(d)
        ELSE IF end > lib /\ d.rev.chain # chain
        THEN Stops([d EXCEPT !.state.head = upto, !.fork = forks], "unlinkable")
        ELSE Running([d EXCEPT !.fork = forks], chain, lib, end)

\* Not in irreversible mode.  Where the pending head of the fork database and the reversible blocks
\* overlap they must agree; on one chain or another, the two comparisons of the code are one.
init(d, chain, head) ==
    LET lib == IF HasBlocks(d.log) THEN d.log.last ELSE d.fork.root
        first == Larger(d.rev.first, lib + 1)
        left == ~EmptyRev(d.rev) /\ first <= d.rev.last
        end == IF left THEN d.rev.last ELSE lib
    IN  IF d.state.head < head THEN Stops(d, "inconsistent")
        ELSE IF left /\ first # lib + 1 THEN Stops(d, "gap")
        ELSE IF head > end THEN Stops([d EXCEPT !.state.head = head], "ahead")
        ELSE IF left /\ d.fork.head > lib /\ d.rev.chain # chain THEN Stops([d EXCEPT !.state.head = head], "mismatch")
        ELSE IF end > head THEN replay(d, chain, lib, head, end)
        ELSE Running(d, chain, lib, head)

startup_snapshot(d, s) ==
    IF HasBlocks(d.log) /\ ~(d.log.first <= s.head + 1 /\ s.head <= d.log.last)
    THEN Stops(d, "log_range")
    ELSE init([d EXCEPT !.state = NewState(s.chain, s.head),
                        !.fork = [on |-> TRUE, root |-> s.head, head |-> s.head],
                        !.log = IF HasBlocks(d.log) THEN @
                                ELSE NewLog(s.chain, FALSE, s.head + 1, s.head)], s.chain, s.head)

\* The state is there before the log is looked at.
startup_genesis(d, chain) ==
    LET made == [d EXCEPT !.state = NewState(chain, 1),
                          !.fork = IF d.fork.on THEN @ ELSE [on |-> TRUE, root |-> 1, head |-> 1]]
    IN  IF HasBlocks(d.log)
        THEN IF d.log.first = 1 THEN init(made, chain, 1) ELSE Stops(made, "log_range")
        ELSE init([made EXCEPT !.log = NewLog(chain, TRUE, 1, 1)], chain, 1)

startup_state(d, chain) ==
    IF ~d.fork.on THEN Stops(d, "no_fork_database")
    ELSE IF HasBlocks(d.log) /\ ~(d.log.first <= d.fork.root /\ d.fork.root <= d.log.last)
    THEN Stops(d, "log_range")
    ELSE init([d EXCEPT !.log = IF HasBlocks(@) \/ (~@.stub /\ @.first = d.fork.root + 1) THEN @
                                ELSE NewLog(chain, FALSE, d.fork.root + 1, d.fork.root)],
              chain, d.fork.head)

plugin_startup(d, c) ==
    CASE c.from = "snapshot" -> startup_snapshot(d, d.snapshot)
      [] c.from = "genesis" -> startup_genesis(d, c.chain)
      [] c.from = "state" -> startup_state(d, c.chain)

\* A start: each stage sees what the one before left.
AfterOpen(opened, c, o) ==
    IF opened.stop # "no" THEN opened
    ELSE IF o.refused THEN Stops(opened.d, "other_plugin")
    ELSE plugin_startup(opened.d, c)
AfterChoice(d, c, o) == IF c.stop # "no" THEN Stops(d, c.stop) ELSE AfterOpen(open_stores(d), c, o)
AfterManage(managed, o) ==
    IF managed.stop # "no" THEN managed ELSE AfterChoice(managed.d, choose_chain(managed.d, o), o)
plugin_initialize(d, o) == AfterManage(manage(d, o), o)

-----------------------------------------------------------------------------
start(o) ==
    /\ ~node.up /\ starts < MaxStarts
    /\ LET Outcome(r) == disk' = r.d /\ node' = r.node /\ last' = [how |-> r.stop, by |-> o.command, head |-> r.node.head]
       IN  Outcome(plugin_initialize(disk, o))
    /\ starts' = starts + 1

\* A block on top of the best one the fork database has.
accept_block ==
    /\ node.up /\ node.fork < MaxBlock
    /\ LET head == node.fork + 1
       IN  /\ node' = [node EXCEPT !.head = head, !.fork = head]
           /\ disk' = [disk EXCEPT !.state.head = head, !.rev.last = head]
    /\ UNCHANGED <<last, starts>>

log_irreversible ==
    /\ node.up /\ node.lib < node.head
    /\ node' = [node EXCEPT !.lib = @ + 1]
    /\ disk' = [disk EXCEPT !.log.last = node.lib + 1, !.rev.first = node.lib + 2]
    /\ UNCHANGED <<last, starts>>

\* A snapshot becomes a file once its block is irreversible.
create_snapshot ==
    /\ node.up /\ node.lib > 1
    /\ disk' = [disk EXCEPT !.snapshot = [on |-> TRUE, chain |-> node.chain, head |-> node.lib]]
    /\ UNCHANGED <<node, last, starts>>

plugin_shutdown ==
    /\ node.up
    /\ disk' = [disk EXCEPT !.state.dirty = FALSE, !.rev.dirty = FALSE,
                            !.fork = [on |-> TRUE, root |-> node.lib, head |-> node.fork]]
    /\ node' = Down
    /\ last' = [how |-> "stopped", by |-> "none", head |-> node.head]
    /\ UNCHANGED starts

crash == node.up /\ node' = Down /\ last' = [how |-> "crashed", by |-> "none", head |-> node.head] /\ UNCHANGED <<disk, starts>>

StartInit == disk = Nothing /\ node = Down /\ last = [how |-> "none", by |-> "none", head |-> 0] /\ starts = 0

StartNext ==
    \/ \E o \in CommandLines : start(o)
    \/ accept_block
    \/ log_irreversible
    \/ create_snapshot
    \/ plugin_shutdown
    \/ crash

StartSpec == StartInit /\ [][StartNext]_start_vars

-----------------------------------------------------------------------------
Plain == [command |-> "none", fix |-> FALSE, truncate |-> 0, genesis |-> "none",
          snapshot |-> FALSE, refused |-> FALSE]
Hard == [Plain EXCEPT !.command = "hard-replay-blockchain"]

\* Whatever genesis state, snapshot, state and log a node was started with, one that runs has the
\* chain id it runs with in its state and in its log.
OneChain == node.up => disk.state.chain = node.chain /\ disk.log.on /\ disk.log.chain = node.chain

\* A running node holds every block above its log's end as a reversible block, and its log ends at
\* its last irreversible block.
StoresMeet ==
    node.up => /\ HasBlocks(disk.log) => disk.log.last = node.lib
               /\ disk.rev.first = node.lib + 1 /\ disk.rev.last = node.head
               /\ node.lib <= node.head

\* A node that was stopped starts again without options, where it stopped, unless the fork
\* database knows blocks the node did not have (reversible blocks cut off by --truncate-at-block,
\* then --replay-blockchain, which keeps fork_db.dat).
StopsAndStarts ==
    last.how = "stopped" /\ disk.fork.head = last.head =>
        LET r == plugin_initialize(disk, Plain) IN r.node.up /\ r.node.head = last.head

\* From a log that starts at genesis, --hard-replay-blockchain brings back a node with every
\* block of the log and every reversible block that follows it, whatever state the rest is in.
HardReplayRecovers ==
    ~node.up /\ disk.log.on /\ ~disk.log.stub /\ disk.log.first = 1 =>
        LET r == plugin_initialize(disk, Hard)
            follows == ~EmptyRev(disk.rev) /\ disk.rev.last > disk.log.last
        IN  \/ follows /\ r.stop = "gap" /\ disk.rev.first > disk.log.last + 1
            \/ follows /\ r.stop = "unlinkable" /\ disk.rev.chain # disk.log.chain
            \/ r.node.up /\ r.node.head = IF follows THEN disk.rev.last ELSE disk.log.last

\* No start loses an irreversible block but one with --delete-all-blocks: each block of the log
\* stays in it or in a log put aside.
Blocks(d) == UNION {{<<l.chain, n>> : n \in l.first..l.last} : l \in {k \in d.backup \cup {d.log} : HasBlocks(k)}}
KeepsBlocks == last'.by # "delete-all-blocks" => Blocks(disk) \subseteq Blocks(disk')
=============================================================================
