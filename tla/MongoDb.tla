------------------------------ MODULE MongoDb ------------------------------
(***************************************************************************)
(* mongo_db_plugin: the application thread queues what the controller      *)
(* signals (accepted transactions, traces, accepted and irreversible       *)
(* blocks), a thread of the plugin takes all four queues at once and       *)
(* writes them to the database: traces, transactions, blocks, irreversible *)
(* blocks.  Documents are what tells them apart; an ABI is the number of   *)
(* the setabi that set it.                                                 *)
(***************************************************************************)
EXTENDS Integers, Sequences, FiniteSets, SequencesExt

CONSTANTS
    Scripts,    \* what the controller may signal: sequences of [sig, ...]
    Configs,    \* [store: the collections kept, via_num, start, producer, filter, cache_size]
    MaxFailures \* bound: writes the server refuses

VARIABLES
    config, script,
    emitted,    \* signals of the script sent
    queues,     \* queue -> entries, shared under the mutex
    batch,      \* the process queues of the consumer
    pc,         \* the consumer: loop, about_to_wait (mutex held), waiting, busy, exited
    idle,       \* the batch was taken with all queues empty
    done,       \* shutdown asked the consumer to stop
    reached,    \* start_block_reached
    db,         \* the collections
    cache,      \* abi_cache_index: account -> ABI, 0 when absent
    failures,   \* writes that failed
    handled     \* irreversible blocks processed

vars == <<config, script, emitted, queues, batch, pc, idle, done, reached, db, cache, failures, handled>>
thread == <<config, script, emitted, queues, done, reached>>

Kinds == <<"trace", "trx", "block", "lib">>
Empty == [k \in ToSet(Kinds) |-> << >>]
AllEmpty(q) == q = Empty

-----------------------------------------------------------------------------
\* The application thread.

\* What a signal queues: accepted_transaction, applied_transaction, accepted_block,
\* applied_irreversible_block.
queued(s) ==
    CASE s.sig = "trx"   -> "trx" \in config.store
      [] s.sig = "trace" -> config.producer \/ s.in_block
      [] s.sig = "block" -> config.store \cap {"blocks", "states"} # {}
      [] s.sig = "lib"   -> config.store \cap {"blocks", "states", "trx"} # {}

\* Queues without waking the consumer.
signal_silent ==
    /\ ~done /\ emitted < Len(script) /\ pc # "about_to_wait"
    /\ LET s == script[emitted + 1]
       IN  /\ queues' = IF queued(s) THEN [queues EXCEPT ![s.sig] = Append(@, s)] ELSE queues
           /\ reached' = (reached \/ (s.sig = "block" /\ s.num >= config.start))
    /\ emitted' = emitted + 1
    /\ UNCHANGED <<config, script, batch, pc, idle, done, db, cache, failures, handled>>

\* accepted_transaction and the others, with queue: under the mutex.  A full queue makes it wake
\* the consumer and sleep first; the entry is queued all the same.
signal ==
    /\ ~done /\ emitted < Len(script) /\ pc # "about_to_wait"
    /\ LET s == script[emitted + 1]
       IN  /\ queues' = IF queued(s) THEN [queues EXCEPT ![s.sig] = Append(@, s)] ELSE queues
           /\ reached' = (reached \/ (s.sig = "block" /\ s.num >= config.start))
           /\ pc' = IF queued(s) /\ pc = "waiting" THEN "loop" ELSE pc
    /\ emitted' = emitted + 1
    /\ UNCHANGED <<config, script, batch, idle, done, db, cache, failures, handled>>

\* The destructor: done is set and the consumer notified without the mutex.
plugin_shutdown ==
    /\ ~done
    /\ done' = TRUE
    /\ pc' = IF pc = "waiting" THEN "loop" ELSE pc
    /\ UNCHANGED <<config, script, emitted, queues, batch, idle, reached, db, cache, failures, handled>>

-----------------------------------------------------------------------------
\* The consumer.  A failed write makes the node quit; what follows it is still tried.

filter_include(receiver) == receiver \in config.filter

\* get_abi_serializer, with purge_abi_cache making room: any entry stands for the oldest.
get_abi_serializer(d, c, n) ==
    IF c[n] # 0 \/ d.abi[n] = 0 THEN {c}
    ELSE LET Cached == {m \in DOMAIN c : c[m] # 0}
             out    == IF Cardinality(Cached) < config.cache_size THEN {"none"} ELSE Cached
         IN  {[m \in DOMAIN c |-> IF m = n THEN d.abi[n] ELSE IF m = o THEN 0 ELSE c[m]] : o \in out}

\* What is stored is written out with the ABIs of the contracts its actions are for.
to_variant_with_abi(d, c, contracts) ==
    FoldLeft(LAMBDA cs, n : UNION {get_abi_serializer(d, x, n) : x \in cs}, {c}, SetToSeq(contracts))

setabi(d, c, s) == <<[d EXCEPT !.abi[s.account] = s.abi], [c EXCEPT ![s.account] = 0]>>

\* newaccount, updateauth and deleteauth: the keys of one permission.
update_account(d, c, s) ==
    CASE s.act = "setabi"     -> setabi(d, c, s)
      [] s.act = "updateauth" -> <<[d EXCEPT !.pub_keys[s.account] = s.keys], c>>
      [] s.act = "deleteauth" -> <<[d EXCEPT !.pub_keys[s.account] = {}], c>>
      [] s.act = "newaccount" -> <<[d EXCEPT !.pub_keys[s.account] = @ \cup s.keys], c>>
      [] OTHER -> <<d, c>>

\* Filters apply to action and transaction traces; account changes are always followed.
process_applied_transaction(s, fails) ==
    LET updated == IF s.executed /\ s.receiver = "eosio" THEN update_account(db, cache, s) ELSE <<db, cache>>
        kept    == reached /\ filter_include(s.receiver) /\ "traces" \in config.store
    IN  /\ db' = IF fails THEN db ELSE IF kept THEN [updated[1] EXCEPT !.traces = @ \cup {s.id}] ELSE updated[1]
        /\ cache' \in to_variant_with_abi(IF fails THEN db ELSE updated[1], updated[2], IF kept THEN {s.receiver} ELSE {})
        /\ UNCHANGED handled

process_accepted_transaction(s, fails) ==
    /\ cache' \in to_variant_with_abi(db, cache, IF reached /\ filter_include(s.receiver) THEN {s.receiver} ELSE {})
    /\ db' = IF reached /\ filter_include(s.receiver) /\ ~fails
             THEN [db EXCEPT !.trans[s.id].stored = TRUE] ELSE db
    /\ UNCHANGED handled

\* Upsert by block id, or by number so that the latest replaces the others; other fields stay.
Upsert(col, s) ==
    LET same == {d \in col : IF config.via_num THEN d.num = s.num ELSE d.id = s.id}
        old  == CHOOSE d \in same : TRUE
    IN  IF same = {} THEN col \cup {[num |-> s.num, id |-> s.id, irreversible |-> FALSE]}
        ELSE (col \ {old}) \cup {[old EXCEPT !.num = s.num, !.id = s.id]}

WithBlock(d, s) ==
    [d EXCEPT !.states = IF "states" \in config.store THEN Upsert(@, s) ELSE @,
              !.blocks = IF "blocks" \in config.store THEN Upsert(@, s) ELSE @]

Contracts(s) == IF "blocks" \in config.store THEN s.contracts ELSE {}

process_accepted_block(s, fails) ==
    /\ db' = IF reached /\ ~fails THEN WithBlock(db, s) ELSE db
    /\ cache' \in to_variant_with_abi(db, cache, IF reached THEN Contracts(s) ELSE {})
    /\ UNCHANGED handled

Mark(col, s) == {IF d.id = s.id THEN [d EXCEPT !.irreversible = TRUE] ELSE d : d \in col}
Has(col, s) == \E d \in col : d.id = s.id

\* A block another one has replaced is written again before it is marked.
process_irreversible_block(s, fails) ==
    LET again == ("blocks" \in config.store /\ ~Has(db.blocks, s)) \/ ("states" \in config.store /\ ~Has(db.states, s))
        d1 == IF "blocks" \in config.store /\ ~Has(db.blocks, s) THEN WithBlock(db, s) ELSE db
        d2 == IF "blocks" \in config.store THEN [d1 EXCEPT !.blocks = Mark(@, s)] ELSE d1
        d3 == IF "states" \in config.store /\ ~Has(d2.states, s) THEN WithBlock(d2, s) ELSE d2
        d4 == IF "states" \in config.store THEN [d3 EXCEPT !.states = Mark(@, s)] ELSE d3
        d5 == IF "trx" \in config.store
              THEN [d4 EXCEPT !.trans = [t \in DOMAIN @ |->
                       IF t \in s.trxs /\ @[t].stored THEN [@[t] EXCEPT !.block = s.id] ELSE @[t]]]
              ELSE d4
    IN  /\ db' = IF reached /\ ~fails THEN d5 ELSE db
        /\ handled' = IF reached THEN Append(handled, s) ELSE handled
        /\ cache' \in to_variant_with_abi(db, cache, IF reached /\ again THEN Contracts(s) ELSE {})

\* Irreversible blocks are taken by themselves, ahead of the accepted ones.
capture_in_turn ==
    /\ pc = "loop" /\ (~AllEmpty(queues) \/ done)
    /\ LET first == IF queues["lib"] # << >> THEN {"lib"} ELSE ToSet(Kinds)
       IN  /\ batch' = [k \in ToSet(Kinds) |-> IF k \in first THEN queues[k] ELSE << >>]
           /\ queues' = [k \in ToSet(Kinds) |-> IF k \in first THEN << >> ELSE queues[k]]
    /\ idle' = AllEmpty(queues)
    /\ pc' = "busy"
    /\ UNCHANGED <<config, script, emitted, done, reached, db, cache, failures, handled>>

\* consume_blocks, under the mutex: take everything queued, or decide to wait.
capture ==
    /\ pc = "loop" /\ (~AllEmpty(queues) \/ done)
    /\ batch' = queues
    /\ queues' = Empty
    /\ idle' = AllEmpty(queues)
    /\ pc' = "busy"
    /\ UNCHANGED <<config, script, emitted, done, reached, db, cache, failures, handled>>

check_queues ==
    /\ pc = "loop" /\ AllEmpty(queues) /\ ~done
    /\ pc' = "about_to_wait"
    /\ UNCHANGED <<thread, batch, idle, db, cache, failures, handled>>

wait ==
    /\ pc = "about_to_wait"
    /\ pc' = "waiting"
    /\ UNCHANGED <<thread, batch, idle, db, cache, failures, handled>>

Current == LET i == CHOOSE i \in 1 .. 4 : batch[Kinds[i]] # << >> /\ \A j \in 1 .. i - 1 : batch[Kinds[j]] = << >>
           IN  Kinds[i]

process(fails) ==
    /\ pc = "busy" /\ ~AllEmpty(batch)
    /\ fails => failures < MaxFailures
    /\ failures' = failures + (IF fails THEN 1 ELSE 0)
    /\ LET k == Current
           s == Head(batch[k])
       IN  /\ batch' = [batch EXCEPT ![k] = Tail(@)]
           /\ \/ k = "trace" /\ process_applied_transaction(s, fails)
              \/ k = "trx" /\ process_accepted_transaction(s, fails)
              \/ k = "block" /\ process_accepted_block(s, fails)
              \/ k = "lib" /\ process_irreversible_block(s, fails)
    /\ UNCHANGED <<thread, pc, idle>>

batch_done ==
    /\ pc = "busy" /\ AllEmpty(batch)
    /\ pc' = IF idle /\ done THEN "exited" ELSE "loop"
    /\ UNCHANGED <<thread, batch, idle, db, cache, failures, handled>>

-----------------------------------------------------------------------------
Accounts == UNION {UNION {{sc[i].account, sc[i].receiver} : i \in {j \in DOMAIN sc : sc[j].sig = "trace"}} : sc \in Scripts}
Trxs == UNION {{sc[i].id : i \in {j \in DOMAIN sc : sc[j].sig = "trx"}} : sc \in Scripts}

Init ==
    /\ config \in Configs /\ script \in Scripts
    /\ emitted = 0 /\ queues = Empty /\ batch = Empty
    /\ pc = "loop" /\ idle = FALSE /\ done = FALSE
    /\ reached = (config.start = 0)
    /\ db = [blocks |-> {}, states |-> {}, traces |-> {},
             trans |-> [t \in Trxs |-> [stored |-> FALSE, block |-> "none"]],
             abi |-> [a \in Accounts |-> 0], pub_keys |-> [a \in Accounts |-> {}]]
    /\ cache = [a \in Accounts |-> 0]
    /\ failures = 0 /\ handled = << >>

Consumer == capture \/ check_queues \/ wait \/ batch_done \/ \E fails \in BOOLEAN : process(fails)

Next == signal \/ plugin_shutdown \/ Consumer

Spec == Init /\ [][Next]_vars /\ WF_vars(Consumer)

-----------------------------------------------------------------------------
\* A consumer of the database may rely on "irreversible": every irreversible block processed is
\* there under its id and marked, no other block is, and its stored transactions name it, on
\* forks, with either way of updating blocks and however the queues were cut into batches.
IrreversibleMarked ==
    failures = 0 =>
        LET lib == {s.id : s \in ToSet(handled)}
        IN  /\ \A col \in {db.blocks, db.states} : \A d \in col : d.irreversible <=> d.id \in lib
            /\ "blocks" \in config.store => \A id \in lib : \E d \in db.blocks : d.id = id
            /\ \A s \in ToSet(handled), t \in Trxs :
                   t \in s.trxs /\ db.trans[t].stored => db.trans[t].block = s.id

\* An ABI in the cache is the account's ABI in the database.
AbiCacheFresh == failures = 0 => \A n \in DOMAIN cache : cache[n] \in {0, db.abi[n]}

\* Until shutdown, everything queued is processed.  Once done is set the consumer may go to sleep
\* for good: see ShutsDown.
Queued(k) == queues[k] # << >> /\ ~done
QueuesDrain == \A k \in ToSet(Kinds) : Queued(k) ~> ~Queued(k)

\* "mongo_db_plugin shutdown in process please be patient this can take a few minutes": the
\* consumer drains its queues and exits, so that the destructor's join returns.  The code does not
\* keep this: done is set and notified without the mutex, so that the wake-up may come between the
\* consumer's test and its wait.
ShutsDown == done ~> pc = "exited"
=============================================================================
