------------------------------ MODULE NativeCode ------------------------------
(***************************************************************************)
(* The native code of contracts: how it is compiled, kept and evicted, and *)
(* how the time limit of a transaction stops it.                           *)
(***************************************************************************)
EXTENDS Integers, Sequences, SequencesExt, FiniteSets

(***************************************************************************)
(* eos-vm-oc's code cache: nodeos asks a compile monitor process for       *)
(* native code, keeps descriptors of what came back in a most recently     *)
(* used list and tells the monitor what to free; the monitor owns the      *)
(* allocator of the file both have mapped.  Requests and evictions travel  *)
(* one way, results the other, and neither side waits for the other (the   *)
(* base runtime does).  The list is written into the file on shutdown; a   *)
(* file left dirty by a crash is refused.                                  *)
(*                                                                         *)
(* A compiled code takes two blocks of the file (text and initial data),   *)
(* the list itself one.  A block is free or holds what it was filled with. *)
(***************************************************************************)

CONSTANTS
    Codes,          \* digests of contracts
    Threads,        \* eos-vm-oc-compile-threads
    Blocks,         \* blocks of the file
    Threshold,      \* a tenth of the file, in blocks
    Batch,          \* descriptors an eviction round takes (25)
    Sync,           \* eos-vm-oc is the base runtime: the node waits for each compile
    MaxCalls        \* bound on calls of contracts, setcodes and starts

VARIABLES
    node,           \* "up", "waiting" (sync), "closing", "down"
    index,          \* _cache_index, most recently used first
    compiles,       \* _outstanding_compiles_and_poison: function from the codes being compiled
    queued, blacklist,
    results,        \* _result_queue
    requests, replies,   \* the two directions of the socket
    tasks,          \* the monitor's current_compiles
    session,        \* compile_monitor_session: "open", "dead" (its erasure is posted), "none"
    mem,            \* the file's blocks
    disk,           \* header: dirty bit and serialized index
    modules,        \* wasm_instantiation_cache: Codes -> {"none", "live", "removed"}
    deployed,       \* codes with a code_object
    running,        \* descriptors the executor runs
    faults,         \* blocks freed while free
    calls

nodeosVars == <<node, index, compiles, queued, blacklist, results>>
cache_vars == <<nodeosVars, requests, replies, tasks, session, mem, disk, modules, deployed, running, faults, calls>>

Free == <<"free">>
FreeBlocks(m) == {b \in 1 .. Blocks : m[b] = Free}
free_memory == Cardinality(FreeBlocks(mem))

\* rbtree_best_fit: some block that is free.
SomeFree(m) == CHOOSE b \in FreeBlocks(m) : \A x \in FreeBlocks(m) : b <= x
Deallocated(m, bs) == [b \in 1 .. Blocks |-> IF b \in bs THEN Free ELSE m[b]]
BlocksOf(ds) == UNION {{ds[i].text, ds[i].data} : i \in DOMAIN ds}
NoCompiles == [c \in {} |-> FALSE]

Find(ix, c) == {i \in DOMAIN ix : ix[i].code = c}
Without(ix, c) == SelectSeq(ix, LAMBDA d : d.code # c)

\* op applied to the elements of s in turn.
Each(op(_, _), n, s) ==
    LET f[i \in 0 .. Len(s)] == IF i = 0 THEN n ELSE op(f[i - 1], s[i]) IN f[Len(s)]

-----------------------------------------------------------------------------
(* nodeos: what the main thread does to its own state and to the socket,   *)
(* as functions of a record n of both.                                     *)

Nodeos == [index |-> index, compiles |-> compiles, queued |-> queued, blacklist |-> blacklist,
           requests |-> requests]

Becomes(n) ==
    /\ index' = n.index /\ compiles' = n.compiles /\ queued' = n.queued
    /\ blacklist' = n.blacklist /\ requests' = n.requests

run_eviction_round(n) ==
    LET k == IF Len(n.index) - 1 < Batch THEN IF n.index = << >> THEN 0 ELSE Len(n.index) - 1 ELSE Batch
        keep == Len(n.index) - k
    IN  [n EXCEPT !.index = SubSeq(@, 1, keep),
                  !.requests = Append(@, [type |-> "evict", codes |-> SubSeq(n.index, keep + 1, Len(n.index))])]

check_eviction_threshold(n, free_bytes) == IF free_bytes < Threshold THEN run_eviction_round(n) ELSE n

\* The visitor of consume_all: a poisoned result is dropped, with the blocks it names.
ConsumeResult(n, r) ==
    LET poisoned == r.code \in DOMAIN n.compiles /\ n.compiles[r.code]
        applied  == CASE poisoned -> n
                      [] ~poisoned /\ r.result = "descriptor" -> [n EXCEPT !.index = <<r.cd>> \o @]
                      [] ~poisoned /\ r.result = "failure"    -> [n EXCEPT !.blacklist = @ \cup {r.code}]
                      [] ~poisoned /\ r.result = "toofull"    -> run_eviction_round(n)
    IN  [applied EXCEPT !.compiles = [c \in DOMAIN @ \ {r.code} |-> @[c]]]

consume_compile_thread_queue(n) == Each(ConsumeResult, n, results)

Request(n, c) ==
    [n EXCEPT !.compiles = [x \in DOMAIN @ \cup {c} |-> IF x = c THEN FALSE ELSE @[x]],
              !.requests = Append(@, [type |-> "compile", code |-> c])]

\* The loop over _queued_compiles: one compile goes out for each result that came in; a code whose
\* object is gone is only forgotten.  The iteration order is arbitrary: chosen are the codes it sends
\* out, met those without an object it comes across before the last of them.
dispatch(n, count) ==
    LET known == n.queued \cap deployed
        gone  == n.queued \ deployed
        k     == IF Cardinality(known) < count THEN Cardinality(known) ELSE count
    IN  {[Each(Request, n, chosen) EXCEPT !.queued = @ \ (Range(chosen) \cup met)] :
            chosen \in {s \in [1 .. k -> known] : Cardinality(Range(s)) = k},
            met \in IF k = count THEN SUBSET gone ELSE {gone}}

\* Processing the result queue, at the start of get_descriptor_for_code.
Processed ==
    IF DOMAIN compiles = {} \/ results = << >> THEN {Nodeos}
    ELSE LET n == consume_compile_thread_queue(Nodeos)
         IN  dispatch(check_eviction_threshold(n, results[Len(results)].free), Len(results))

ToFront(n, c) == [n EXCEPT !.index = SelectSeq(@, LAMBDA d : d.code = c) \o Without(@, c)]

\* get_descriptor_for_code after the queue: the new state; the result is index's first entry when it is c's.
LookUp(n, c) ==
    CASE Find(n.index, c) # {} -> ToFront(n, c)
      [] Find(n.index, c) = {} /\ c \in n.blacklist -> n
      [] Find(n.index, c) = {} /\ c \notin n.blacklist /\ c \in DOMAIN n.compiles ->
            [n EXCEPT !.compiles[c] = FALSE]
      [] Find(n.index, c) = {} /\ c \notin n.blacklist \cup DOMAIN n.compiles /\ c \in n.queued -> n
      [] OTHER -> IF Cardinality(DOMAIN n.compiles) >= Threads THEN [n EXCEPT !.queued = @ \cup {c}]
                  ELSE Request(n, c)

Hit(n, c) == n.index # << >> /\ n.index[1].code = c

\* wasm_interface::apply with tier-up: native code when there is some, else the base runtime,
\* which makes an entry of wasm_instantiation_cache.
apply(c) ==
    /\ node = "up" /\ ~Sync /\ running = << >> /\ c \in deployed /\ calls < MaxCalls
    /\ calls' = calls + 1
    /\ \E p \in Processed : \E n \in {LookUp(p, c)} :
           /\ Becomes(n)
           /\ results' = IF DOMAIN compiles = {} THEN results ELSE << >>
           /\ IF Hit(n, c)
              THEN running' = <<n.index[1]>> /\ UNCHANGED modules
              ELSE modules' = [modules EXCEPT ![c] = IF @ = "none" THEN "live" ELSE @] /\ UNCHANGED running
    /\ UNCHANGED <<node, replies, tasks, session, mem, disk, deployed, faults>>

\* eosvmoc_instantiated_module::apply, get_descriptor_for_code_sync.
apply_sync(c) ==
    /\ node = "up" /\ Sync /\ running = << >> /\ c \in deployed /\ calls < MaxCalls
    /\ calls' = calls + 1
    /\ modules' = [modules EXCEPT ![c] = IF @ = "none" THEN "live" ELSE @]
    /\ IF Find(index, c) # {}
       THEN /\ Becomes(ToFront(Nodeos, c))
            /\ running' = <<ToFront(Nodeos, c).index[1]>>
            /\ UNCHANGED node
       ELSE /\ requests' = Append(requests, [type |-> "compile", code |-> c])
            /\ node' = "waiting"
            /\ UNCHANGED <<index, compiles, queued, blacklist, running>>
    /\ UNCHANGED <<results, replies, tasks, session, mem, disk, deployed, faults>>

\* A reply that is no descriptor fails the action.
sync_reply ==
    /\ node = "waiting" /\ replies # << >>
    /\ node' = "up" /\ replies' = Tail(replies)
    /\ LET r == replies[1]
       IN  IF r.result = "descriptor"
           THEN /\ Becomes([check_eviction_threshold(Nodeos, r.free) EXCEPT !.index = <<r.cd>> \o @])
                /\ running' = <<r.cd>>
           ELSE UNCHANGED <<index, compiles, queued, blacklist, requests, running>>
    /\ UNCHANGED <<results, tasks, session, mem, disk, modules, deployed, faults, calls>>

executed ==
    /\ running # << >> /\ running' = << >>
    /\ UNCHANGED <<nodeosVars, requests, replies, tasks, session, mem, disk, modules, deployed, faults, calls>>

\* apply_eosio_setcode.  The last user of a code marks its module removed.
setcode(c) ==
    /\ node = "up" /\ running = << >> /\ calls < MaxCalls
    /\ calls' = calls + 1
    /\ \/ c \notin deployed /\ deployed' = deployed \cup {c} /\ UNCHANGED modules
       \/ /\ c \in deployed /\ deployed' = deployed \ {c}
          /\ modules' = [modules EXCEPT ![c] = IF @ = "live" THEN "removed" ELSE @]
    /\ UNCHANGED <<nodeosVars, requests, replies, tasks, session, mem, disk, running, faults>>

free_code(n, c) ==
    LET evicted == IF Find(n.index, c) = {} THEN n
                   ELSE [n EXCEPT !.index = Without(@, c),
                                  !.requests = Append(@, [type |-> "evict",
                                                          codes |-> SelectSeq(n.index, LAMBDA d : d.code = c)])]
    IN  [evicted EXCEPT !.queued = @ \ {c},
                        !.compiles = [x \in DOMAIN @ |-> @[x] \/ x = c]]

\* wasm_interface_impl::current_lib: gone are the modules whose last use is irreversible.
current_lib(gone) ==
    /\ node = "up" /\ running = << >> /\ gone # {}
    /\ \A c \in gone : modules[c] = "removed"
    /\ Becomes(Each(free_code, Nodeos, SetToSeq(gone)))
    /\ modules' = [c \in Codes |-> IF c \in gone THEN "none" ELSE modules[c]]
    /\ UNCHANGED <<node, results, replies, tasks, session, mem, disk, deployed, running, faults, calls>>

\* The reply thread: a full queue would lose the result.
wait_on_compile_monitor_message ==
    /\ ~Sync /\ replies # << >> /\ replies[1].result # "eof"
    /\ node \in {"up", "closing"}
    /\ results' = IF Len(results) < 2 * Threads THEN Append(results, replies[1]) ELSE results
    /\ replies' = Tail(replies)
    /\ UNCHANGED <<node, index, compiles, queued, blacklist, requests, tasks, session, mem, disk, modules,
                   deployed, running, faults, calls>>

-----------------------------------------------------------------------------
(* The compile monitor and its tasks.                                      *)

read_message_from_nodeos ==
    /\ session = "open" /\ requests # << >>
    /\ requests' = Tail(requests)
    /\ LET q == requests[1]
       IN  \/ /\ q.type = "compile" /\ tasks' = tasks \cup {q.code}
              /\ UNCHANGED <<mem, faults, session>>
           \/ /\ q.type = "evict" /\ mem' = Deallocated(mem, BlocksOf(q.codes))
              /\ faults' = faults \cup {b \in BlocksOf(q.codes) : mem[b] = Free}
              /\ UNCHANGED <<tasks, session>>
           \/ /\ q.type = "eof" /\ session' = "dead"
              /\ UNCHANGED <<mem, faults, tasks>>
    /\ UNCHANGED <<nodeosVars, replies, disk, modules, deployed, running, calls>>

\* read_message_from_compile_task: the task sent its code, or ended without (a failure, its limit of
\* time or memory).  One block may be had and not the other.
read_message_from_compile_task(c, compiled) ==
    /\ session \in {"open", "dead"} /\ c \in tasks
    /\ tasks' = tasks \ {c}
    /\ LET a  == SomeFree(mem)
           ma == [mem EXCEPT ![a] = <<c, "text">>]
           b  == SomeFree(ma)
           reply(result, cd) == [code |-> c, result |-> result, cd |-> cd, free |-> free_memory]
       IN  IF ~compiled
           THEN replies' = Append(replies, reply("failure", << >>)) /\ UNCHANGED mem
           ELSE IF free_memory < 2
           THEN replies' = Append(replies, reply("toofull", << >>)) /\ UNCHANGED mem
           ELSE /\ mem' = [ma EXCEPT ![b] = <<c, "data">>]
                /\ replies' = Append(replies, reply("descriptor", [code |-> c, text |-> a, data |-> b]))
    /\ UNCHANGED <<nodeosVars, requests, session, disk, modules, deployed, running, faults, calls>>

\* The posted erasure of a session closes its socket.  Compiles it still waits for are dropped here;
\* their handlers run once more, on the session that is gone.
session_erased ==
    /\ session = "dead" /\ session' = "none" /\ tasks' = {}
    /\ replies' = Append(replies, [code |-> "none", result |-> "eof", cd |-> << >>, free |-> 0])
    /\ UNCHANGED <<nodeosVars, requests, mem, disk, modules, deployed, running, faults, calls>>

-----------------------------------------------------------------------------
(* Shutdown, crash and start.                                              *)

shutdown ==
    /\ node = "up" /\ running = << >>
    /\ node' = "closing" /\ requests' = Append(requests, [type |-> "eof"])
    /\ UNCHANGED <<index, compiles, queued, blacklist, results, replies, tasks, session, mem, disk, modules,
                   deployed, running, faults, calls>>

\* The list with as many of its oldest entries gone as it takes to have a block for it.
Evictable(ix, k) ==
    LET keep == IF Len(ix) < k * Batch THEN 0 ELSE Len(ix) - k * Batch IN SubSeq(ix, 1, keep)

\* ~code_cache_base, once the reply thread has read the end: consume what is left, write the list.
\* Descriptors of an eviction round started here are not freed: the socket is shut.
destroyed ==
    /\ node = "closing" /\ replies # << >> /\ replies[1].result = "eof"
    /\ LET ix  == consume_compile_thread_queue(Nodeos).index
           m(k) == Deallocated(mem, BlocksOf(SubSeq(ix, Len(Evictable(ix, k)) + 1, Len(ix))))
           ok(k) == Evictable(ix, k) # << >> /\ FreeBlocks(m(k)) # {}
           ks   == {k \in 0 .. Len(ix) : ok(k)}
       IN  IF ks = {}
           THEN mem' = m(Len(ix)) /\ disk' = [dirty |-> FALSE, at |-> 0, index |-> << >>]
           ELSE LET k  == CHOOSE i \in ks : \A j \in ks : i <= j
                    at == SomeFree(m(k))
                IN  /\ mem' = [m(k) EXCEPT ![at] = <<"index">>]
                    /\ disk' = [dirty |-> FALSE, at |-> at, index |-> Evictable(ix, k)]
    /\ node' = "down" /\ index' = << >> /\ compiles' = NoCompiles /\ queued' = {} /\ blacklist' = {}
    /\ results' = << >> /\ requests' = << >> /\ replies' = << >> /\ tasks' = {} /\ session' = "none"
    /\ modules' = [c \in Codes |-> "none"]
    /\ UNCHANGED <<deployed, running, faults, calls>>

\* The monitor and the compile tasks die with nodeos (PR_SET_PDEATHSIG).
crash ==
    /\ node # "down"
    /\ node' = "down" /\ index' = << >> /\ compiles' = NoCompiles /\ queued' = {} /\ blacklist' = {}
    /\ results' = << >> /\ requests' = << >> /\ replies' = << >> /\ tasks' = {} /\ session' = "none"
    /\ modules' = [c \in Codes |-> "none"] /\ running' = << >>
    /\ UNCHANGED <<mem, disk, deployed, faults, calls>>

\* Writes the index without looking at the dirty bit.
start_unchecked ==
    /\ node = "down" /\ calls < MaxCalls
    /\ calls' = calls + 1
    /\ node' = "up" /\ session' = "open" /\ disk' = [disk EXCEPT !.dirty = TRUE]
    /\ index' = disk.index
    /\ mem' = Deallocated(mem, {disk.at} \ {0})
    /\ faults' = faults \cup {b \in {disk.at} \ {0} : mem[b] = Free}
    /\ UNCHANGED <<compiles, queued, blacklist, results, requests, replies, tasks, modules, deployed, running>>

\* code_cache_base: a dirty file is refused.
start ==
    /\ node = "down" /\ ~disk.dirty /\ calls < MaxCalls
    /\ calls' = calls + 1
    /\ node' = "up" /\ session' = "open" /\ disk' = [disk EXCEPT !.dirty = TRUE]
    /\ index' = disk.index
    /\ mem' = Deallocated(mem, {disk.at} \ {0})
    /\ faults' = faults \cup {b \in {disk.at} \ {0} : mem[b] = Free}
    /\ UNCHANGED <<compiles, queued, blacklist, results, requests, replies, tasks, modules, deployed, running>>

\* The operator deletes the file: the next start makes a new one.
delete_cache ==
    /\ node = "down" /\ disk.dirty
    /\ mem' = [b \in 1 .. Blocks |-> Free] /\ disk' = [dirty |-> FALSE, at |-> 0, index |-> << >>]
    /\ UNCHANGED <<nodeosVars, requests, replies, tasks, session, modules, deployed, running, faults, calls>>

CacheInit ==
    /\ node = "down" /\ index = << >> /\ compiles = NoCompiles /\ queued = {} /\ blacklist = {}
    /\ results = << >> /\ requests = << >> /\ replies = << >> /\ tasks = {} /\ session = "none"
    /\ mem = [b \in 1 .. Blocks |-> Free] /\ disk = [dirty |-> FALSE, at |-> 0, index |-> << >>]
    /\ modules = [c \in Codes |-> "none"] /\ deployed = Codes /\ running = << >> /\ faults = {} /\ calls = 0

CompileTask == \E c \in Codes, compiled \in BOOLEAN : read_message_from_compile_task(c, compiled)

\* The reply thread, the monitor, its tasks, and a node that waits for them.
Background ==
    \/ wait_on_compile_monitor_message
    \/ read_message_from_nodeos
    \/ CompileTask
    \/ session_erased
    \/ sync_reply
    \/ destroyed

CacheNext ==
    \/ \E c \in Codes : apply(c) \/ apply_sync(c) \/ setcode(c)
    \/ executed
    \/ \E gone \in SUBSET Codes : current_lib(gone)
    \/ Background
    \/ shutdown
    \/ crash
    \/ start
    \/ delete_cache

CacheSpec == CacheInit /\ [][CacheNext]_cache_vars

-----------------------------------------------------------------------------
Evictions == {requests[i].codes : i \in {j \in DOMAIN requests : requests[j].type = "evict"}}
Arriving == {q \in Range(replies) \cup Range(results) : q.result = "descriptor"}

\* Everyone who holds blocks, as descriptors.
Holders == Range(index) \cup {q.cd : q \in Arriving} \cup UNION {Range(ds) : ds \in Evictions}

\* A descriptor in the list, on its way to it or run right now names two blocks filled with its
\* code; no two descriptors share a block; nothing is freed twice.  Executing evicted or overwritten
\* code would need an eviction, a compile and a crash or a free in the wrong order.
NativeCodeIntact ==
    /\ faults = {}
    /\ \A d \in Range(index) \cup Range(running) \cup {q.cd : q \in Arriving} :
           mem[d.text] = <<d.code, "text">> /\ mem[d.data] = <<d.code, "data">>
    /\ \A d, e \in Holders : d # e => {d.text, d.data} \cap {e.text, e.data} = {}
    /\ \A i, j \in DOMAIN index : i # j => index[i].code # index[j].code

\* A compile nodeos believes to be outstanding is in one place between the two processes: asked
\* for, being compiled, or answered.  A request sent twice or a result lost to a full result queue
\* would leave a contract without native code, or the list with a code twice, for ever.
CompilesTracked ==
    (node = "up" /\ ~Sync) =>
        \A c \in Codes :
            LET asked    == {i \in DOMAIN requests : requests[i].type = "compile" /\ requests[i].code = c}
                answered == {i \in DOMAIN replies : replies[i].code = c}
                queuedUp == {i \in DOMAIN results : results[i].code = c}
                places   == Cardinality(asked) + Cardinality(tasks \cap {c}) + Cardinality(answered)
                            + Cardinality(queuedUp)
            IN  places = IF c \in DOMAIN compiles THEN 1 ELSE 0

-----------------------------------------------------------------------------

(***************************************************************************)
(* How a transaction's time limit stops native code: platform_timer, the   *)
(* transaction_checktime_timer around it and the executor of eos-vm-oc     *)
(* (the watchdog of eos-vm registers and clears its callback the same      *)
(* way).  When the timer expires its handler sets expired and calls the    *)
(* registered callback, which takes away the execute permission of the     *)
(* code; the fault this causes leads to checktime(), which throws when     *)
(* expired is set.  One timer serves all transactions.                     *)
(*                                                                         *)
(* Handler says where the handler runs: "signal" (POSIX: on the thread it  *)
(* interrupts, to its end) or "thread" (macOS and the asio fallback: on a  *)
(* thread of its own, step by step against the main thread).               *)
(***************************************************************************)

CONSTANTS
    Handlers,       \* where the handler may run: subset of {"signal", "thread"}
    MaxTrx          \* bound on transactions

VARIABLES
    where,          \* element of Handlers
    main,           \* where the main thread is
    trx,            \* number of the transaction
    limited,        \* its time is limited (no explicit_billed_cpu_time)
    outcome,        \* what became of it: "open", "done", "failed"
    expired, armed, callback, busy,     \* platform_timer
    handler,        \* where the handler is
    fired,          \* the timer expired since it was last started
    mapping,        \* the code's protection: "exec" or "none"
    executable,     \* mapping_is_executable
    cut             \* the code of this transaction was cut short

timer == <<expired, armed, callback, busy>>
code == <<mapping, executable>>
timer_vars == <<where, main, trx, limited, outcome, timer, handler, fired, code, cut>>

-----------------------------------------------------------------------------
(* The main thread.                                                        *)

Goes(pc) == main' = pc

\* transaction_checktime_timer's constructor, then transaction_context::init.
begin(limit) ==
    /\ main = "idle" /\ trx < MaxTrx
    /\ trx' = trx + 1 /\ limited' = limit /\ outcome' = "open" /\ cut' = FALSE
    /\ expired' = FALSE
    /\ Goes("start")
    /\ UNCHANGED <<where, armed, callback, busy, handler, fired, code>>

\* platform_timer::start clears expired, then arms; a deadline that has passed sets expired.
start_clears(passed) ==
    /\ main = "start"
    /\ expired' = (limited /\ passed) /\ fired' = FALSE
    /\ Goes(IF limited /\ ~passed THEN "arm" ELSE "execute")
    /\ UNCHANGED <<where, trx, limited, outcome, armed, callback, busy, handler, code, cut>>

start_arms ==
    /\ main = "arm" /\ armed' = TRUE /\ Goes("execute")
    /\ UNCHANGED <<where, trx, limited, outcome, expired, callback, busy, handler, fired, code, cut>>

\* executor::execute: give the permission back, register the callback, catch an expiration that came
\* before it.
execute ==
    /\ main = "execute"
    /\ mapping' = (IF executable THEN mapping ELSE "exec") /\ executable' = TRUE
    /\ Goes("register")
    /\ UNCHANGED <<where, trx, limited, outcome, timer, handler, fired, cut>>

\* set_expiration_callback spins on the flag the handler takes as well.
take_busy ==
    /\ main \in {"register", "unregister", "clear"} /\ ~busy
    /\ busy' = TRUE
    /\ Goes(CASE main = "register" -> "registering" [] main = "unregister" -> "unregistering"
              [] main = "clear" -> "clearing")
    /\ UNCHANGED <<where, trx, limited, outcome, expired, armed, callback, handler, fired, code, cut>>

set_expiration_callback ==
    /\ main \in {"registering", "unregistering", "clearing"}
    /\ callback' = (main = "registering") /\ busy' = FALSE
    /\ Goes(CASE main = "registering" -> "check" [] main = "unregistering" -> "executed"
              [] main = "clearing" -> "idle")
    /\ UNCHANGED <<where, trx, limited, outcome, expired, armed, handler, fired, code, cut>>

\* The code starts whatever the timer says.
enter_unchecked ==
    /\ main = "check" /\ Goes("running")
    /\ UNCHANGED <<where, trx, limited, outcome, timer, handler, fired, code, cut>>

\* checktime() after the registration throws before the clean-up of the callback is set up; the
\* transaction's end clears it.
enter ==
    /\ main = "check"
    /\ IF expired THEN outcome' = "failed" /\ Goes("stop") ELSE UNCHANGED outcome /\ Goes("running")
    /\ UNCHANGED <<where, trx, limited, timer, handler, fired, code, cut>>

\* The code faults on its own pages, segv_handler jumps out, checktime() decides.
segv_handler ==
    /\ main = "running" /\ mapping = "none"
    /\ cut' = TRUE
    /\ outcome' = (IF expired THEN "failed" ELSE outcome)
    /\ Goes("unregister")
    /\ UNCHANGED <<where, trx, limited, timer, handler, fired, code>>

\* The code returns, exits or throws by itself.
returns(ok) ==
    /\ main = "running" /\ mapping = "exec"
    /\ outcome' = (IF ok THEN outcome ELSE "failed")
    /\ Goes("unregister")
    /\ UNCHANGED <<where, trx, limited, timer, handler, fired, code, cut>>

\* Another action of the transaction, or its end.
next_action ==
    /\ main = "executed"
    /\ IF outcome = "failed" THEN Goes("stop") /\ UNCHANGED outcome
       ELSE \/ Goes("execute") /\ UNCHANGED outcome
            \/ Goes("stop") /\ outcome' = "done"
    /\ UNCHANGED <<where, trx, limited, timer, handler, fired, code, cut>>

\* get_instantiated_module pauses and resumes the billing timer around a compilation.
pause_billing_timer ==
    /\ main = "execute" /\ limited /\ outcome = "open"
    /\ armed' = (armed /\ expired) /\ expired' = TRUE
    /\ Goes("start")
    /\ UNCHANGED <<where, trx, limited, outcome, callback, busy, handler, fired, code, cut>>

\* platform_timer::stop, in the destructor of the transaction's timer.
stop ==
    /\ main = "stop"
    /\ armed' = (armed /\ expired) /\ expired' = TRUE
    /\ Goes("clear")
    /\ UNCHANGED <<where, trx, limited, outcome, callback, busy, handler, fired, code, cut>>

-----------------------------------------------------------------------------
(* The handler.                                                            *)

\* A signal handler runs to its end; a callback whose variables are in use is skipped.
sig_handler ==
    /\ where = "signal" /\ armed
    /\ armed' = FALSE /\ expired' = TRUE /\ fired' = TRUE
    /\ IF ~busy /\ callback THEN mapping' = "none" /\ executable' = FALSE ELSE UNCHANGED code
    /\ UNCHANGED <<where, main, trx, limited, outcome, callback, busy, handler, cut>>

HandlerStep(from, to) == where = "thread" /\ handler = from /\ handler' = to

\* The timer thread: the event is taken, expired set, the callback called.
timer_expires ==
    /\ HandlerStep("idle", "fired") /\ armed
    /\ armed' = FALSE /\ fired' = TRUE
    /\ UNCHANGED <<where, main, trx, limited, outcome, expired, callback, busy, code, cut>>

sets_expired ==
    /\ HandlerStep("fired", "call")
    /\ expired' = TRUE
    /\ UNCHANGED <<where, main, trx, limited, outcome, armed, callback, busy, fired, code, cut>>

call_expiration_callback ==
    /\ HandlerStep("call", IF busy THEN "idle" ELSE IF callback THEN "protect" ELSE "release")
    /\ busy' = TRUE
    /\ UNCHANGED <<where, main, trx, limited, outcome, expired, armed, callback, fired, code, cut>>

mprotects ==
    /\ HandlerStep("protect", "flag") /\ mapping' = "none"
    /\ UNCHANGED <<where, main, trx, limited, outcome, timer, fired, executable, cut>>

clears_executable ==
    /\ HandlerStep("flag", "release") /\ executable' = FALSE
    /\ UNCHANGED <<where, main, trx, limited, outcome, timer, fired, mapping, cut>>

releases ==
    /\ HandlerStep("release", "idle") /\ busy' = FALSE
    /\ UNCHANGED <<where, main, trx, limited, outcome, expired, armed, callback, fired, code, cut>>

TimerInit ==
    /\ where \in Handlers /\ main = "idle" /\ trx = 0 /\ limited = FALSE /\ outcome = "done"
    /\ expired = TRUE /\ armed = FALSE /\ callback = FALSE /\ busy = FALSE
    /\ handler = "idle" /\ fired = FALSE /\ mapping = "exec" /\ executable = TRUE /\ cut = FALSE

TimerNext ==
    \/ \E limit \in BOOLEAN : begin(limit)
    \/ \E passed \in BOOLEAN : start_clears(passed)
    \/ start_arms
    \/ execute
    \/ take_busy
    \/ set_expiration_callback
    \/ enter
    \/ segv_handler
    \/ \E ok \in BOOLEAN : returns(ok)
    \/ next_action
    \/ pause_billing_timer
    \/ stop
    \/ sig_handler
    \/ timer_expires
    \/ sets_expired
    \/ call_expiration_callback
    \/ mprotects
    \/ clears_executable
    \/ releases

TimerSpec == TimerInit /\ [][TimerNext]_timer_vars

-----------------------------------------------------------------------------
\* Once the timer of a transaction has expired and its handler is done, the transaction's code
\* cannot go on: wherever the expiration fell between arming, registering and entering the code, it
\* has lost its permission.
LimitEnforced ==
    (main = "running" /\ fired /\ handler = "idle") => (expired /\ mapping = "none")

\* While no callback can run, mapping_is_executable says how the code is mapped; a stale one would let
\* the next transaction's code start without permission.
PermissionKnown ==
    (main \in {"idle", "start", "arm", "execute"} /\ ~busy /\ handler \in {"idle", "fired", "call"})
        => (executable <=> mapping = "exec")

\* "Only a single callback can be registered at once": set_expiration_callback finds none when code
\* is entered, however the code before it ended, so that its assertion never fails.
OneCallback == main = "registering" => ~callback

\* Help of max-transaction-time: a transaction's code may execute that long "before being considered
\* invalid"; code that was cut short is not taken for finished.  The code does not keep this: the
\* callback of a timer that was stopped while it expired may come when code runs under the next
\* timer, cut it short, and leave a checktime that does not throw.
CutShortFails == (main = "executed" /\ cut) => outcome = "failed"
=============================================================================
