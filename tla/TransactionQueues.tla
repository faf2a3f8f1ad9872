-------------------------- MODULE TransactionQueues ---------------------------
(***************************************************************************)
(* The way of a transaction through the producer plugin of one node: it    *)
(* arrives, waits in the incoming queue, is executed in a pending block    *)
(* that is sealed or aborted, waits in the unapplied queue, is executed    *)
(* again, leaves the chain with a fork, and expires. Requests for the same *)
(* transaction may arrive more than once. The handlers run on the main     *)
(* thread; start_block is cut into one step per transaction it executes,   *)
(* during which nothing else runs.                                         *)
(***************************************************************************)
EXTENDS Naturals, FiniteSetsExt, Sequences

(***************************************************************************)
(* The CPU time the producer plugin bills to accounts on its own account:  *)
(* for transactions that it has executed and that may still be in a block, *)
(* and for those that failed or expired. The sum per account is kept apart *)
(* from the entries it is a sum of, and the part that the pending block    *)
(* bills itself in a third place.                                          *)
(***************************************************************************)

CONSTANTS
    Trx, Account,
    AccountOf,      \* first_authorizer
    Expiry,         \* expiration
    Bills           \* the CPU times a transaction may have taken

VARIABLES
    trx_cache,      \* _trx_cache_index: the bill of each transaction, 0 if none
    cached,         \* the transactions that have an entry
    pending_cpu,    \* pending_cpu_us of each account
    decaying,       \* the accounts whose accumulator is not zero
    block_cache     \* _block_subjective_bill_cache

billing_vars == <<trx_cache, cached, pending_cpu, decaying, block_cache>>

Nothing == [a \in Account |-> 0]
BillOf(a, S) == MapThenSumSet(LAMBDA t : trx_cache[t], {t \in S : AccountOf[t] = a})

BillingInit ==
    /\ trx_cache = [t \in Trx |-> 0]
    /\ cached = {}
    /\ pending_cpu = Nothing
    /\ decaying = {}
    /\ block_cache = Nothing

\* subjective_bill, in a pending block: only the first entry counts.
subjective_bill(t, bill) ==
    LET a == AccountOf[t]
    IN  IF t \in cached THEN UNCHANGED billing_vars
        ELSE /\ cached' = cached \cup {t}
             /\ trx_cache' = [trx_cache EXCEPT ![t] = bill]
             /\ pending_cpu' = [pending_cpu EXCEPT ![a] = @ + bill]
             /\ block_cache' = [block_cache EXCEPT ![a] = @ + bill]
             /\ UNCHANGED decaying

subjective_bill_failure(t) ==
    /\ \E bill \in Bills : decaying' = IF bill > 0 THEN decaying \cup {AccountOf[t]} ELSE decaying
    /\ UNCHANGED <<trx_cache, cached, pending_cpu, block_cache>>

\* The entries of S go.
Forget(S) ==
    /\ cached' = cached \ S
    /\ trx_cache' = [t \in Trx |-> IF t \in S THEN 0 ELSE trx_cache[t]]
    /\ pending_cpu' = [a \in Account |-> pending_cpu[a] - BillOf(a, S)]

\* on_block, with the transactions of the block or blocks.
billing_on_block(S) == Forget(S \cap cached) /\ UNCHANGED <<decaying, block_cache>>

\* Entries that expire, in the order of their expiry and until the deadline.
Expirable(time) == {t \in cached : Expiry[t] <= time}
ExpireFirst(S, T) == \A x \in S, y \in T \ S : Expiry[x] <= Expiry[y]
RemoveExpired(S) ==
    /\ Forget(S)
    /\ decaying' = decaying \cup {AccountOf[t] : t \in {x \in S : trx_cache[x] > 0}}

\* Mutation: the charges of the last block stay.
KeepsBlockCache == block_cache
ClearedBlockCache == Nothing

-----------------------------------------------------------------------------

CONSTANTS
    Request, TrxOf, Persist,    \* requests, their transaction and their persist_until_expired
    CanProduce,     \* process_mode::speculative_producer, not speculative_non_producer
    MaxIncoming,    \* max_incoming_transaction_queue_size, in transactions
    MaxFailures,    \* account_failures::max_failures_per_account
    MaxRequests,    \* bound: how many of the requests arrive
    MaxBlocks       \* bound: the length of the chain

ASSUME QueuesAssumption ==
    /\ IsFiniteSet(Trx)
    /\ AccountOf \in [Trx -> Account] /\ Expiry \in [Trx -> Nat] /\ Bills \subseteq Nat
    /\ TrxOf \in [Request -> Trx] /\ Persist \in [Request -> BOOLEAN]

VARIABLES
    mode,           \* _pending_block_mode
    building,       \* is_building_block
    chain,          \* the blocks up to the head, each the set of its transactions
    block,          \* the transactions of the pending block
    unapplied,      \* _unapplied_transactions: the type of each, "none" if not there
    incoming,       \* _pending_incoming_transactions
    phase,          \* where start_block is, or "idle"
    todo,           \* the unapplied transactions it has not come to
    limit,          \* pending_incoming_process_limit
    failures,       \* account_fails
    answers,        \* what each request was told, in order
    dropped         \* transactions given up: they failed when executed again

queue_vars == <<mode, building, chain, block, unapplied, incoming, phase, todo, limit, failures,
                answers, dropped>>
vars == <<queue_vars, billing_vars>>

\* The elements of a sequence, the last one, and the sequence of the others.
ToSet(s) == {s[i] : i \in DOMAIN s}
Last(s) == s[Len(s)]
Front(s) == SubSeq(s, 1, Len(s) - 1)

InChain == UNION ToSet(chain)
HeadTime == Len(chain)
Received == {r \in Request : answers[r] # <<>> \/ r \in ToSet(incoming)}
BlockTime == IF building THEN HeadTime + 1 ELSE HeadTime
OfType(types) == {t \in Trx : unapplied[t] \in types}
TypeRank == [persisted |-> 1, forked |-> 2, aborted |-> 3]

Init ==
    /\ BillingInit
    /\ mode = "speculating"
    /\ building = FALSE
    /\ chain = <<{}>>
    /\ block = {}
    /\ unapplied = [t \in Trx |-> "none"]
    /\ incoming = <<>>
    /\ phase = "start"
    /\ todo = {} /\ limit = 0 /\ failures = Nothing
    /\ answers = [r \in Request |-> <<>>]
    /\ dropped = {}

-----------------------------------------------------------------------------
(* The unapplied queue: what is there already keeps its type.              *)

\* Mutations: the transactions of an aborted block are not kept; those of a
\* block are left in the queue.
KeepsNothing(u, S) == u
add_aborted(u, S) ==
    IF CanProduce THEN [t \in Trx |-> IF t \in S /\ u[t] = "none" THEN "aborted" ELSE u[t]] ELSE u
add_forked(u, S) ==
    IF CanProduce THEN [t \in Trx |-> IF t \in S /\ u[t] = "none" THEN "forked" ELSE u[t]] ELSE u
add_persisted(u, t) == [u EXCEPT ![t] = "persisted"]
clear_applied(u, S) ==
    [t \in Trx |-> IF t \in S /\ u[t] # "persisted" THEN "none" ELSE u[t]]

Aborted == add_aborted(unapplied, block)

-----------------------------------------------------------------------------
(* A request is processed: process_incoming_transaction_async.             *)

Answer(r, what) == answers' = [answers EXCEPT ![r] = Append(@, what)]

RejectsKnown(t) == t \in InChain \cup block

\* incoming_transaction_queue::add, which throws when the queue is full.
Add(q, r) ==
    IF Len(q) + 1 < MaxIncoming THEN incoming' = Append(q, r) /\ UNCHANGED answers
    ELSE incoming' = q /\ Answer(r, "rejected")

Rejects(t) == Expiry[t] < BlockTime \/ t \in InChain \cup block

\* q is the queue without the request. ends is whether the block turned out
\* full, in which case start_block ends.
process(r, q, ends) ==
    LET t == TrxOf[r]
    IN  /\ UNCHANGED <<mode, building, chain, dropped>>
        /\ \/ /\ Rejects(t)
              /\ ~ends /\ incoming' = q /\ Answer(r, "rejected")
              /\ UNCHANGED <<block, unapplied, billing_vars>>
           \/ /\ ~Rejects(t)
              /\ \/ /\ ~building
                    /\ ~ends /\ Add(q, r)
                    /\ UNCHANGED <<block, unapplied, billing_vars>>
                 \/ /\ building      \* executed
                    /\ ~ends /\ incoming' = q /\ Answer(r, "accepted")
                    /\ block' = block \cup {t}
                    /\ IF Persist[r] THEN /\ unapplied' = add_persisted(unapplied, t)
                                          /\ UNCHANGED billing_vars
                       ELSE /\ UNCHANGED unapplied
                            /\ \E bill \in Bills : subjective_bill(t, bill)
                 \/ /\ building      \* exhausted
                    /\ Add(q, r)
                    /\ ends => incoming' # q    \* add throws before the block is looked at
                    /\ UNCHANGED <<block, unapplied, billing_vars>>
                 \/ /\ building      \* failed
                    /\ ~ends /\ incoming' = q /\ Answer(r, "rejected")
                    /\ subjective_bill_failure(t)
                    /\ UNCHANGED <<block, unapplied>>

\* on_incoming_transaction_async.
on_incoming_transaction(r) ==
    /\ phase = "idle"
    /\ r \notin Received /\ Cardinality(Received) < MaxRequests
    /\ \E ends \in BOOLEAN : process(r, incoming, ends)
    /\ UNCHANGED <<phase, todo, limit, failures>>

-----------------------------------------------------------------------------
(* start_block.                                                            *)

\* It returns early, with the pending block as it is.
start_waits ==
    /\ phase = "start"
    /\ phase' = "idle"
    /\ mode' \in {"producing", "speculating"}
    /\ UNCHANGED <<building, chain, block, unapplied, incoming, todo, limit, failures, answers,
                   dropped, billing_vars>>

\* The pending block is aborted and a new one started, or not; what has expired
\* is removed, as far as the deadline allows.
start_block ==
    /\ phase = "start"
    /\ mode' \in IF CanProduce THEN {"producing", "speculating"} ELSE {"speculating"}
    /\ block' = {}
    /\ block_cache' = ClearedBlockCache
    /\ limit' = Len(incoming)
    /\ failures' = Nothing
    /\ \/ /\ building' = FALSE
          /\ unapplied' = Aborted
          /\ phase' = "idle" /\ todo' = {}
          /\ UNCHANGED <<trx_cache, cached, pending_cpu, decaying>>
       \/ LET expired == {t \in Trx : Aborted[t] # "none" /\ Expiry[t] <= HeadTime + 1}
          IN  \E S \in SUBSET expired, B \in SUBSET Expirable(HeadTime + 1) :
                 /\ ExpireFirst(S, expired) /\ ExpireFirst(B, Expirable(HeadTime + 1))
                 /\ S # expired => B = {}
                 /\ building' = TRUE
                 /\ unapplied' = [t \in Trx |-> IF t \in S THEN "none" ELSE Aborted[t]]
                 /\ RemoveExpired(B)
                 /\ IF S = expired /\ B = Expirable(HeadTime + 1)
                    THEN /\ phase' = "unapplied"
                         /\ todo' = {t \in Trx : unapplied'[t] \in
                                IF mode' = "producing" THEN DOMAIN TypeRank ELSE {"persisted"}}
                    ELSE phase' = "idle" /\ todo' = {}
    /\ UNCHANGED <<chain, incoming, answers, dropped>>

\* The deadline, or a block that is full.
start_exhausted ==
    /\ phase \in {"unapplied", "incoming"}
    /\ phase' = "idle" /\ todo' = {} /\ limit' = 0
    /\ UNCHANGED <<mode, building, chain, block, unapplied, incoming, failures, answers, dropped,
                   billing_vars>>

\* account_failures: no more transactions of an account that has failed often.
failure_limit(a) == failures[a] >= MaxFailures

\* process_unapplied_trxs, one transaction: erased without being executed
\* after too many failures of its account; erased when it is a duplicate or
\* fails; put into the block and erased; or kept for another time.
process_unapplied(t) ==
    LET a == AccountOf[t]
        Erase == unapplied' = [unapplied EXCEPT ![t] = "none"]
    IN  /\ phase = "unapplied" /\ t \in todo
        /\ \A u \in todo : TypeRank[unapplied[t]] <= TypeRank[unapplied[u]]
        /\ todo' = todo \ {t}
        /\ \/ /\ failure_limit(a) \/ t \in InChain \cup block
              /\ Erase
              /\ dropped' = IF t \in InChain \cup block THEN dropped ELSE dropped \cup {t}
              /\ UNCHANGED <<block, failures, billing_vars>>
           \/ /\ ~failure_limit(a) /\ t \notin InChain \cup block
              /\ \/ /\ Erase
                    /\ dropped' = dropped \cup {t}
                    /\ failures' \in {failures, [failures EXCEPT ![a] = @ + 1]}
                    /\ subjective_bill_failure(t)
                    /\ UNCHANGED block
                 \/ /\ Erase
                    /\ block' = block \cup {t}
                    /\ \E bill \in Bills : subjective_bill(t, bill)
                    /\ UNCHANGED <<dropped, failures>>
                 \/ UNCHANGED <<block, unapplied, dropped, failures, billing_vars>>
        /\ UNCHANGED <<mode, building, chain, incoming, phase, limit, answers>>

unapplied_done ==
    /\ phase = "unapplied" /\ todo = {}
    /\ phase' = "incoming"
    /\ UNCHANGED <<mode, building, chain, block, unapplied, incoming, todo, limit, failures, answers,
                   dropped, billing_vars>>

\* process_incoming_trxs, and the part of process_scheduled_and_incoming_trxs
\* that takes from the same queue under the same limit.
process_incoming ==
    /\ phase = "incoming" /\ limit > 0 /\ incoming # <<>>
    /\ \E ends \in BOOLEAN :
          /\ process(Head(incoming), Tail(incoming), ends)
          /\ phase' = IF ends THEN "idle" ELSE phase
    /\ limit' = limit - 1
    /\ UNCHANGED <<todo, failures>>

incoming_done ==
    /\ phase = "incoming" /\ (limit = 0 \/ incoming = <<>>)
    /\ phase' = "idle"
    /\ UNCHANGED <<mode, building, chain, block, unapplied, incoming, todo, limit, failures, answers,
                   dropped, billing_vars>>

-----------------------------------------------------------------------------
(* Blocks.                                                                 *)

\* The loop runs again: a timer, an operator.
schedule_production_loop ==
    /\ phase = "idle"
    /\ phase' = "start"
    /\ UNCHANGED <<mode, building, chain, block, unapplied, incoming, todo, limit, failures, answers,
                   dropped, billing_vars>>

\* produce_block: the pending block is the new head; on_block follows.
produce_block ==
    /\ phase = "idle" /\ mode = "producing" /\ building
    /\ Len(chain) < MaxBlocks
    /\ chain' = Append(chain, block)
    /\ building' = FALSE /\ block' = {}
    /\ unapplied' = clear_applied(unapplied, block)
    /\ billing_on_block(block)
    /\ phase' = "start"
    /\ UNCHANGED <<mode, incoming, todo, limit, failures, answers, dropped>>

\* on_incoming_block: the pending block is aborted. The block extends the head;
\* or it completes a branch of two blocks that replaces the last one; or the
\* second block of that branch fails and the old one comes back, with the
\* transactions of the branch discarded.
on_incoming_block(S, T) ==
    LET old == Last(chain)
        forked == add_forked(Aborted, old)
    IN  /\ phase = "idle" /\ mode # "producing"
        /\ S \cap T = {}
        /\ \A t \in S \cup T : Expiry[t] > HeadTime
        /\ \/ /\ T = {} /\ S \cap InChain = {}
              /\ Len(chain) < MaxBlocks
              /\ chain' = Append(chain, S)
              /\ unapplied' = clear_applied(Aborted, S)
              /\ billing_on_block(S)
              /\ UNCHANGED dropped
           \/ /\ (S \cup T) \cap UNION ToSet(Front(chain)) = {}
              /\ 1 < Len(chain) /\ Len(chain) < MaxBlocks
              /\ \/ /\ chain' = Front(chain) \o <<S, T>>
                    /\ unapplied' = clear_applied(forked, S \cup T)
                    /\ billing_on_block(S \cup T)
                    /\ UNCHANGED dropped
                 \/ /\ UNCHANGED chain
                    /\ unapplied' = clear_applied(clear_applied(forked, S), old)
                    /\ billing_on_block(S \cup old)
                    /\ dropped' = dropped \cup S
        /\ building' = FALSE /\ block' = {}
        /\ phase' = "start"
        /\ UNCHANGED <<mode, incoming, todo, limit, failures, answers>>

Next ==
    \/ \E r \in Request : on_incoming_transaction(r)
    \/ start_waits
    \/ start_block
    \/ start_exhausted
    \/ \E t \in Trx : process_unapplied(t)
    \/ unapplied_done
    \/ process_incoming
    \/ incoming_done
    \/ schedule_production_loop
    \/ produce_block
    \/ \E S, T \in SUBSET Trx : on_incoming_block(S, T)

Spec == Init /\ [][Next]_vars

\* A call of start_block ends, the loop runs again and again, blocks are started with time left for each
\* kind of transaction now and then, and the chain grows.
CallGoesOn == phase # "idle" /\ Next
StartsUnapplied == start_block /\ phase' = "unapplied"
GrowsChain == produce_block \/ \E S, T \in SUBSET Trx : on_incoming_block(S, T) /\ chain' # chain
Fairness ==
    /\ WF_vars(CallGoesOn)
    /\ SF_vars(schedule_production_loop)
    /\ SF_vars(StartsUnapplied)
    /\ \A t \in Trx : SF_vars(process_unapplied(t))
    /\ SF_vars(unapplied_done)
    /\ SF_vars(process_incoming)
    /\ SF_vars(GrowsChain)
FairSpec == Spec /\ Fairness

-----------------------------------------------------------------------------
Accepted == {TrxOf[r] : r \in {x \in Request : "accepted" \in ToSet(answers[x])}}

\* Whoever sent a transaction is answered once and not while it waits in the
\* queue, and it waits there once.
AnsweredOnce ==
    \A r \in Request :
        Len(answers[r]) + Cardinality({i \in DOMAIN incoming : incoming[i] = r}) <= 1

\* A transaction that has arrived is answered at last: it can not go round in
\* the queue for ever, because it expires.
Unanswered(r) == r \in Received /\ answers[r] = <<>>
AnsweredAtLast == \A r \in Request : Unanswered(r) ~> ~Unanswered(r)

\* A transaction that was accepted is in the chain, in the pending block or in
\* the unapplied queue until it expires, unless it failed when it was executed
\* again or was in a fork that failed.
NotLost ==
    \A t \in Accepted :
        \/ t \in InChain \cup block \cup dropped
        \/ unapplied[t] # "none"
        \/ Expiry[t] <= HeadTime + 1

\* What is in the chain is not executed again: neither in the pending block nor
\* in the queue, but for persisted transactions that stay there.
NotAgain ==
    /\ block \cap InChain = {}
    /\ OfType({"forked", "aborted"}) \cap InChain = {}

\* Whoever sent a transaction is answered once; one that was accepted is in the chain, the pending
\* block or the unapplied queue until it expires; and one in the chain is not executed again.
TransactionsKept == AnsweredOnce /\ NotLost /\ NotAgain

\* get_subjective_bill: what an account is charged for transactions that may
\* still be in a block is the sum of its entries, whichever of them were
\* confirmed, expired or billed again since; none of them is for a transaction
\* in the chain; and what the pending block charges is a part of it, so that the
\* difference does not wrap.
BillsAddUp ==
    /\ \A a \in Account : pending_cpu[a] = BillOf(a, cached)
    /\ cached \cap InChain = {}
    /\ building => \A a \in Account : block_cache[a] <= pending_cpu[a]
=============================================================================
