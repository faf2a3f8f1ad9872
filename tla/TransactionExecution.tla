------------------------- MODULE TransactionExecution -------------------------
(***************************************************************************)
(* The execution of transactions into a block: transaction_context.cpp and *)
(* push_transaction, push_scheduled_transaction, apply_onerror, start_block*)
(* finalize_block and apply_block of controller.cpp, over the tables of    *)
(* ResourceLimits.                                                         *)
(*                                                                         *)
(* The same code runs twice for every block: on the producer, where the    *)
(* clock and the node's own policies decide (block_status "incomplete"),   *)
(* and on every other node, which takes the CPU time to bill from the      *)
(* receipt ("complete").  Each operation is therefore an operator on the   *)
(* chain's tables; the actions of the module build blocks with it, and     *)
(* apply_block, a function of the block alone, executes them again.        *)
(*                                                                         *)
(* db is the chainbase database: rl (ResourceLimits), transactions (the    *)
(* deduplication list), gtos (the generated transactions), rows (the RAM a *)
(* contract's tables hold, by payer), correction (account_ram_correction), *)
(* preactivated and activated (protocol features) and global_sequence.     *)
(* A contract is abstracted to one operation op of each transaction.       *)
(***************************************************************************)
EXTENDS Integers, FiniteSets, FiniteSetsExt, Functions, Sequences, SequencesExt

(***************************************************************************)
(* The resource limits manager (resource_limits.cpp and                    *)
(* resource_limits_private.hpp): the moving averages that account for CPU  *)
(* and NET, the elastic block limits, the pending and actual limits of the *)
(* accounts and their RAM.  CPU and NET follow the same code, written out  *)
(* twice in the source; here they are the two members of Resources.        *)
(*                                                                         *)
(* Everything is an operator on rl, the record of the manager's tables:    *)
(*   usage[a]   resource_usage_object: an accumulator per resource, and    *)
(*              ram_usage;                                                 *)
(*   limits[a]  resource_limits_object of the account that is in force;    *)
(*   pending    the accounts' resource_limits_object with pending = true,  *)
(*              a function on the accounts that have one;                  *)
(*   used, average, virtual, total                                         *)
(*              resource_limits_state_object.                              *)
(***************************************************************************)

CONSTANTS Accounts,
          rate_limiting_precision,   \* 1000000 in config.hpp
          average_window,            \* account_{cpu,net}_usage_average_window
          elastic                    \* [Resources -> elastic_limit_parameters]

Resources == {"cpu", "net"}

ASSUME ResourceConstants ==
   /\ rate_limiting_precision \in Nat \ {0}
   /\ average_window \in Nat \ {0}
   /\ \A r \in Resources : elastic[r].max \in Nat \ {0} /\ elastic[r].periods \in Nat \ {0}

(***************************************************************************)
(* exponential_moving_average_accumulator.  The guards against overflow of *)
(* 64 bits are left out: no bound of the model comes near them.            *)
(***************************************************************************)
integer_divide_ceil(num, den) == (num \div den) + (IF num % den > 0 THEN 1 ELSE 0)

NoUsage == [last_ordinal |-> 0, value_ex |-> 0]

average(acc) == integer_divide_ceil(acc.value_ex, rate_limiting_precision)

Decayed(acc, ordinal, window) ==
   IF acc.last_ordinal = ordinal THEN acc.value_ex
   ELSE IF acc.last_ordinal + window > ordinal
        THEN (acc.value_ex * (window - (ordinal - acc.last_ordinal))) \div window
        ELSE 0

add(acc, units, ordinal, window) ==
   [last_ordinal |-> ordinal,
    value_ex     |-> Decayed(acc, ordinal, window)
                     + integer_divide_ceil(units * rate_limiting_precision, window)]

update_elastic_limit(current_limit, average_usage, params) ==
   LET rate   == IF average_usage > params.target THEN params.contract_rate ELSE params.expand_rate
       result == (current_limit * rate.numerator) \div rate.denominator
   IN Min({Max({result, params.max}), params.max * params.max_multiplier})

(***************************************************************************)
(* The limits of an account: the pending ones if it has any.               *)
(***************************************************************************)
initialize_database ==
   [usage   |-> [a \in Accounts |-> [cpu |-> NoUsage, net |-> NoUsage, ram |-> 0]],
    limits  |-> [a \in Accounts |-> [cpu |-> -1, net |-> -1, ram |-> -1]],
    pending |-> << >>,
    used    |-> [r \in Resources |-> 0],
    average |-> [r \in Resources |-> NoUsage],
    virtual |-> [r \in Resources |-> elastic[r].max],
    total   |-> [cpu |-> 0, net |-> 0, ram |-> 0]]

get_account_limits(rl, a) == IF a \in DOMAIN rl.pending THEN rl.pending[a] ELSE rl.limits[a]

\* set_account_limits: the returned decreased_limit, and the pending limits
decreased_limit(rl, a, new) ==
   LET old == get_account_limits(rl, a)
   IN new.ram >= 0 /\ (old.ram < 0 \/ new.ram < old.ram)

set_account_limits(rl, a, new) ==
   [rl EXCEPT !.pending = [x \in DOMAIN @ \cup {a} |-> IF x = a THEN new ELSE @[x]]]

Positive(w) == Max({w, 0})

\* every pending limit replaces the actual one; the totals count positive limits only
process_account_limit_updates(rl) ==
   LET moved(k) == MapThenSumSet(LAMBDA a : Positive(rl.pending[a][k]) - Positive(rl.limits[a][k]),
                                 DOMAIN rl.pending)
   IN [rl EXCEPT !.limits  = [a \in Accounts |-> get_account_limits(rl, a)],
                 !.pending = << >>,
                 !.total   = [k \in DOMAIN @ |-> @[k] + moved(k)]]

(***************************************************************************)
(* CPU and NET of the accounts.                                            *)
(***************************************************************************)
update_account_usage(rl, accounts, slot) ==
   [rl EXCEPT !.usage = [a \in Accounts |->
       IF a \in accounts
       THEN [@[a] EXCEPT !.cpu = add(@, 0, slot, average_window),
                         !.net = add(@, 0, slot, average_window)]
       ELSE @[a]]]

Unlimited == -1

max_user_use_in_window(rl, a, r, capacity) ==
   (capacity * average_window * get_account_limits(rl, a)[r]) \div rl.total[r]

\* get_account_cpu_limit_ex and get_account_net_limit_ex: what is left, and whether the
\* greylist multiplier is what lowered it
account_limit(rl, a, r, greylist_limit) ==
   IF get_account_limits(rl, a)[r] < 0 \/ rl.total[r] = 0
   THEN [available |-> Unlimited, greylisted |-> FALSE]
   ELSE LET lowered    == elastic[r].max * greylist_limit
            greylisted == greylist_limit < elastic[r].max_multiplier /\ lowered < rl.virtual[r]
            max        == max_user_use_in_window(rl, a, r, IF greylisted THEN lowered ELSE rl.virtual[r])
            used       == integer_divide_ceil(rl.usage[a][r].value_ex * average_window,
                                              rate_limiting_precision)
        IN [available |-> Max({max - used, 0}), greylisted |-> greylisted]

\* the two assertions on an account and the one on the block in add_transaction_usage
Overdrawn(rl, a, r) ==
   /\ get_account_limits(rl, a)[r] >= 0
   /\ rl.total[r] > 0
   /\ (rl.usage[a][r].value_ex * average_window) \div rate_limiting_precision
         > max_user_use_in_window(rl, a, r, rl.virtual[r])

block_limit(rl, r) == elastic[r].max - rl.used[r]

\* the tables after add_transaction_usage, and whether one of its assertions fails
add_transaction_usage(rl, accounts, cpu, net, slot) ==
   LET billed == [rl EXCEPT
          !.usage = [a \in Accounts |->
              IF a \in accounts
              THEN [@[a] EXCEPT !.cpu = add(@, cpu, slot, average_window),
                                !.net = add(@, net, slot, average_window)]
              ELSE @[a]],
          !.used  = [cpu |-> @.cpu + cpu, net |-> @.net + net]]
   IN [rl    |-> billed,
       fails |-> \/ \E a \in accounts, r \in Resources : Overdrawn(billed, a, r)
                 \/ \E r \in Resources : block_limit(billed, r) < 0]

\* the average takes the block's usage in and the virtual limit follows it
process_block_usage(rl, block_num) ==
   LET averaged == [r \in Resources |-> add(rl.average[r], rl.used[r], block_num, elastic[r].periods)]
   IN [rl EXCEPT !.average = averaged,
                 !.virtual = [r \in Resources |->
                                 update_elastic_limit(@[r], average(averaged[r]), elastic[r])],
                 !.used    = [r \in Resources |-> 0]]

(***************************************************************************)
(* RAM.                                                                    *)
(***************************************************************************)
add_pending_ram_usage(rl, a, ram_delta) == [rl EXCEPT !.usage[a].ram = @ + ram_delta]

\* the assertion of add_pending_ram_usage that usage does not go below zero
ram_underflows(rl, a, ram_delta) == rl.usage[a].ram + ram_delta < 0

ram_exceeded(rl, a) ==
   LET limit == get_account_limits(rl, a).ram
   IN limit >= 0 /\ rl.usage[a].ram > limit

-----------------------------------------------------------------------------

CONSTANTS Inputs,                      \* the input transactions
          Deferred(_),                 \* a generated transaction by its name
          OnError(_),                  \* what a contract does with an onerror action
          NoAccount,
          resource_greylist, greylist_limit,
          actor_whitelist, actor_blacklist, sender_bypass_whiteblacklist,
          max_transaction_cpu_usage, min_transaction_cpu_usage, max_transaction_net_usage,
          net_usage_leeway, subjective_cpu_leeway, max_transaction_lifetime,
          deferred_trx_expiration_window,
          MaxTime, Elapsed, OnErrorElapsed, Deadlines, Estimates, MaxReceipts, MaxActions

VARIABLES db,        \* the database at the head block
          time,      \* the head block's timestamp, in slots
          pending,   \* the pending block, or NoBlock
          last       \* the last committed block and the database it was applied to

vars == <<db, time, pending, last>>

NoBlock  == [stage |-> "none"]
Large    == 1000000
OK       == "ok"
First(s) == s[1]

(***************************************************************************)
(* Exceptions by the name of their type; these are the ones that say more  *)
(* about the node than about the transaction.                              *)
(***************************************************************************)
failure_is_subjective(e) ==
   e \in {"subjective", "block_net", "greylist_net", "block_cpu", "greylist_cpu",
          "deadline", "leeway_deadline", "actor_list"}

\* Mutant: a generated transaction that ran too long on this node is failed objectively
scheduled_cpu_is_objective(e) == failure_is_subjective(e)

scheduled_failure_is_subjective(e) == e = "tx_cpu" \/ failure_is_subjective(e)

is_builtin_activated(d, feature) == feature \in d.activated

(***************************************************************************)
(* The limits of a transaction.                                            *)
(***************************************************************************)
cpu_limits(d, t) ==
   LET block == block_limit(d.rl, "cpu")
       chain == IF max_transaction_cpu_usage <= block
                THEN [limit |-> max_transaction_cpu_usage, code |-> "tx_cpu"]
                ELSE [limit |-> block, code |-> "block_cpu"]
   IN IF t.max_cpu > 0 /\ t.max_cpu <= chain.limit
      THEN [limit |-> t.max_cpu, code |-> "tx_cpu"]
      ELSE chain

net_limits(d, t) ==
   LET block == block_limit(d.rl, "net")
   IN IF max_transaction_net_usage <= block
      THEN [limit |-> max_transaction_net_usage, due_to_block |-> FALSE]
      ELSE [limit |-> block, due_to_block |-> TRUE]

bill_to_accounts(d, t) ==
   IF is_builtin_activated(d, "only_bill_first_authorizer") THEN {First(t.actors)} ELSE ToSet(t.actors)

max_bandwidth_billed_accounts_can_pay(d, accounts, status, force_elastic_limits) ==
   LET grey(a) == IF ~force_elastic_limits /\ status = "incomplete"
                  THEN IF a \in resource_greylist THEN 1 ELSE greylist_limit
                  ELSE elastic["cpu"].max_multiplier
       limit(a, r) == account_limit(d.rl, a, r, grey(a))
       limited(r)  == {a \in accounts : limit(a, r).available >= 0}
   IN [r \in Resources |-> [limit      |-> Min({Large} \cup {limit(a, r).available : a \in limited(r)}),
                            greylisted |-> \E a \in limited(r) : limit(a, r).greylisted]]

\* validate_account_cpu_usage: the exception it throws, or OK
validate_account_cpu_usage(billed, account_limit_, objective, code, greylisted) ==
   LET by_account == account_limit_ <= objective
       cap        == IF by_account THEN account_limit_ ELSE objective
   IN IF billed <= cap THEN OK
      ELSE IF ~by_account /\ code = "block_cpu" THEN "block_cpu"
      ELSE IF by_account /\ greylisted THEN "greylist_cpu"
      ELSE "tx_cpu"

(***************************************************************************)
(* A transaction context x: the database its undo session has reached, the *)
(* exception thrown (OK if none) and the limits.  how says how it is run:  *)
(* the block's status, explicit billing and the amount, the leeway and     *)
(* whether the lists are enforced; the clock (elapsed, whether the expired *)
(* timer is noticed, the caller's deadline) is the producer's.             *)
(***************************************************************************)
Throw(x, e, if) == IF x.exc = OK /\ if THEN [x EXCEPT !.exc = e] ELSE x
Then(x, F(_))   == IF x.exc = OK THEN F(x) ELSE x

add_net_usage(x, words) ==
   LET y == [x EXCEPT !.net_usage = @ + words]
   IN Throw(y, IF y.due_to_block THEN "block_net"
               ELSE IF y.pay["net"].greylisted THEN "greylist_net" ELSE "tx_net",
            y.net_usage > y.eager_net_limit)

\* the context with which a transaction starts, from its limits and what its accounts can pay
begin(d, updated, how, net, cpu, netl, pay, accounts) ==
   LET timer    == IF pay["cpu"].limit + how.leeway <= cpu.limit
                   THEN [limit |-> pay["cpu"].limit + how.leeway, code |-> "leeway_deadline"]
                   ELSE cpu
       deadline == IF how.explicit \/ how.deadline < timer.limit
                   THEN [limit |-> how.deadline, code |-> "deadline"]
                   ELSE timer
       eager    == Min({netl.limit, pay["net"].limit + net_usage_leeway})
       early    == validate_account_cpu_usage(how.billed, Large, cpu.limit, cpu.code, FALSE)
       estimate == LET left == pay["cpu"].limit IN left - (left \div 10)
       x == [db |-> updated, exc |-> OK, objective |-> cpu.limit, initial |-> cpu.limit,
             code |-> timer.code, deadline |-> deadline, net_limit |-> netl.limit,
             due_to_block |-> netl.due_to_block /\ eager = netl.limit, eager_net_limit |-> eager,
             net_usage |-> 0, pay |-> pay, bill_to |-> accounts, ram_check |-> {}, billed |-> how.billed]
       y == IF how.explicit THEN x
            ELSE LET e == validate_account_cpu_usage(how.billed, estimate, cpu.limit, timer.code,
                                                     pay["cpu"].greylisted)
                 IN Throw(x, e, how.billed > 0 /\ e # OK)
   IN IF how.explicit /\ early # OK
      THEN [x EXCEPT !.db = d, !.exc = early, !.bill_to = {}]  \* thrown before anybody is billed
      ELSE Then(y, LAMBDA z : add_net_usage(z, net))

init(d, t, how, net) ==
   LET accounts == bill_to_accounts(d, t)
       updated  == [d EXCEPT !.rl = update_account_usage(@, accounts, how.slot)]
   IN begin(d, updated, how, net, cpu_limits(d, t), net_limits(d, t),
            max_bandwidth_billed_accounts_can_pay(updated, accounts, how.status, FALSE), accounts)

checktime(x, how) ==
   Throw(x, IF x.deadline.code = "tx_cpu" /\ x.pay["cpu"].greylisted THEN "greylist_cpu"
            ELSE x.deadline.code,
         how.noticed /\ how.elapsed > x.deadline.limit)

add_ram_usage(x, account, delta) ==
   Throw([x EXCEPT !.db.rl = add_pending_ram_usage(@, account, delta),
                   !.ram_check = IF delta > 0 THEN @ \cup {account} ELSE @],
         "ram_underflow", ram_underflows(x.db.rl, account, delta))

update_billed_cpu_time(x, how) ==
   IF how.explicit THEN how.billed ELSE Max({how.elapsed, min_transaction_cpu_usage})

\* what is billed is checked against what the accounts can pay by now, and charged
charge(x, how, pay, billed) ==
   LET grey      == [r \in Resources |-> x.pay[r].greylisted \/ pay[r].greylisted]
       by_acct   == pay["cpu"].limit <= x.objective
       y         == [x EXCEPT !.pay = [r \in Resources |-> [pay[r] EXCEPT !.greylisted = grey[r]]],
                              !.objective = IF by_acct THEN pay["cpu"].limit ELSE @,
                              !.code = IF by_acct THEN "tx_cpu" ELSE @,
                              !.due_to_block = @ /\ pay["net"].limit > x.net_limit,
                              !.eager_net_limit = Min({pay["net"].limit, x.net_limit}),
                              !.billed = billed]
       cpu       == validate_account_cpu_usage(billed, pay["cpu"].limit, y.objective, y.code, grey["cpu"])
       add_usage == add_transaction_usage(x.db.rl, x.bill_to, billed, x.net_usage, how.slot)
       checked   == Throw(Throw(add_net_usage(Throw(y, "ram", \E a \in x.ram_check : ram_exceeded(x.db.rl, a)), 0),
                                "below_minimum", billed < min_transaction_cpu_usage),
                          cpu, cpu # OK)
   IN Then(checked, LAMBDA z : IF add_usage.fails THEN [z EXCEPT !.exc = "never"]
                               ELSE [z EXCEPT !.db.rl = add_usage.rl])

finalize(x, how) ==
   charge(x, how, max_bandwidth_billed_accounts_can_pay(x.db, x.bill_to, how.status, FALSE),
          update_billed_cpu_time(x, how))

(***************************************************************************)
(* What a contract does, one operation a transaction.  code is the         *)
(* receiver, t the transaction whose action it runs.                       *)
(***************************************************************************)
GtoSize == 1   \* billable size of a generated_transaction_object

gto_by_sender_id(d, sender, sender_id) ==
   {g \in d.gtos : g.sender = sender /\ g.sender_id = sender_id}

\* trx_id is the transaction's own, or the replaced one's before REPLACE_DEFERRED
schedule_deferred_transaction(x, op, t, how) ==
   LET existing == gto_by_sender_id(x.db, t.code, op.sender_id)
       old      == CHOOSE g \in existing : TRUE
       active   == is_builtin_activated(x.db, "replace_deferred")
       id       == IF existing # {} /\ ~active THEN old.trx_id ELSE t.id \o op.sender_id
       until    == how.slot + Deferred(op.dtrx).delay
       new      == [trx_id |-> id, sender |-> t.code, sender_id |-> op.sender_id, payer |-> op.payer,
                    delay_until |-> until, expiration |-> until + deferred_trx_expiration_window,
                    trx |-> Deferred(op.dtrx)]
       charged  == add_net_usage(x, 1)
       allowed  == Throw(Throw(charged, "deferred_tx_duplicate", existing # {} /\ ~op.replace),
                         "subjective", existing # {} /\ ~active /\ how.status = "incomplete")
       refunded == IF existing = {} THEN allowed
                   ELSE IF active THEN Then(allowed, LAMBDA z : add_ram_usage(z, old.payer, -GtoSize))
                   ELSE [allowed EXCEPT !.db.correction[old.payer] = @ + GtoSize]
   IN Then(refunded, LAMBDA z : add_ram_usage([z EXCEPT !.db.gtos = (@ \ existing) \cup {new}],
                                              op.payer, GtoSize))

cancel_deferred_transaction(x, op, t) ==
   LET existing == gto_by_sender_id(x.db, t.code, op.sender_id)
       old      == CHOOSE g \in existing : TRUE
   IN IF existing = {} THEN x
      ELSE add_ram_usage([x EXCEPT !.db.gtos = @ \ existing], old.payer, -GtoSize)

db_store_i64(x, op) ==
   add_ram_usage([x EXCEPT !.db.rows[op.payer] = @ + 1], op.payer, 1)

\* an inline action to the contract itself that its authorizations do not cover
execute_inline_to_self(x, how) ==
   Throw(Throw(x, "auth", is_builtin_activated(x.db, "restrict_action_to_self")),
         "subjective", how.status = "incomplete")

set_resource_limits(x, op) ==
   [x EXCEPT !.db.rl = set_account_limits(@, op.account, op.limits),
             !.ram_check = IF decreased_limit(x.db.rl, op.account, op.limits)
                           THEN @ \cup {op.account} ELSE @]

preactivate_feature(x, op) ==
   Then(Throw(x, "protocol_feature", op.feature \in x.db.activated \cup x.db.preactivated),
        LAMBDA z : [z EXCEPT !.db.preactivated = @ \cup {op.feature}])

apply(x, op, t, how) ==
   CASE op.op = "nop"          -> x
     [] op.op = "assert"       -> Throw(x, "assert", TRUE)
     [] op.op = "store"        -> db_store_i64(x, op)
     [] op.op = "defer"        -> schedule_deferred_transaction(x, op, t, how)
     [] op.op = "cancel"       -> cancel_deferred_transaction(x, op, t)
     [] op.op = "inline_self"  -> execute_inline_to_self(x, how)
     [] op.op = "setlimits"    -> set_resource_limits(x, op)
     [] op.op = "preactivate"  -> preactivate_feature(x, op)

\* exec_one: the action runs, then the sequence numbers of its receipt are taken
execute_action(x, op, t, how) ==
   Then(apply(checktime(x, how), op, t, how), LAMBDA z : [z EXCEPT !.db.global_sequence = @ + 1])

schedule_transaction(x, t, how) ==
   LET new == [trx_id |-> t.id, sender |-> NoAccount, sender_id |-> t.id, payer |-> First(t.actors),
               delay_until |-> how.slot + t.delay,
               expiration |-> how.slot + t.delay + deferred_trx_expiration_window, trx |-> t]
   IN Then(x, LAMBDA z : add_ram_usage([z EXCEPT !.db.gtos = @ \cup {new}], new.payer, GtoSize))

exec(x, t, delay, how) ==
   IF delay = 0 THEN Then(x, LAMBDA z : execute_action(z, t.op, t, how))
   ELSE schedule_transaction(x, t, how)

(***************************************************************************)
(* Input transactions.                                                     *)
(***************************************************************************)
on_actor_list(actors, how) ==
   /\ how.status = "incomplete"
   /\ IF actor_whitelist # {} THEN ~(actors \subseteq actor_whitelist) ELSE actors \cap actor_blacklist # {}

record_transaction(x, t) ==
   Then(Throw(x, "tx_duplicate", \E r \in x.db.transactions : r.id = t.id),
        LAMBDA z : [z EXCEPT !.db.transactions = @ \cup {[id |-> t.id, expiration |-> t.expiration]}])

\* the checks before anything is billed: expiration, and the referenced accounts
init_for_input_trx(d, t, how) ==
   IF t.expiration < how.slot THEN [exc |-> "expired_tx"]
   ELSE IF t.expiration > how.slot + max_transaction_lifetime THEN [exc |-> "tx_exp_too_far"]
   ELSE IF on_actor_list(ToSet(t.actors), how) THEN [exc |-> "actor_list"]
   ELSE record_transaction(init(d, t, how, t.net + (IF t.delay > 0 THEN 1 ELSE 0)), t)

\* the database and the receipt that push_transaction leaves in the block: none when it failed
pushed(d, t, x) ==
   IF x.exc # OK THEN [db |-> d, exc |-> x.exc, receipts |-> << >>]
   ELSE [db |-> x.db, exc |-> OK,
         receipts |-> IF t.implicit THEN << >>
                      ELSE << [trx |-> t.id, packed |-> TRUE, cpu |-> x.billed, net |-> x.net_usage,
                               status |-> IF t.delay = 0 THEN "executed" ELSE "delayed"] >>]

push_transaction(d, t, how) ==
   LET begun == IF t.implicit THEN init(d, t, how, 0) ELSE init_for_input_trx(d, t, how)
   IN pushed(d, t, Then(exec(begun, t, t.delay, how), LAMBDA z : finalize(z, how)))

(***************************************************************************)
(* Generated transactions.                                                 *)
(***************************************************************************)
Receipt(g, status, cpu, net) ==
   [trx |-> g.trx_id, packed |-> FALSE, cpu |-> cpu, net |-> net, status |-> status]

remove_scheduled_transaction(d, g) ==
   [d EXCEPT !.gtos = @ \ {g}, !.rl = add_pending_ram_usage(@, g.payer, -GtoSize)]

onerror_trx(g) ==
   [id |-> Append(g.trx_id, "onerror"), actors |-> <<g.sender>>, max_cpu |-> 0, delay |-> 0, net |-> 0,
    op |-> OnError(g.sender), code |-> g.sender, implicit |-> TRUE]

\* the sender's handler, timed from the start of the transaction that failed
apply_onerror(d, g, how) ==
   LET t     == onerror_trx(g)
       later == [how EXCEPT !.elapsed = @ + how.onerror_elapsed, !.leeway = subjective_cpu_leeway]
       with(x) == [x |-> x, cpu |-> update_billed_cpu_time(x, later)]
   IN with(Then(exec(init(d, t, later, 0), t, 0, later), LAMBDA z : finalize(z, later)))

\* limited to what the accounts and the block can be billed when producing
hard_fail(d, g, x, cpu, how) ==
   LET updated == [d EXCEPT !.rl = update_account_usage(@, x.bill_to, how.slot)]
       payable == max_bandwidth_billed_accounts_can_pay(updated, x.bill_to, how.status, TRUE)["cpu"].limit
       bill    == IF how.status = "incomplete" THEN Min({cpu, payable, x.initial}) ELSE cpu
       usage   == add_transaction_usage(IF how.status = "incomplete" THEN updated.rl ELSE d.rl,
                                        x.bill_to, bill, 0, how.slot)
   IN IF usage.fails THEN [db |-> d, exc |-> "never", receipts |-> << >>]
      ELSE [db |-> [d EXCEPT !.rl = usage.rl], exc |-> OK,
            receipts |-> <<Receipt(g, "hard_fail", bill, 0)>>]

\* after it ran: x is its context, error that of the sender's handler
scheduled_outcome(d, removed, g, x, error, how) ==
   LET subjective(e) == IF how.status = "incomplete" THEN scheduled_failure_is_subjective(e)
                        ELSE failure_is_subjective(e)
       retry == [db |-> d, exc |-> x.exc, receipts |-> << >>]
       handled == g.sender # NoAccount
   IN IF x.exc = OK
      THEN [db |-> x.db, exc |-> OK, receipts |-> <<Receipt(g, "executed", x.billed, x.net_usage)>>]
      ELSE IF subjective(x.exc) THEN retry
      ELSE IF handled /\ error.x.exc = OK
      THEN [db |-> error.x.db, exc |-> OK,
            receipts |-> <<Receipt(g, "soft_fail", error.x.billed, error.x.net_usage)>>]
      ELSE IF handled /\ subjective(error.x.exc) THEN [retry EXCEPT !.exc = error.x.exc]
      ELSE hard_fail(removed, g, x, IF handled THEN error.cpu ELSE update_billed_cpu_time(x, how), how)

push_scheduled_transaction(d, g, how) ==
   LET removed == remove_scheduled_transaction(d, g)
       enforce == g.sender = NoAccount \/ g.sender \notin sender_bypass_whiteblacklist
       listed  == Throw(init(removed, g.trx, how, 0), "actor_list",
                        enforce /\ on_actor_list(ToSet(g.trx.actors), how))
       own     == [g.trx EXCEPT !.id = g.trx_id]
   IN IF g.delay_until > how.slot THEN [db |-> d, exc |-> "not_ready", receipts |-> << >>]
      ELSE IF g.expiration < how.slot
      THEN [db |-> removed, exc |-> OK, receipts |-> <<Receipt(g, "expired", how.billed, 0)>>]
      ELSE scheduled_outcome(d, removed, g, Then(exec(listed, own, 0, how), LAMBDA z : finalize(z, how)),
                             apply_onerror(removed, g, how), how)

(***************************************************************************)
(* Blocks.                                                                 *)
(***************************************************************************)
Explicit(slot, billed) ==
   [status |-> "complete", slot |-> slot, explicit |-> TRUE, billed |-> billed, leeway |-> 0,
    elapsed |-> 0, onerror_elapsed |-> 0, noticed |-> FALSE, deadline |-> Large]

OnBlock == [id |-> <<"onblock">>, actors |-> <<"eosio">>, max_cpu |-> 0, delay |-> 0, net |-> 0,
            op |-> [op |-> "nop"], code |-> "eosio", implicit |-> TRUE]

\* on_activation<replace_deferred> returns what replaced transactions were billed
activate(d) ==
   LET back(a) == Min({d.correction[a], d.rl.usage[a].ram})
       on      == "replace_deferred" \in d.preactivated
   IN [d EXCEPT !.activated = @ \cup d.preactivated, !.preactivated = {},
                !.rl.usage = IF on THEN [a \in Accounts |-> [@[a] EXCEPT !.ram = @ - back(a)]] ELSE @,
                !.correction = IF on THEN [a \in Accounts |-> 0] ELSE @]

\* Mutant: forgotten in the last slot in which it is valid
clear_expired_early(d, slot) ==
   [d EXCEPT !.transactions = {r \in @ : slot < r.expiration}]

clear_expired_input_transactions(d, slot) ==
   [d EXCEPT !.transactions = {r \in @ : slot <= r.expiration}]

start_block(d, slot, status) ==
   LET how == [Explicit(slot, min_transaction_cpu_usage) EXCEPT !.status = status]
   IN clear_expired_input_transactions(push_transaction(activate(d), OnBlock, how).db, slot)

finalize_block(d) ==
   [d EXCEPT !.block_num = @ + 1,
             !.rl = process_block_usage(process_account_limit_updates(@), d.block_num + 1)]

\* a receipt, and the block, as another node executes them: the database unless rejected
apply_receipt(d, receipt, slot) ==
   LET how  == Explicit(slot, receipt.cpu)
       gto  == {g \in d.gtos : g.trx_id = receipt.trx}
       same(done) == LET ok == done.exc = OK /\ done.receipts = <<receipt>>
                     IN [rejected |-> ~ok, db |-> IF ok THEN done.db ELSE d]
   IN IF receipt.packed
      THEN same(push_transaction(d, CHOOSE t \in Inputs : t.id = receipt.trx, how))
      ELSE IF gto = {} THEN [rejected |-> TRUE, db |-> d]
      ELSE same(push_scheduled_transaction(d, CHOOSE g \in gto : TRUE, how))

apply_block(d, b) ==
   LET step(acc, receipt) == IF acc.rejected THEN acc ELSE apply_receipt(acc.db, receipt, b.slot)
       final == FoldLeft(step, [rejected |-> FALSE, db |-> start_block(d, b.slot, "complete")], b.receipts)
   IN [final EXCEPT !.db = finalize_block(@)]

(***************************************************************************)
(* The producer.  Clocks are what its clock may show: the time the         *)
(* transaction ran, the time its onerror handler ran, whether the expired  *)
(* timer was noticed, the deadline it was given and the time it was billed *)
(* when it was executed speculatively.                                     *)
(***************************************************************************)
Clocks(slot, leeway, onerror, estimates) ==
   [status : {"incomplete"}, slot : {slot}, explicit : {FALSE}, billed : estimates, leeway : {leeway},
    elapsed : Elapsed, onerror_elapsed : onerror, noticed : BOOLEAN, deadline : Deadlines]

Building == pending.stage = "building"

Add(result) ==
   pending' = [pending EXCEPT !.db = result.db, !.receipts = @ \o result.receipts,
                              !.broken = @ \/ result.exc \in {"never", "ram_underflow"}]

\* MaxReceipts bounds a block, MaxActions the actions of the chain but for its onblocks
Room == /\ Len(pending.receipts) < MaxReceipts
        /\ pending.db.global_sequence - pending.db.block_num <= MaxActions

StartBlock(slot) ==
   /\ ~Building
   /\ slot <= MaxTime
   /\ pending' = [stage |-> "building", slot |-> slot, broken |-> FALSE, receipts |-> << >>,
                  db |-> start_block(db, slot, "incomplete")]
   /\ UNCHANGED <<db, time, last>>

PushTransaction(t, how) ==
   /\ Building
   /\ Room
   /\ Add(push_transaction(pending.db, t, how))
   /\ UNCHANGED <<db, time, last>>

\* the producer looks for generated transactions that are due
PushScheduledTransaction(g, how) ==
   /\ Building
   /\ Room
   /\ g.delay_until <= pending.slot
   /\ Add(push_scheduled_transaction(pending.db, g, how))
   /\ UNCHANGED <<db, time, last>>

AbortBlock ==
   /\ Building
   /\ pending' = NoBlock
   /\ UNCHANGED <<db, time, last>>

CommitBlock ==
   /\ Building
   /\ db' = finalize_block(pending.db)
   /\ time' = pending.slot
   /\ last' = [base |-> db, slot |-> pending.slot, receipts |-> pending.receipts,
               before |-> IF last = NoBlock THEN {}
                          ELSE last.before \cup {r.trx : r \in {q \in ToSet(last.receipts) : q.packed}}]
   /\ pending' = NoBlock

Next ==
   \/ \E slot \in {time + 1, time + 2} : StartBlock(slot)
   \/ /\ Building
      /\ \E t \in Inputs, how \in Clocks(pending.slot, subjective_cpu_leeway, {0}, Estimates) :
            PushTransaction(t, how)
   \/ /\ Building
      /\ \E g \in pending.db.gtos, how \in Clocks(pending.slot, 0, OnErrorElapsed, {0}) :
            PushScheduledTransaction(g, how)
   \/ AbortBlock
   \/ CommitBlock

\* a chain on which the accounts were given these limits and billed for transactions that
\* blocks of earlier versions replaced
InitWith(limits, activated, correction) ==
   /\ db = [rl |-> process_account_limit_updates(
                      [initialize_database EXCEPT
                          !.pending = limits,
                          !.usage = [a \in Accounts |-> [@[a] EXCEPT !.ram = correction[a]]]]),
            transactions |-> {}, gtos |-> {}, rows |-> [a \in Accounts |-> 0],
            correction |-> correction, preactivated |-> {}, activated |-> activated,
            global_sequence |-> 0, block_num |-> 0]
   /\ time = 0
   /\ pending = NoBlock
   /\ last = NoBlock

(***************************************************************************)
(* Properties.                                                             *)
(***************************************************************************)
Databases == {db} \cup (IF Building THEN {pending.db} ELSE {})

\* Every block a producer signs is accepted by a node that executes it again from the same
\* state with the billed times of its receipts, and leaves that node with the producer's
\* state: whatever the clock, the greylist and the black list decided on the producer is
\* either out of the block or in its receipts (apply_block of controller.cpp).
ReplayAgrees == last # NoBlock => apply_block(last.base, last) = [rejected |-> FALSE, db |-> db]

\* What an account is billed for RAM is what it pays for: its rows and its generated
\* transactions, and what it was billed for transactions replaced before REPLACE_DEFERRED;
\* and no account with a limit is above it, although the limit is only verified at the end of
\* a transaction and only for the accounts it noted (add_ram_usage, finalize,
\* set_resource_limits, remove_scheduled_transaction, on_activation<replace_deferred>).
RamSound ==
   \A d \in Databases, a \in Accounts :
      /\ d.rl.usage[a].ram = d.rows[a] + d.correction[a]
                             + GtoSize * Cardinality({g \in d.gtos : g.payer = a})
      /\ ~ram_exceeded(d.rl, a)

\* add_transaction_usage is called where the code says "Should never fail": the amount was
\* checked against a limit that is rounded the other way.  It does not, neither does the
\* refund of a RAM object, and the totals the limits are shares of are those of the accounts.
UsageNeverFails ==
   /\ Building => ~pending.broken
   /\ \A d \in Databases, k \in {"cpu", "net", "ram"} :
         d.rl.total[k] = MapThenSumSet(LAMBDA a : Positive(d.rl.limits[a][k]), Accounts)

\* No input transaction is in two blocks of a chain, or twice in one, although the list it is
\* looked up in forgets it once it has expired (record_transaction, validate_expiration,
\* clear_expired_input_transactions).
NoTransactionTwice ==
   LET packed(b) == {i \in DOMAIN b.receipts : b.receipts[i].packed}
       ids(b)    == {b.receipts[i].trx : i \in packed(b)}
       once(b, before) == Cardinality(ids(b)) = Cardinality(packed(b)) /\ ids(b) \cap before = {}
   IN last # NoBlock => once(last, last.before)
=============================================================================
