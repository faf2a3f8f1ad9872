--------------------------- MODULE MCTransactions ---------------------------
(***************************************************************************)
(* Transactions, one part at a time: how they are executed and billed      *)
(* ("execution"), who may send them ("permissions", "contracts"), and the  *)
(* protocol features that change all of this ("features"). The parts other *)
(* than the execution share the slots q1 .. q7; what a part does not use   *)
(* stays 0.                                                                *)
(***************************************************************************)
EXTENDS TransactionExecution, TLC

CONSTANT Parts

VARIABLES part, q1, q2, q3, q4, q5, q6, q7

rest == <<q3, q4, q5, q6, q7>>
slots == <<q1, q2, rest>>
Zero == q3 = 0 /\ q4 = 0 /\ q5 = 0 /\ q6 = 0 /\ q7 = 0

-----------------------------------------------------------------------------
\* Execution: transactions that are delayed, deferred, replaced, cancelled and that fail.
Trx(id, actors, cpu, delay, expiration, op) ==
    [id |-> <<id>>, actors |-> actors, max_cpu |-> cpu, delay |-> delay, expiration |-> expiration,
     net |-> 1, op |-> op, code |-> "bob", implicit |-> FALSE]
Defer(name, replace) == [op |-> "defer", sender_id |-> <<"s">>, payer |-> "alice", dtrx |-> name, replace |-> replace]
MCInputs ==
    {Trx("nop", <<"alice", "bob">>, 0, 0, 2, [op |-> "nop"]),
     Trx("later", <<"alice">>, 0, 1, 3, [op |-> "inline_self"]),
     Trx("defer", <<"alice">>, 2, 0, 4, Defer("fails", FALSE)),
     Trx("replace", <<"bob">>, 0, 0, 4, Defer("works", TRUE)),
     Trx("limits", <<"bob">>, 0, 0, 4, [op |-> "setlimits", account |-> "alice",
                                        limits |-> [cpu |-> 2, net |-> 1, ram |-> 1]]),
     Trx("cancel", <<"bob">>, 0, 0, 4, [op |-> "cancel", sender_id |-> <<"s">>]),
     Trx("feature", <<"eosio">>, 0, 0, 4, [op |-> "preactivate", feature |-> "replace_deferred"])}
MCDeferred(name) ==
    [id |-> <<name>>, actors |-> IF name = "works" THEN <<"carol">> ELSE <<"bob">>,
     max_cpu |-> IF name = "works" THEN 2 ELSE 1, delay |-> 0,
     expiration |-> 0, net |-> 0, code |-> "bob", implicit |-> FALSE,
     op |-> IF name = "works" THEN [op |-> "nop"] ELSE [op |-> "assert"]]
MCOnError(sender) == [op |-> "store", payer |-> "alice"]
MCElastic ==
    [r \in {"cpu", "net"} |->
       [target |-> 2, max |-> 4, periods |-> 2, max_multiplier |-> 4,
        contract_rate |-> [numerator |-> 1, denominator |-> 2],
        expand_rate |-> [numerator |-> 2, denominator |-> 1]]]

\* Before the features are activated alice was billed for a transaction that was replaced.
ExecutionInit ==
    LET limits == [a \in {"alice", "bob"} |-> [cpu |-> 1, net |-> 1, ram |-> 2]]
    IN  \/ InitWith(limits, {}, [a \in Accounts |-> IF a = "alice" THEN 1 ELSE 0])
        \/ InitWith(limits, {"replace_deferred", "only_bill_first_authorizer", "restrict_action_to_self"},
                    [a \in Accounts |-> 0])

-----------------------------------------------------------------------------
\* Permissions of two accounts that refer to each other, changed at once and later.
Auth(threshold, keys, accounts, waits) ==
    LET ones(s) == [i \in DOMAIN s |-> [of |-> s[i], weight |-> 1]]
    IN  [threshold |-> threshold, keys |-> ones(keys), accounts |-> ones(accounts), waits |-> ones(waits)]
Key(k) == Auth(1, <<k>>, << >>, << >>)
MCLevels ==
    << <<"alice", "active">>, <<"alice", "owner">>, <<"alice", "p">>, <<"alice", "q">>,
       <<"bob", "active">>, <<"bob", "eosio.code">>, <<"bob", "owner">>, <<"bob", "p">>,
       <<"carol", "active">>, <<"carol", "owner">> >>

Act(a, name, level, fields) == [account |-> a, name |-> name, auths |-> <<level>>] @@ fields
update(a, perm, parent, auth, by) ==
    Act("eosio", "updateauth", <<a, by>>, [of |-> a, permission |-> perm, parent |-> parent, auth |-> auth])
delete(a, perm, by) == Act("eosio", "deleteauth", <<a, by>>, [of |-> a, permission |-> perm])
link(a, code, type, req, by) ==
    Act("eosio", "linkauth", <<a, by>>, [of |-> a, code |-> code, type |-> type, requirement |-> req])
unlink(a, code, type, by) == Act("eosio", "unlinkauth", <<a, by>>, [of |-> a, code |-> code, type |-> type])
Sent(id, delay, actions) == [id |-> id, delay |-> delay, actions |-> actions]

MCPermissions ==
    {Sent("p", 0, <<update("alice", "p", "active", Auth(2, <<2>>, <<<<"alice", "q">>>>, << >>), "active")>>),
     Sent("p_later", 1, <<update("alice", "p", "active", Key(2), "active")>>),
     Sent("q", 0, <<update("alice", "q", "owner", Auth(1, << >>, <<<<"alice", "p">>, <<"bob", "eosio.code">>>>, << >>), "owner")>>),
     Sent("q_of_p", 0, <<update("alice", "q", "p", Key(1), "p")>>),
     Sent("delete_p", 0, <<delete("alice", "p", "p")>>),
     Sent("swap_p", 0, <<delete("alice", "p", "active"), update("alice", "p", "owner", Key(2), "active")>>),
     Sent("delete_by_q", 0, <<delete("alice", "p", "q")>>),
     Sent("delete_q_later", 1, <<delete("alice", "q", "owner")>>),
     Sent("active", 0, <<update("alice", "active", "owner", Auth(2, <<1>>, <<<<"bob", "active">>>>, <<1>>), "active")>>),
     Sent("either", 0, <<update("alice", "active", "owner", Auth(1, << >>, <<<<"alice", "p">>, <<"alice", "q">>>>, << >>), "owner")>>),
     Sent("link_p", 0, <<link("alice", "bob", "act", "p", "active")>>),
     Sent("link_later", 1, <<link("alice", "bob", "", "q", "active")>>),
     Sent("any", 0, <<link("alice", "bob", "act", "eosio.any", "p")>>),
     Sent("unlink", 0, <<unlink("alice", "bob", "act", "p")>>),
     Sent("cancel", 0, <<Act("eosio", "canceldelay", <<"alice", "active">>,
                             [trx_id |-> "p_later", canceling_auth |-> <<"alice", "active">>])>>)}
MCContracts ==
    {Sent("code_a", 0, <<Act("eosio", "setcode", <<"alice", "active">>, [of |-> "alice", code |-> "c"])>>),
     Sent("code_b", 0, <<Act("eosio", "setcode", <<"bob", "active">>, [of |-> "bob", code |-> "c"])>>),
     Sent("clear_b", 0, <<Act("eosio", "setcode", <<"bob", "active">>, [of |-> "bob", code |-> ""])>>),
     Sent("abi", 0, <<Act("eosio", "setabi", <<"bob", "active">>, [of |-> "bob", size |-> 1])>>),
     Sent("bob_act", 0, <<Act("bob", "act", <<"alice", "p">>, << >>)>>),
     Sent("carol", 0, <<Act("eosio", "newaccount", <<"bob", "active">>,
                            [of |-> "carol", owner |-> Key(3), active |-> Auth(1, << >>, <<<<"carol", "owner">>>>, << >>)])>>)}
MCAsks ==
    [keys : {{1}, {2}, {1, 2}}, permissions : {{}}, delay : {0}]
    \cup {[keys |-> {}, permissions |-> {<<"bob", "eosio.code">>}, delay |-> 0]}

Permissions == INSTANCE Authorization WITH
    Levels <- MCLevels, NoName <- "", Transactions <- MCPermissions \cup MCContracts, Asks <- MCAsks, max_authority_depth <- 3,
    max_transaction_delay <- 4, activated <- {"only_link_to_existing_permission"}, MaxIds <- 8,
    db <- q1, last <- q2
\* A feature sorts before what it depends on, so that the dependencies' order is put to work.
MCcodenames == [c \in {"preactivate", "replace", "nodup"} |-> IF c = "nodup" THEN {"replace"} ELSE {}]
MCdigest(c, deps) ==
    (CASE c = "preactivate" -> 90 [] c = "replace" -> 80 [] c = "nodup" -> 70)
      - 20 * Cardinality(deps) - (IF 90 \in deps THEN 1 ELSE 0)
F(c, deps, early, req, on) ==
    [codename |-> c, dependencies |-> deps, earliest |-> early, required |-> req, enabled |-> on]
MCDirectories ==
    {{},
     {F("preactivate", {}, 0, FALSE, TRUE), F("replace", {}, 3, FALSE, TRUE), F("nodup", {80}, 0, TRUE, TRUE)},
     {F("preactivate", {}, 0, FALSE, TRUE), F("nodup", {80, 90}, 0, TRUE, TRUE), F("replace", {}, 0, TRUE, TRUE)},
     {F("nodup", {}, 0, TRUE, TRUE)},
     {F("preactivate", {}, 0, FALSE, FALSE)}}

Features == INSTANCE ProtocolFeatures WITH
    codenames <- MCcodenames, Preactivator <- "preactivate", digest <- MCdigest, Directories <- MCDirectories,
    MaxBlocks <- 4,
    pfs <- q1, manager <- q2, chain <- q3, pending <- q4, to_activate <- q5, signaled <- q6, speculative <- q7

-----------------------------------------------------------------------------
Holders == [a \in {"alice", "bob"} |-> Key(IF a = "alice" THEN 1 ELSE 2)]

Init ==
    /\ part \in Parts
    /\ \/ part = "execution" /\ ExecutionInit /\ q1 = 0 /\ q2 = 0 /\ Zero
       \/ /\ part # "execution" /\ db = 0 /\ time = 0 /\ pending = 0 /\ last = 0
          /\ \/ part \in {"permissions", "contracts"} /\ Permissions!InitWith(<<"alice", "bob">>, Holders) /\ Zero
             \/ part = "features" /\ Features!Init

MCNext ==
    /\ UNCHANGED part
    /\ \/ part = "execution" /\ Next /\ UNCHANGED slots
       \/ /\ UNCHANGED vars
          /\ \/ /\ part \in {"permissions", "contracts"} /\ UNCHANGED rest
                /\ \/ \E trx \in (IF part = "permissions" THEN MCPermissions ELSE MCContracts), ask \in MCAsks :
                         Permissions!push_transaction(trx, ask)
                   \/ \E g \in q1.gtos : Permissions!push_delayed_transaction(g)
             \/ part = "features" /\ Features!Next

Spec == Init /\ [][MCNext]_<<part, vars, slots>>

-----------------------------------------------------------------------------
\* Every block a producer signs is accepted by a node that executes it again from the same state
\* with the billed times of its receipts, and leaves that node with the producer's state
\* (apply_block). What an account is billed for RAM is what it pays for and within its limit; the calls the code
\* says "Should never fail" do not; and no input transaction is in the chain twice, although the
\* list it is looked up in forgets it once it has expired.
BlocksReplay == part = "execution" => ReplayAgrees /\ RamSound /\ UsageNeverFails /\ NoTransactionTwice

\* The authority checker accepts a level only when what is provided really reaches the thresholds;
\* the tables of the native contract agree, also when delayed actions meet tables that changed;
\* and a snapshot restores the permissions.
PermissionsSound ==
    part \in {"permissions", "contracts"} =>
        Permissions!CheckerSound /\ Permissions!TablesAgree /\ Permissions!RestoresPermissions

\* A permission of an existing account is created, changed or deleted, by a transaction that is
\* not delayed, only if its signatures satisfy the permission or one above it, or the parent of a
\* new one.
OnlyByHolders == [][(part \in {"permissions", "contracts"}) => Permissions!HeldStep]_slots

\* protocol_feature_manager and the database tell the same story after any aborted block, fork
\* switch, failed block or restart; a feature is activated once and after what it depends on; and
\* a client that pages through the features sees each one once.
FeaturesSound ==
    part = "features" => Features!ManagerInStep /\ Features!DependenciesFirst /\ Features!PagesPartition

\* A block activates everything its parent pre-activated and nothing that needed it and was not;
\* and an activation an operator scheduled is given up only when the chain has it, when it is no
\* longer valid, or when it is replaced or the node restarts.
ActivationsKept == [][part = "features" => Features!NextActivates /\ Features!KeepsScheduled]_slots

\* authority_checker, "if we do not satisfy this authority, the newly used keys aren't actually
\* used": the keys that get_required_keys names are enough to sign the transaction.
RequiredKeysSuffice == part = "permissions" => Permissions!RequiredKeysSuffice

\* get_activated_protocol_features: a search by block number returns the features activated
\* between the bounds.
SearchByBlock == part = "features" => Features!SearchByBlock
=============================================================================
