-------------------------------- MODULE Cleos ---------------------------------
(***************************************************************************)
(* cleos: what a command does between a node and a wallet, and the parser  *)
(* of its command lines.                                                   *)
(***************************************************************************)
EXTENDS Integers, Sequences, FiniteSets, SequencesExt

(***************************************************************************)
(* cleos between a node and a wallet: one process per command line.  A     *)
(* command reads what it needs from the node, makes its actions, and       *)
(* push_transaction dates, signs and sends them.  Every call to a server   *)
(* may fail, and the answer to a transaction the node executed may be      *)
(* lost; the node's chain moves on, and others use it, between the calls.  *)
(*                                                                         *)
(* A command line `o` is a record of the options and positionals it gives. *)
(* The node and its contracts are modelled from how cleos uses them.       *)
(***************************************************************************)

CONSTANTS
    CommandLines,   \* the command lines
    Files,          \* what the contract directory holds: [wasm, abi]
    Accounts,       \* what the account may have at first: [votes, auth, wasm, abi]
    MaxHead, MaxCommands, MaxWeight,
    Rank            \* name -> number: the order of the names

VARIABLES
    node,           \* what the node holds
    keosd,          \* the wallet service: "absent", "down", "starting", "up"
    cl,             \* the running client
    ran             \* command lines started so far

vars == <<node, keosd, cl, ran>>

tx_expiration == 2

Sorted(s) == \A i \in 1 .. Len(s) - 1 : Rank[s[i]] < Rank[s[i + 1]]
Ascending(s) == SortSeq(s, LAMBDA a, b : Rank[a] < Rank[b])

-----------------------------------------------------------------------------
\* The actions of a command.

get_account_permissions(permission, default) == IF permission = << >> THEN <<default>> ELSE permission

Act(o, account, name, who, data) ==
    [account |-> account, name |-> name, data |-> data,
     auth |-> get_account_permissions(o.permission, <<who, "active">>)]

\* Most commands of `system` send one action of the system contract for their first positional.
System(o, name, data) == Act(o, "eosio", name, o.account, data)

create_buyram(o)      == System(o, "buyram", [payer |-> o.account, receiver |-> o.other, quant |-> o.amount])
create_buyrambytes(o) == System(o, "buyrambytes", [payer |-> o.account, receiver |-> o.other, bytes |-> o.bytes])
create_delegate(o)    == System(o, "delegatebw", [from |-> o.account, receiver |-> o.other, net |-> o.amount])

register_producer(o)    == System(o, "regproducer", [producer |-> o.account])
unregister_producer(o)  == System(o, "unregprod", [producer |-> o.account])
vote_producer_proxy(o)  == System(o, "voteproducer", [voter |-> o.account, proxy |-> o.other, producers |-> << >>])
vote_producers(o)       == System(o, "voteproducer",
                                  [voter |-> o.account, proxy |-> "", producers |-> Ascending(o.producers)])
undelegate_bandwidth(o) == System(o, "undelegatebw", [from |-> o.account, receiver |-> o.other, net |-> o.amount])
bidname(o)              == System(o, "bidname", [bidder |-> o.account, newname |-> o.other, bid |-> o.amount])
sellram(o)              == System(o, "sellram", [account |-> o.account, bytes |-> o.bytes])
claimrewards(o)         == System(o, "claimrewards", [owner |-> o.account])
regproxy(o)             == System(o, "regproxy", [proxy |-> o.account, isproxy |-> TRUE])
unregproxy(o)           == System(o, "regproxy", [proxy |-> o.account, isproxy |-> FALSE])
deposit(o)              == System(o, "deposit", [owner |-> o.account, amount |-> o.amount])
withdraw(o)             == System(o, "withdraw", [owner |-> o.account, amount |-> o.amount])
buyrex(o)               == System(o, "buyrex", [from |-> o.account, amount |-> o.amount])
unstaketorex(o)         == System(o, "unstaketorex", [owner |-> o.account, receiver |-> o.other, net |-> o.amount])
sellrex(o)              == System(o, "sellrex", [from |-> o.account, rex |-> o.amount])
cancelrexorder(o)       == System(o, "cnclrexorder", [owner |-> o.account])
rentcpu(o)              == System(o, "rentcpu", [from |-> o.account, receiver |-> o.other, payment |-> o.amount])
rentnet(o)              == System(o, "rentnet", [from |-> o.account, receiver |-> o.other, payment |-> o.amount])
fundcpuloan(o)          == System(o, "fundcpuloan", [from |-> o.account, payment |-> o.amount])
fundnetloan(o)          == System(o, "fundnetloan", [from |-> o.account, payment |-> o.amount])
defcpuloan(o)           == System(o, "defcpuloan", [from |-> o.account, amount |-> o.amount])
defnetloan(o)           == System(o, "defnetloan", [from |-> o.account, amount |-> o.amount])
mvtosavings(o)          == System(o, "mvtosavings", [owner |-> o.account, rex |-> o.amount])
mvfrsavings(o)          == System(o, "mvfrsavings", [owner |-> o.account, rex |-> o.amount])
updaterex(o)            == System(o, "updaterex", [owner |-> o.account])
consolidate(o)          == System(o, "consolidate", [owner |-> o.account])
rexexec(o)              == System(o, "rexexec", [user |-> o.account])
closerex(o)             == System(o, "closerex", [owner |-> o.account])
canceldelay(o)          ==
    [account |-> "eosio", name |-> "canceldelay", data |-> [canceling_auth |-> <<o.account, o.other>>],
     auth |-> get_account_permissions(o.permission, <<o.account, o.other>>)]

lendrex(o) == <<deposit(o), buyrex(o)>>

\* --buyram and --buy-ram-bytes exclude each other.
delegate_bandwidth(o) ==
    <<create_delegate(o)>> \o (IF o.ram = "tokens" THEN <<create_buyram(o)>>
                               ELSE IF o.ram = "bytes" THEN <<create_buyrambytes(o)>> ELSE << >>)

buyram(o) == IF o.ram = "bytes" THEN <<create_buyrambytes(o)>> ELSE <<create_buyram(o)>>

create_newaccount(o) == Act(o, "eosio", "newaccount", o.account, [creator |-> o.account, newaccount |-> o.other])

create_account(o) ==
    IF o.simple THEN <<create_newaccount(o)>>
    ELSE <<create_newaccount(o),
           IF o.ram = "tokens" THEN create_buyram(o) ELSE create_buyrambytes(o)>>
         \o (IF o.amount.value # 0 THEN <<create_delegate(o)>> ELSE << >>)

set_action_permission(o) ==
    IF o.requirement = "null"
    THEN <<Act(o, "eosio", "unlinkauth", o.account, [account |-> o.account, code |-> o.other])>>
    ELSE <<Act(o, "eosio", "linkauth", o.account,
               [account |-> o.account, code |-> o.other, requirement |-> o.requirement])>>

\* With --force-unique an empty memo becomes the nonce, which then is not added as an action.
MemoNonce(o) == o.cmd = "transfer" /\ o.force_unique /\ o.memo = ""

transfer(o, nonce) ==
    LET memo == IF MemoNonce(o) THEN nonce ELSE o.memo
        transfers == Act(o, "eosio.token", "transfer", o.account,
                         [from |-> o.account, to |-> o.other, quantity |-> o.amount, memo |-> memo])
        opens == Act(o, "eosio.token", "open", o.account, [owner |-> o.other, ram_payer |-> o.account])
    IN  IF o.pay_ram THEN <<opens, transfers>> ELSE <<transfers>>

\* propose, cancel and exec of a multi-signature: -p, or else the account given last, is needed.
multisig(o) ==
    IF o.permission = << >> /\ o.account = "" THEN << >>
    ELSE <<Act(o, "eosio.msig", o.cmd, o.account,
               [proposer |-> IF o.account = "" THEN o.permission[1][1] ELSE o.account])>>

wrap_exec(o) ==
    <<[account |-> o.other, name |-> "exec", data |-> [executer |-> o.account],
       auth |-> IF o.permission = << >> THEN <<<<o.account, "active">>, <<o.other, "active">>>>
                ELSE o.permission]>>

-----------------------------------------------------------------------------
\* What a callback comes to: actions to send, a message and no action, or an exception.
Sends(acts) == [how |-> "send", acts |-> acts]
Stops == [how |-> "stop", acts |-> << >>]
Throws == [how |-> "throw", acts |-> << >>]

\* The amount with as many decimals as the token has.
to_asset(a, decimals) == [value |-> a.value * 10 ^ (decimals - a.decimals), decimals |-> decimals]

\* The commands that turn their amount into an asset of the token contract.
Converts == {"transfer", "bidname", "delegatebw", "undelegatebw", "buyram", "newaccount"}

simple_callback(o, decimals, nonce) ==
    IF o.cmd \in Converts /\ o.amount.decimals > decimals THEN Throws
    ELSE LET c == IF o.cmd \in Converts THEN [o EXCEPT !.amount = to_asset(o.amount, decimals)] ELSE o
             acts == CASE c.cmd = "regproducer" -> <<register_producer(c)>>
                       [] c.cmd = "unregprod" -> <<unregister_producer(c)>>
                       [] c.cmd = "proxy" -> <<vote_producer_proxy(c)>>
                       [] c.cmd = "prods" -> <<vote_producers(c)>>
                       [] c.cmd = "delegatebw" -> delegate_bandwidth(c)
                       [] c.cmd = "undelegatebw" -> <<undelegate_bandwidth(c)>>
                       [] c.cmd = "bidname" -> <<bidname(c)>>
                       [] c.cmd = "buyram" -> buyram(c)
                       [] c.cmd = "sellram" -> <<sellram(c)>>
                       [] c.cmd = "claimrewards" -> <<claimrewards(c)>>
                       [] c.cmd = "regproxy" -> <<regproxy(c)>>
                       [] c.cmd = "unregproxy" -> <<unregproxy(c)>>
                       [] c.cmd = "canceldelay" -> <<canceldelay(c)>>
                       [] c.cmd = "deposit" -> <<deposit(c)>>
                       [] c.cmd = "withdraw" -> <<withdraw(c)>>
                       [] c.cmd = "buyrex" -> <<buyrex(c)>>
                       [] c.cmd = "lendrex" -> lendrex(c)
                       [] c.cmd = "unstaketorex" -> <<unstaketorex(c)>>
                       [] c.cmd = "sellrex" -> <<sellrex(c)>>
                       [] c.cmd = "cancelrexorder" -> <<cancelrexorder(c)>>
                       [] c.cmd = "rentcpu" -> <<rentcpu(c)>>
                       [] c.cmd = "rentnet" -> <<rentnet(c)>>
                       [] c.cmd = "fundcpuloan" -> <<fundcpuloan(c)>>
                       [] c.cmd = "fundnetloan" -> <<fundnetloan(c)>>
                       [] c.cmd = "defundcpuloan" -> <<defcpuloan(c)>>
                       [] c.cmd = "defundnetloan" -> <<defnetloan(c)>>
                       [] c.cmd = "mvtosavings" -> <<mvtosavings(c)>>
                       [] c.cmd = "mvfromsavings" -> <<mvfrsavings(c)>>
                       [] c.cmd = "updaterex" -> <<updaterex(c)>>
                       [] c.cmd = "consolidate" -> <<consolidate(c)>>
                       [] c.cmd = "rexexec" -> <<rexexec(c)>>
                       [] c.cmd = "closerex" -> <<closerex(c)>>
                       [] c.cmd \in {"newaccount", "account"} -> create_account(c)
                       [] c.cmd = "set action" -> set_action_permission(c)
                       [] c.cmd = "transfer" -> transfer(c, nonce)
                       [] c.cmd \in {"propose", "cancel", "exec"} -> multisig(c)
                       [] c.cmd = "wrap" -> wrap_exec(c)
         IN  IF acts = << >> THEN Throws ELSE Sends(acts)

\* The vote is replaced as a whole by the list read from the voters table and one producer more.
approve_producer(o, voted) ==
    IF \E i \in 1 .. Len(voted) : voted[i] = o.other THEN Stops
    ELSE Sends(<<System(o, "voteproducer", [voter |-> o.account, proxy |-> "",
                                            producers |-> Ascending(Append(voted, o.other))])>>)

unapprove_producer(o, voted) ==
    IF \A i \in 1 .. Len(voted) : voted[i] # o.other THEN Stops
    ELSE Sends(<<System(o, "voteproducer", [voter |-> o.account, proxy |-> "",
                                            producers |-> SelectSeq(voted, LAMBDA p : p # o.other)])>>)

NoAuthority == [threshold |-> 0, keys |-> 0, accounts |-> << >>]

create_updateauth(o, auth) == Act(o, "eosio", "updateauth", o.account, [account |-> o.account, auth |-> auth])
create_deleteauth(o)       == Act(o, "eosio", "deleteauth", o.account, [deletes |-> o.account])

\* Where actor@eosio.code stands or would stand among the accounts of an authority.
lower_bound(accounts, actor) == 1 + Cardinality({i \in 1 .. Len(accounts) : Rank[accounts[i].actor] < Rank[actor]})

add_code(auth, actor) ==
    LET i == lower_bound(auth.accounts, actor)
        has == i <= Len(auth.accounts) /\ auth.accounts[i].actor = actor
    IN  [auth EXCEPT !.accounts = IF has THEN [@ EXCEPT ![i].weight = auth.threshold]
                                  ELSE InsertAt(@, i, [actor |-> actor, weight |-> auth.threshold])]

Weight(auth, actor) ==
    IF \E i \in 1 .. Len(auth.accounts) : auth.accounts[i].actor = actor
    THEN auth.accounts[lower_bound(auth.accounts, actor)].weight
    ELSE 0

set_account_permission(o, auth) ==
    LET exists == auth # NoAuthority
        less == [auth EXCEPT !.accounts = SelectSeq(@, LAMBDA w : w.actor # o.other)]
    IN  CASE o.change = "null" -> Sends(<<create_deleteauth(o)>>)
          [] o.change = "set" -> Sends(<<create_updateauth(o, o.auth)>>)
          [] o.change = "add" /\ ~exists ->
                Sends(<<create_updateauth(o, [threshold |-> 1, keys |-> 0,
                                              accounts |-> <<[actor |-> o.other, weight |-> 1]>>])>>)
          [] o.change = "add" /\ exists /\ (Weight(auth, o.other) >= auth.threshold \/ auth.threshold > MaxWeight) -> Stops
          [] o.change = "add" /\ exists /\ Weight(auth, o.other) < auth.threshold /\ auth.threshold <= MaxWeight ->
                Sends(<<create_updateauth(o, add_code(auth, o.other))>>)
          [] o.change = "remove" /\ Weight(auth, o.other) = 0 -> Stops
          [] o.change = "remove" /\ Weight(auth, o.other) > 0 ->
                Sends(<<IF less.keys = 0 /\ less.accounts = << >> THEN create_deleteauth(o)
                        ELSE create_updateauth(o, less)>>)

\* set_code_callback and set_abi_callback: `old` is what the account has, or "unknown" when the
\* duplicate check is off or the node did not say.
create_setcode(o, wasm) == Act(o, "eosio", "setcode", o.account, [account |-> o.account, wasm |-> wasm])
create_setabi(o, abi)   == Act(o, "eosio", "setabi", o.account, [account |-> o.account, abi |-> abi])
set_code_callback(o, old) ==
    LET new == IF o.clear THEN "none" ELSE Files.wasm
    IN  IF ~o.clear /\ Files.wasm = "none" THEN Throws
        ELSE IF old = new THEN Stops ELSE Sends(<<create_setcode(o, new)>>)

set_abi_callback(o, old) ==
    LET new == IF o.clear THEN "none" ELSE Files.abi
    IN  IF ~o.clear /\ Files.abi = "none" THEN Throws
        ELSE IF old = new THEN Stops ELSE Sends(<<create_setabi(o, new)>>)

\* Both, in one transaction.
contract_callback(o, old) ==
    LET code == set_code_callback(o, old.wasm)
        abi == set_abi_callback(o, old.abi)
    IN  IF Throws \in {code, abi} THEN Throws
        ELSE IF code.acts \o abi.acts = << >> THEN Stops ELSE Sends(code.acts \o abi.acts)

-----------------------------------------------------------------------------
\* The node and its contracts, as cleos meets them.

NoTrx == [acts |-> << >>, nonces |-> << >>, exp |-> 0, ref |-> 0, sigs |-> {}]
Id(t) == [t EXCEPT !.sigs = {}]

ValidAuthority(a) ==
    /\ a.threshold > 0
    /\ Sorted([i \in 1 .. Len(a.accounts) |-> a.accounts[i].actor])
    /\ FoldLeft(LAMBDA w, e : w + e.weight, a.keys, a.accounts) >= a.threshold

\* voteproducer wants the producers in order, setcode wants code that differs.
Applies(n, act) ==
    CASE act.name = "voteproducer" -> Sorted(act.data.producers)
      [] act.name = "updateauth" -> ValidAuthority(act.data.auth)
      [] act.name = "deleteauth" -> n.auth # NoAuthority
      [] act.name = "setcode" -> act.data.wasm # n.wasm
      [] OTHER -> TRUE

Apply(n, act) ==
    CASE act.name = "voteproducer" -> [n EXCEPT !.votes = act.data.producers]
      [] act.name = "updateauth" -> [n EXCEPT !.auth = act.data.auth]
      [] act.name = "deleteauth" -> [n EXCEPT !.auth = NoAuthority]
      [] act.name = "setcode" -> [n EXCEPT !.wasm = act.data.wasm]
      [] act.name = "setabi" -> [n EXCEPT !.abi = act.data.abi]
      [] OTHER -> n

Accepts(t) ==
    /\ \A i \in 1 .. Len(node.executed) : node.executed[i].id # Id(t)
    /\ t.exp >= node.head /\ t.ref > 0 /\ t.sigs # {}
    /\ \A i \in 1 .. Len(t.acts) : Applies(node, t.acts[i])

Executes(t) == [FoldLeft(Apply, node, t.acts) EXCEPT !.executed = Append(@, [cmd |-> ran, id |-> Id(t)])]

\* What an approval of the proposal is worth.
Status(n) ==
    IF ~n.given THEN "unapproved" ELSE IF n.inval >= n.time THEN "invalidated" ELSE "approved"

-----------------------------------------------------------------------------
\* The client.

Idle == [pc |-> "idle", o |-> [cmd |-> "none"], trx |-> NoTrx, info |-> 0,
         base |-> << >>, old |-> [wasm |-> "unknown", abi |-> "unknown"],
         attempt |-> 1, seen |-> {}, shown |-> "none", outcome |-> "none"]

Done(outcome) == cl' = [cl EXCEPT !.pc = "done", !.outcome = outcome]
Goes(pc) == cl' = [cl EXCEPT !.pc = pc]

\* An exception ends the program; `push transaction` catches the first one, whatever raised it,
\* and tries once more with the transaction read through the ABIs.
Raises ==
    IF cl.o.cmd = "push transaction" /\ cl.attempt = 1
    THEN cl' = [cl EXCEPT !.attempt = 2, !.trx = cl.o.trx, !.pc = "read"]
    ELSE Done("error")

main(o) ==
    /\ cl.pc \in {"idle", "done"} /\ ran < MaxCommands
    /\ ran' = ran + 1
    /\ cl' = [Idle EXCEPT !.pc = "ensure", !.o = o, !.seen = {Status(node)}]
    /\ UNCHANGED <<node, keosd>>

\* Commands that do not need the wallet.
Walletless == {"review", "get"}

ensure_keosd_running ==
    /\ cl.pc = "ensure" /\ UNCHANGED <<node, ran>>
    /\ IF cl.o.skip_sign \/ cl.o.cmd \in Walletless \/ keosd \in {"up", "absent"}
       THEN Goes("read") /\ UNCHANGED keosd
       ELSE Goes("wait") /\ keosd' = "starting"

\* It polls for two seconds.
try_local_port ==
    /\ cl.pc = "wait" /\ UNCHANGED <<node, keosd, ran>>
    /\ \/ keosd = "up" /\ Goes("read")
       \/ keosd # "up" /\ Done("error")

Checked(o) == o.cmd \in {"code", "abi", "contract"}

\* The first call of a callback, where it makes one.
read(answers) ==
    /\ cl.pc = "read" /\ UNCHANGED <<node, keosd, ran>>
    /\ LET o == cl.o
       IN  CASE o.cmd \in {"approve", "unapprove"} ->
                    IF answers THEN cl' = [cl EXCEPT !.base = node.votes, !.pc = "callback"] ELSE Done("error")
             [] o.cmd = "set permission" /\ o.change # "null" ->
                    IF answers THEN cl' = [cl EXCEPT !.base = node.auth, !.pc = "callback"] ELSE Done("error")
             [] o.cmd = "review" ->
                    \* a failed call is taken for an old contract, whose table then is asked for
                    IF answers THEN cl' = [cl EXCEPT !.base = [given |-> node.given, time |-> node.time],
                                                     !.pc = "invals"]
                    ELSE Done("not found")
             [] o.cmd \in {"code", "contract"} /\ ~o.suppress ->
                    IF answers THEN cl' = [cl EXCEPT !.old.wasm = node.wasm,
                                                     !.pc = IF o.cmd = "code" THEN "callback" ELSE "raw_abi"]
                    ELSE cl' = [cl EXCEPT !.o.suppress = TRUE, !.pc = "callback"]
             [] o.cmd = "abi" /\ ~o.suppress -> Goes("raw_abi")
             [] o.cmd = "push transaction" ->
                    \* as it stands if it can be read, else with the ABIs of its actions
                    IF (cl.attempt = 1 /\ o.plain) \/ (cl.attempt = 2 /\ answers)
                    THEN cl' = [cl EXCEPT !.trx = o.trx, !.pc = "info"] ELSE Raises
             [] o.cmd = "sign" -> cl' = [cl EXCEPT !.trx = o.trx, !.pc = IF o.chain_id THEN "sign" ELSE "info"]
             [] OTHER -> Goes("callback")

get_raw_abi(answers) ==
    /\ cl.pc = "raw_abi" /\ UNCHANGED <<node, keosd, ran>>
    /\ cl' = IF answers THEN [cl EXCEPT !.old.abi = node.abi, !.pc = "callback"]
             ELSE [cl EXCEPT !.o.suppress = TRUE, !.pc = "callback"]

\* The answer is put together from the approvals and, asked for later, the invalidations.
review(answers) ==
    /\ cl.pc = "invals" /\ UNCHANGED <<node, keosd, ran>>
    /\ IF ~answers THEN Done("error")
       ELSE cl' = [cl EXCEPT !.pc = "done", !.outcome = "ok",
                             !.shown = IF ~cl.base.given THEN "unapproved"
                                       ELSE IF node.inval >= cl.base.time THEN "invalidated" ELSE "approved"]

\* The actions are made: their data is packed with the ABI of the contract, which is asked for,
\* as are the decimals of the token.
callback(answers) ==
    /\ cl.pc = "callback" /\ UNCHANGED <<node, keosd, ran>>
    /\ LET o == cl.o
           r == CASE o.cmd = "approve" -> approve_producer(o, cl.base)
                  [] o.cmd = "unapprove" -> unapprove_producer(o, cl.base)
                  [] o.cmd = "set permission" ->
                        set_account_permission(o, IF o.change = "null" THEN NoAuthority ELSE cl.base)
                  [] o.cmd = "code" -> set_code_callback(o, cl.old.wasm)
                  [] o.cmd = "abi" -> set_abi_callback(o, cl.old.abi)
                  [] o.cmd = "contract" -> contract_callback(o, cl.old)
                  [] OTHER -> simple_callback(o, node.decimals, <<ran>>)
       IN  IF r.how = "throw" \/ ~answers THEN Done("error")
           ELSE IF r.how = "stop" THEN Done("stopped")
           ELSE cl' = [cl EXCEPT !.trx = [NoTrx EXCEPT !.acts = r.acts], !.pc = "info"]

-----------------------------------------------------------------------------
\* push_transaction, one call after the other.

AfterContent == IF cl.o.skip_sign THEN (IF cl.o.dont_broadcast THEN "print" ELSE "send") ELSE "keys"

\* A transaction that is signed already keeps its content; another gets its expiration from the
\* head and, by default, its reference from the last irreversible block (ref > 0: a known block).  It also
\* gets the limits and the delay of the command line, which are the same in every attempt.
redates(t, head) ==
    [t EXCEPT !.exp = head + tx_expiration, !.ref = head + 1,
              !.nonces = IF cl.o.force_unique /\ ~MemoNonce(cl.o) THEN Append(@, <<ran, cl.attempt>>) ELSE @]

fill_content(t, head) ==
    IF t.sigs # {} THEN t
    ELSE [t EXCEPT !.exp = head + tx_expiration, !.ref = head + 1,
                   !.nonces = IF cl.o.force_unique /\ ~MemoNonce(cl.o) THEN Append(@, <<ran, cl.attempt>>) ELSE @]

get_info(answers) ==
    /\ cl.pc = "info" /\ UNCHANGED <<node, keosd, ran>>
    /\ IF ~answers THEN Raises
       ELSE IF cl.o.cmd = "sign" THEN Goes("sign")
       ELSE IF cl.trx.sigs = {} /\ cl.o.ref # "default"
            THEN cl' = [cl EXCEPT !.info = node.head, !.pc = "block"]
            ELSE cl' = [cl EXCEPT !.info = node.head, !.pc = AfterContent,
                                  !.trx = fill_content(cl.trx, node.head)]

\* --ref-block
get_block(answers) ==
    /\ cl.pc = "block" /\ UNCHANGED <<node, keosd, ran>>
    /\ IF ~answers \/ cl.o.ref = "unknown" THEN Raises
       ELSE cl' = [cl EXCEPT !.pc = AfterContent,
                             !.trx = [fill_content(cl.trx, cl.info) EXCEPT !.ref = 1]]

\* The wallet's public keys, then the node's choice among them.
determine_required_keys(answers) ==
    /\ cl.pc = "keys" /\ UNCHANGED <<node, keosd, ran>>
    /\ IF ~answers \/ keosd # "up" THEN Raises ELSE Goes("sign")

\* `sign` may be given the private key.
sign_transaction(answers) ==
    /\ cl.pc = "sign" /\ UNCHANGED <<node, keosd, ran>>
    /\ IF (~answers \/ keosd # "up") /\ ~(cl.o.cmd = "sign" /\ cl.o.key) THEN Raises
       ELSE cl' = [cl EXCEPT !.trx.sigs = @ \union {"key"},
                             !.pc = IF cl.o.dont_broadcast THEN "print" ELSE "send"]

\* The node may be out of reach, refuse the transaction, or execute it; then its answer may be
\* lost.
send_transaction(reached, answers) ==
    /\ cl.pc = "send" /\ UNCHANGED <<keosd, ran>>
    /\ IF reached /\ Accepts(cl.trx)
       THEN node' = Executes(cl.trx) /\ (IF answers THEN Done("ok") ELSE Raises)
       ELSE UNCHANGED node /\ Raises

print_transaction == cl.pc = "print" /\ Done("ok") /\ UNCHANGED <<node, keosd, ran>>

-----------------------------------------------------------------------------
\* The others.

Running == cl.pc \notin {"idle", "done"}

\* A block; the approver approves, takes the approval back or invalidates all of them.
Others ==
    /\ Running /\ UNCHANGED <<keosd, ran>>
    /\ \/ node.head < MaxHead /\ node' = [node EXCEPT !.head = @ + 1]
       \/ cl.o.cmd = "review" /\ ~node.given /\ node' = [node EXCEPT !.given = TRUE, !.time = node.head]
       \/ cl.o.cmd = "review" /\ node.given /\ node' = [node EXCEPT !.given = FALSE, !.time = node.head]
       \/ cl.o.cmd = "review" /\ node.inval < node.head /\ node' = [node EXCEPT !.inval = node.head]
    /\ cl' = [cl EXCEPT !.seen = @ \union {Status(node')}]

\* keosd comes up, ends, or is stopped.
KeosdChanges ==
    /\ Running /\ UNCHANGED <<node, cl, ran>>
    /\ \/ keosd = "starting" /\ keosd' \in {"up", "down"}
       \/ keosd = "up" /\ keosd' = "down"

Step ==
    \/ ensure_keosd_running
    \/ try_local_port
    \/ \E answers \in BOOLEAN :
          \/ read(answers)
          \/ get_raw_abi(answers)
          \/ review(answers)
          \/ callback(answers)
          \/ get_info(answers)
          \/ get_block(answers)
          \/ determine_required_keys(answers)
          \/ sign_transaction(answers)
          \/ \E reached \in BOOLEAN : send_transaction(reached, answers)
    \/ print_transaction

Init ==
    /\ node \in {[head |-> 1, votes |-> a.votes, auth |-> a.auth, wasm |-> a.wasm, abi |-> a.abi,
                  decimals |-> 1, executed |-> << >>, given |-> FALSE, time |-> 0, inval |-> 0] : a \in Accounts}
    /\ keosd \in {"absent", "down", "up"}
    /\ cl = Idle
    /\ ran = 0

Next ==
    \/ \E o \in CommandLines : main(o)
    \/ Step
    \/ Others
    \/ KeosdChanges

Spec == Init /\ [][Next]_vars /\ WF_vars(Step)

-----------------------------------------------------------------------------
Issued(n) == {i \in 1 .. Len(node.executed) : node.executed[i].cmd = n}

\* One command line, one transaction on the chain, however its calls fail and are repeated.  The
\* exception is `push transaction` of an unsigned transaction: when the answer to its first attempt
\* is lost, the second, which only was to read the transaction through the ABIs, gives it a new
\* expiration and reference block and may execute it once more.  A signed one keeps its content.
IssuedOnce ==
    Cardinality(Issued(ran)) <=
        IF cl.o.cmd = "push transaction" /\ cl.o.trx.sigs = {} THEN cl.attempt ELSE 1

\* main.cpp:210: only --force-unique removes "any protections against accidently issuing the same
\* transaction multiple times".  The code does not keep this: see IssuedOnce.
ProtectedFromRepeats == ~(cl.o.cmd # "none" /\ ~cl.o.force_unique /\ Cardinality(Issued(ran)) > 1)

\* The exit status: what was to be sent is on the chain exactly when the command reports success,
\* but for an answer that was lost; --dont-broadcast and an early message send nothing.
ReportsTruly ==
    cl.pc = "done" =>
       /\ (cl.outcome = "ok" /\ ~cl.o.dont_broadcast /\ cl.o.cmd \notin {"review", "get"}) => Issued(ran) # {}
       /\ (cl.o.dont_broadcast \/ cl.outcome \in {"stopped", "not found"}) => Issued(ran) = {}

\* A signed transaction is sent as it was given.
SignedUntouched ==
    (cl.o.cmd \in {"push transaction", "sign"} /\ cl.o.trx.sigs # {} /\ cl.trx # NoTrx) => Id(cl.trx) = Id(cl.o.trx)

Elements(s) == {s[i] : i \in 1 .. Len(s)}

\* approve and unapprove, which replace the list of votes they read, change one producer and leave
\* a list the system contract takes.
VotesKept ==
    /\ Sorted(node.votes)
    /\ (cl.o.cmd = "approve" /\ Issued(ran) # {}) => Elements(node.votes) = Elements(cl.base) \union {cl.o.other}
    /\ (cl.o.cmd = "unapprove" /\ Issued(ran) # {}) => Elements(node.votes) = Elements(cl.base) \ {cl.o.other}

\* --add-code makes the contract able to act alone and takes nothing from the others;
\* --remove-code takes it out.
CodePermission ==
    (cl.o.cmd = "set permission" /\ Issued(ran) # {}) =>
       LET others(a) == SelectSeq(a.accounts, LAMBDA w : w.actor # cl.o.other)
       IN  /\ cl.o.change = "add" =>
                 /\ Weight(node.auth, cl.o.other) >= node.auth.threshold
                 /\ others(node.auth) = others(cl.base) /\ node.auth.keys = cl.base.keys
           /\ cl.o.change = "remove" =>
                 /\ Weight(node.auth, cl.o.other) = 0
                 /\ others(node.auth) = others(cl.base)

\* set code, set abi and set contract leave the account with the files, also when one of the two
\* was there already and the node refuses to set it again.
ContractPublished ==
    (cl.pc = "done" /\ Checked(cl.o) /\ cl.outcome \in {"ok", "stopped"} /\ ~cl.o.dont_broadcast) =>
       /\ cl.o.cmd \in {"code", "contract"} => node.wasm = (IF cl.o.clear THEN "none" ELSE Files.wasm)
       /\ cl.o.cmd \in {"abi", "contract"} => node.abi = (IF cl.o.clear THEN "none" ELSE Files.abi)

\* The node refuses no transaction of these commands because of what they read.
NotRefused ==
    (cl.pc = "send"
     /\ (cl.o.cmd \in {"approve", "unapprove", "code", "contract"} \/ (cl.o.cmd = "set permission" /\ cl.o.change = "add"))
     /\ (Checked(cl.o) => ~cl.o.suppress) /\ cl.trx.exp >= node.head /\ cl.trx.sigs # {}) => Accepts(cl.trx)

\* `multisig review` asks for approvals and invalidations one after the other; an approval it shows
\* as given, or as missing, was so at some moment while it ran.
ReviewTrue == (cl.pc = "done" /\ cl.shown \in {"approved", "unapproved"}) => cl.shown \in cl.seen

ClientSound ==
    IssuedOnce /\ ReportsTruly /\ SignedUntouched /\ VotesKept /\ CodePermission
    /\ ContractPublished /\ NotRefused /\ ReviewTrue

\* Every command ends, whatever fails: the wait for keosd is bounded.
CommandEnds == Running ~> ~Running

-----------------------------------------------------------------------------

(***************************************************************************)
(* The command line parser of cleos (CLI11.hpp), as cleos uses it: a tree  *)
(* of sub-commands with flags, options and positionals, several of which   *)
(* may be chosen on one line, and no option groups, configuration files,   *)
(* environment variables, fall-through or extras.  The words are taken one *)
(* by one by the command parsed last, which may hand them up to its        *)
(* parents; then every option's values are checked and assigned, the       *)
(* requirements are verified, and only then do the commands run.           *)
(*                                                                         *)
(* A word is a record: its kind k, its name n, the value v written in the  *)
(* same word (--name=v, -nv) or "", and its whole text t.                  *)
(***************************************************************************)

CONSTANTS
    Trees,      \* what a program declares: records sub, parent, needs_sub, opt
    Lines,      \* command lines: sequences of words
    Words,      \* the words they are made of, and those that splitting one may leave
    Numbers,    \* texts that are numbers the variables hold
    Booleans,   \* texts that are truth values
    Bracketed   \* texts of the form [a,b]: the texts between the commas

VARIABLES
    tree,       \* the declared commands and options
    line,       \* the words given
    p,          \* the parser: args, stack, parsed, chosen, results, missing
    phase,      \* what App::parse does next
    error,      \* the exception it ended with, or "none"
    assigned,   \* option -> what its variable was given
    called         \* the callbacks that ran, in order

line_vars == <<tree, line, p, phase, error, assigned, called>>

Apps == DOMAIN tree.sub
Opts(a) == ToSet(tree.opt[a])
AllOpts == UNION {Opts(a) : a \in Apps}
Ids == {o.id : o \in AllOpts}
Subs(a) == ToSet(tree.sub[a])
Main == "main"

RECURSIVE Ancestors(_)
Ancestors(a) == IF a = Main THEN {Main} ELSE {a} \cup Ancestors(tree.parent[a])

-----------------------------------------------------------------------------
(* Declaring options and sub-commands. *)

\* The number of values of each kind of option: a flag takes none, a vector as many as there
\* are, expected(0,1) at most one.
Unlimited == 1000
expected_min(o) == IF o.kind \in {"flag", "maybe"} THEN 0 ELSE 1
expected_max(o) == CASE o.kind = "flag" -> 0 [] o.kind = "list" -> Unlimited [] OTHER -> 1
allow_extra_args(o) == o.kind = "list"

matching_name(o, other) ==
    \/ o.s # "" /\ o.s = other.s
    \/ o.l # "" /\ o.l = other.l

\* add_option refuses a name an earlier option has.
OptionAlreadyAdded(a) ==
    \E i, j \in 1..Len(tree.opt[a]) : i < j /\ matching_name(tree.opt[a][i], tree.opt[a][j])

\* add_subcommand refuses a name used beside it.
compare_subcommand_names(a) ==
    \E i, j \in 1..Len(tree.sub[a]) : i < j /\ tree.sub[a][i] = tree.sub[a][j]

\* At most one positional may be without limit, required ones excepted.
validate(a) ==
    LET unlimited == {o \in Opts(a) : o.pos /\ o.s = "" /\ o.l = "" /\ expected_max(o) = Unlimited}
    IN  Cardinality(unlimited) > 1 => Cardinality({o \in unlimited : ~o.req}) <= 1

-----------------------------------------------------------------------------
(* Reading one word. *)

Top == Last(p.stack)
Count(q, o) == Len(q.results[o.id])
NoApp == "no command"

find_subcommand(q, a, w, ignore_used) ==
    LET found == {b \in Subs(a) : w.k = "word" /\ b = w.n /\ (ignore_used => q.parsed[b] = 0)}
    IN  IF found = {} THEN NoApp ELSE CHOOSE b \in found : TRUE

valid_subcommand(q, a, w, ignore_used) ==
    \E b \in Ancestors(a) : find_subcommand(q, b, w, ignore_used) # NoApp

Digits == {"0", "1", "2", "3", "4", "5", "6", "7", "8", "9"}

recognize(q, a, w, ignore_used) ==
    CASE w.k = "mark" -> "mark"
      [] w.k = "term" -> IF a = Main THEN "none" ELSE "terminator"
      [] w.k = "word" /\ valid_subcommand(q, a, w, ignore_used) -> "subcommand"
      [] w.k = "long" -> "long"
      [] w.k = "short" -> IF w.n \in Digits /\ \A o \in Opts(a) : o.s # w.n THEN "none" ELSE "short"
      [] OTHER -> "none"

\* A vector written in one word is taken apart.
add_result(o, text) == IF allow_extra_args(o) /\ text \in DOMAIN Bracketed THEN Bracketed[text] ELSE <<text>>

Add(q, o, text) == [q EXCEPT !.results[o.id] = @ \o add_result(o, text)]
Pop(q) == [q EXCEPT !.args = Tail(@)]
PopStack(q) == [q EXCEPT !.stack = Front(@)]
move_to_missing(q, a, w) == [q EXCEPT !.missing[a] = Append(@, w)]

RECURSIVE Sum(_)
Sum(S) == IF S = {} THEN 0 ELSE LET x == CHOOSE x \in S : TRUE IN x[2] + Sum(S \ {x})

count_remaining_positionals(q, a) ==
    Sum({<<o.id, expected_min(o) - Count(q, o)>> :
            o \in {o \in Opts(a) : o.pos /\ o.req /\ Count(q, o) < expected_min(o)}})

has_remaining_positionals(q, a) == \E o \in Opts(a) : o.pos /\ Count(q, o) < expected_min(o)

\* A command begins: it reads the words until one is not for it.
Enter(q, b) == [q EXCEPT !.stack = Append(@, [app |-> b, only |-> FALSE]), !.parsed[b] = @ + 1]

\* The first positional that still takes a word; else a command given before, here or above; else
\* the word is left over.  The word goes up when the command below the parent is known there.
parse_positional(q, a, w) ==
    LET takes == {i \in 1..Len(tree.opt[a]) :
                    LET o == tree.opt[a][i]
                    IN  o.pos /\ (Count(q, o) < expected_min(o) \/ allow_extra_args(o))}
        again == find_subcommand(q, a, w, FALSE)
        above == IF a = Main THEN NoApp ELSE find_subcommand(q, tree.parent[a], w, FALSE)
    IN  IF takes # {}
        THEN Pop(Add(q, tree.opt[a][CHOOSE i \in takes : \A j \in takes : i <= j], w.t))
        ELSE IF again # NoApp THEN Enter(Pop(q), again)
        ELSE IF above # NoApp THEN PopStack(q)
        ELSE Pop(move_to_missing(q, a, w))

parse_subcommand(q, a, w) ==
    LET b == find_subcommand(q, a, w, TRUE)
    IN  IF count_remaining_positionals(q, a) > 0 THEN parse_positional(q, a, w)
        ELSE IF b # NoApp THEN Enter([Pop(q) EXCEPT !.chosen[a] = Append(@, b)], b)
        ELSE PopStack(q)

\* The words behind an option that it takes: the minimum, whatever they are, then those that are
\* neither commands nor options, as long as the required positionals still have enough words.
RECURSIVE Gather(_, _, _, _, _)
Gather(q, a, o, collected, enough) ==
    LET w == Head(q.args)
        more == Gather(Pop(Add(q, o, w.t)), a, o, collected + Len(add_result(o, w.t)), enough)
    IN  IF q.args = << >> THEN [q |-> q, collected |-> collected]
        ELSE IF collected < expected_min(o) THEN more
        ELSE IF /\ collected < expected_max(o) \/ allow_extra_args(o)
                /\ recognize(q, a, w, FALSE) = "none"
                /\ enough < Len(q.args)
        THEN more
        ELSE [q |-> q, collected |-> collected]

\* Whatever word ends an unlimited list is eaten.
EatNext(q, a) == IF q.args # << >> THEN Pop(q) ELSE q

\* "--" ends an unlimited list and is eaten.
EatMark(q, a) ==
    IF q.args # << >> /\ Head(q.args).k = "mark" THEN Pop(q) ELSE q

\* The rest of a bundle of flags is read as a word of its own.
Unbundle(q, rest) ==
    IF rest = "" THEN q
    ELSE [q EXCEPT !.args = <<CHOOSE w \in Words : w.k = "short" /\ w.n = rest /\ w.v = "">> \o @]

\* A result that is not a result is thrown as an error.
parse_found(q, a, o, w) ==
    LET q1 == IF expected_max(o) = 0 THEN Add(q, o, IF w.k = "long" /\ w.v # "" THEN w.v ELSE "true")
              ELSE IF w.v # "" THEN Add(q, o, w.v) ELSE q
        inline == IF expected_max(o) # 0 /\ w.v # "" THEN Len(add_result(o, w.v)) ELSE 0
        g == Gather(q1, a, o, inline, count_remaining_positionals(q1, a))
        optional == expected_max(o) > inline \/ allow_extra_args(o)
        q2 == IF optional THEN EatMark(g.q, a) ELSE g.q
        q3 == IF expected_min(o) = 0 /\ expected_max(o) > 0 /\ g.collected = 0 THEN Add(q2, o, "") ELSE q2
    IN  [q |-> Unbundle(q3, IF expected_max(o) = 0 /\ w.k = "short" THEN w.v ELSE ""),
         error |-> IF g.collected < expected_min(o) THEN "ArgumentMismatch" ELSE "none"]

parse_arg(q, a, w) ==
    LET named == {o \in Opts(a) : IF w.k = "long" THEN o.l = w.n ELSE o.s = w.n}
    IN  IF named = {} THEN [q |-> Pop(move_to_missing(q, a, w)), error |-> "none"]
        ELSE parse_found(Pop(q), a, CHOOSE o \in named : TRUE, w)

\* After "--" everything is positional, in the command that read it.
positional_mark(q, a, w) ==
    LET q1 == [Pop(q) EXCEPT !.stack[Len(q.stack)].only = TRUE]
    IN  IF ~has_remaining_positionals(q, a) /\ a # Main THEN PopStack(q1)
        ELSE move_to_missing(q1, a, w)

Read(q) == p' = q /\ UNCHANGED <<tree, line, phase, error, assigned, called>>
Throw(what) == error' = what /\ phase' = "done"

parse_single ==
    /\ phase = "parse" /\ p.args # << >>
    /\ LET a == Top.app
           w == Head(p.args)
           class == IF Top.only THEN "none" ELSE recognize(p, a, w, TRUE)
       IN  \/ class = "mark" /\ Read(positional_mark(p, a, w))
           \/ class = "terminator" /\ Read(PopStack(Pop(p)))
           \/ class = "subcommand" /\ Read(parse_subcommand(p, a, w))
           \/ class = "none" /\ Read(parse_positional(p, a, w))
           \/ /\ class \in {"long", "short"}
              /\ LET r == parse_arg(p, a, w)
                 IN  /\ p' = r.q
                     /\ IF r.error = "none" THEN UNCHANGED <<phase, error>> ELSE Throw(r.error)
                     /\ UNCHANGED <<tree, line, assigned, called>>

-----------------------------------------------------------------------------
(* What follows the last word. *)

Then(next) == phase' = next /\ UNCHANGED error

\* App::parse: the tree is checked before a word is read.
parse ==
    /\ phase = "start"
    /\ IF \E a \in Apps : OptionAlreadyAdded(a) \/ compare_subcommand_names(a) THEN Throw("ConstructionError")
       ELSE IF \E a \in Apps : ~validate(a) THEN Throw("InvalidError")
       ELSE Then("parse")
    /\ UNCHANGED <<tree, line, p, assigned, called>>

words_done ==
    /\ phase = "parse" /\ p.args = << >>
    /\ Then("callbacks")
    /\ UNCHANGED <<tree, line, p, assigned, called>>

\* The options in the order they are processed: a command's before its sub-commands'.
RECURSIVE OptionOrder(_)
OptionOrder(as) ==
    IF as = << >> THEN << >>
    ELSE tree.opt[Head(as)] \o OptionOrder(tree.sub[Head(as)]) \o OptionOrder(Tail(as))

\* Too many values, unless the last one counts (flags).
reduce_results(o, r) ==
    IF o.kind = "flag" THEN [values |-> <<Last(r)>>, error |-> "none"]
    ELSE [values |-> r, error |-> IF Len(r) > expected_max(o) THEN "ArgumentMismatch" ELSE "none"]

\* An empty text is the default value of a type that is not text.
lexical_cast(o, text) ==
    CASE o.kind = "flag" -> text \in Booleans
      [] o.kind = "number" -> text = "" \/ text \in Numbers
      [] OTHER -> TRUE

run_callback_of(o, r) ==
    LET reduced == reduce_results(o, r)
    IN  IF reduced.error # "none" THEN reduced
        ELSE IF \A i \in 1..Len(reduced.values) : lexical_cast(o, reduced.values[i]) THEN reduced
        ELSE [reduced EXCEPT !.error = "ConversionError"]

\* Every option that was given assigns its variable; the first that cannot ends the parse, after
\* the ones before it were assigned.
RECURSIVE Assign(_, _)
Assign(os, values) ==
    IF os = << >> THEN [values |-> values, error |-> "none"]
    ELSE LET o == Head(os)
             r == run_callback_of(o, p.results[o.id])
         IN  IF Count(p, o) = 0 THEN Assign(Tail(os), values)
             ELSE IF r.error # "none" THEN [values |-> values, error |-> r.error]
             ELSE Assign(Tail(os), [values EXCEPT ![o.id] = r.values])

Assigned(r) ==
    /\ assigned' = r.values
    /\ IF r.error = "none" THEN Then("help") ELSE Throw(r.error)

process_callbacks ==
    /\ phase = "callbacks"
    /\ Assigned(Assign(OptionOrder(<<Main>>), assigned))
    /\ UNCHANGED <<tree, line, p, called>>

HelpGiven(a) == \E o \in Opts(a) : o.help /\ Count(p, o) > 0

\* The last commands of the chains of chosen commands ask for help when they or one above them
\* were asked to.
RECURSIVE process_help_flags(_, _)
process_help_flags(a, trigger) ==
    LET t == trigger \/ HelpGiven(a)
    IN  IF p.chosen[a] # << >> THEN \E b \in ToSet(p.chosen[a]) : process_help_flags(b, t)
        ELSE t

help ==
    /\ phase = "help"
    /\ IF process_help_flags(Main, FALSE) THEN Throw("CallForHelp") ELSE Then("requirements")
    /\ UNCHANGED <<tree, line, p, assigned, called>>

\* A required option without a value, an option without the one it needs or beside the one it
\* excludes, a command without the sub-command it requires; then the chosen sub-commands.
RECURSIVE process_requirements(_)
process_requirements(a) ==
    /\ \A o \in Opts(a) :
        /\ o.req => Count(p, o) > 0
        /\ Count(p, o) > 0 => \A id \in o.needs : Len(p.results[id]) > 0
        /\ Count(p, o) > 0 => \A id \in o.excludes : Len(p.results[id]) = 0
    /\ a \in tree.needs_sub => p.chosen[a] # << >>
    /\ \A b \in Subs(a) : p.parsed[b] > 0 => process_requirements(b)

requirements ==
    /\ phase = "requirements"
    /\ IF process_requirements(Main) THEN Then("extras") ELSE Throw("RequiredError")
    /\ UNCHANGED <<tree, line, p, assigned, called>>

LeftOver(a) == \E i \in 1..Len(p.missing[a]) : p.missing[a][i].k # "mark"

RECURSIVE process_extras(_)
process_extras(a) ==
    /\ ~LeftOver(a)
    /\ \A b \in Subs(a) : p.parsed[b] > 0 => process_extras(b)

extras ==
    /\ phase = "extras"
    /\ IF process_extras(Main) THEN Then("run") ELSE Throw("ExtrasError")
    /\ UNCHANGED <<tree, line, p, assigned, called>>

\* A command runs after the sub-commands chosen in it.
RECURSIVE run_callback(_)
run_callback(as) ==
    IF as = << >> THEN << >>
    ELSE run_callback(p.chosen[Head(as)]) \o <<Head(as)>> \o run_callback(Tail(as))

\* ensure_keosd_running comes before the commands.
run ==
    /\ phase = "run"
    /\ called' = <<"parse complete">> \o run_callback(<<Main>>)
    /\ Then("done")
    /\ UNCHANGED <<tree, line, p, assigned>>

LineInit ==
    /\ tree \in Trees
    /\ line \in Lines
    /\ p = [args |-> line, stack |-> <<[app |-> Main, only |-> FALSE]>>,
            parsed |-> [a \in Apps |-> IF a = Main THEN 1 ELSE 0],
            chosen |-> [a \in Apps |-> << >>], results |-> [id \in Ids |-> << >>],
            missing |-> [a \in Apps |-> << >>]]
    /\ phase = "start" /\ error = "none"
    /\ assigned = [id \in Ids |-> << >>]
    /\ called = << >>

LineNext == parse \/ parse_single \/ words_done \/ process_callbacks \/ help \/ requirements \/ extras \/ run

LineSpec == LineInit /\ [][LineNext]_line_vars /\ WF_line_vars(LineNext)

-----------------------------------------------------------------------------
Occurrences(t, s) == Cardinality({i \in 1..Len(s) : s[i] = t})
Texts(words) == [i \in 1..Len(words) |-> words[i].t]
Kept(t) ==
    Sum({<<id, Occurrences(t, p.results[id])>> : id \in Ids})
    + Sum({<<a, Occurrences(t, Texts(p.missing[a]))>> : a \in Apps})
    + (IF t \in Apps \ {Main} THEN p.parsed[t] ELSE 0)
    + Occurrences(t, Texts(p.args))

\* The texts of words that no other word holds in itself.
Plain == {w.t : w \in {w \in Words : w.k = "word"}}
         \ (DOMAIN Bracketed \cup UNION {ToSet(Bracketed[b]) : b \in DOMAIN Bracketed}
            \cup {w.v : w \in Words} \cup {"true"})

\* No word of the line is lost or used twice, whichever of the commands below and above read it:
\* it is still to be read, the value of one option, the name of a command, or left over.
WordsConserved == \A t \in Plain : Occurrences(t, Texts(line)) = Kept(t)

\* A line is carried out as a whole or not at all: nothing runs after an error, and when the
\* commands run each of them has its required values assigned and no word is left over.
AllOrNothing ==
    /\ called # << >> => error = "none"
    /\ called # << >> => \A a \in ToSet(called) \cap Apps :
            /\ \A o \in Opts(a) : o.req => assigned[o.id] # << >>
            /\ a \in tree.needs_sub => \E b \in Subs(a) : b \in ToSet(called)
            /\ ~LeftOver(a)

\* Every command that read words runs, once, after its sub-commands.
RunsInOrder ==
    called # << >> => \A a \in Apps : p.parsed[a] > 0 =>
        /\ Occurrences(a, called) = 1
        /\ \A b \in Subs(a) : p.parsed[b] > 0 =>
             \E i, j \in 1..Len(called) : i < j /\ called[i] = b /\ called[j] = a

\* An option that takes one value has at most one, and it is one the line gave it.
AssignedOnce ==
    called # << >> => \A o \in AllOpts : assigned[o.id] # << >> =>
        /\ o.kind \in {"text", "number", "maybe"} => Len(p.results[o.id]) = 1
        /\ o.kind = "number" => assigned[o.id][1] \in Numbers \cup {""}

\* The parse ends, whatever the line.
ParseEnds == <>(phase = "done")

\* "repeat this option to pass multiple headers": the header option given twice is not what a
\* line is refused for.  The code does not keep this: the option takes one value.
HeadersRepeat ==
    error = "ArgumentMismatch" /\ p.args = << >> /\ Len(p.results.header) > 1
      => \E o \in AllOpts : o.id # "header" /\ Count(p, o) > 0 /\ run_callback_of(o, p.results[o.id]).error # "none"
=============================================================================
