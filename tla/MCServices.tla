----------------------------- MODULE MCServices -----------------------------
(***************************************************************************)
(* The services and tools around the chain, one at a time: the http plugin *)
(* and its unix socket, the wallets of keosd, the copies of chain data     *)
(* that the mongo, account query and history plugins keep, the start of a  *)
(* node, the calls of the chain API, the ABI serializer, cleos, the parser *)
(* of its command line, and the launcher. The parts have no variables in   *)
(* common, so they share the slots s1 .. s13; a slot that a part does not  *)
(* use stays 0.                                                            *)
(***************************************************************************)
EXTENDS Integers, Sequences, TLC

CONSTANT Parts      \* the parts checked

VARIABLES part, s1, s2, s3, s4, s5, s6, s7, s8, s9, s10, s11, s12, s13

\* The slots from the n-th on.
From10 == <<s10, s11, s12, s13>>
From9 == <<s9, From10>>
From8 == <<s8, From9>>
From7 == <<s7, From8>>
From6 == <<s6, From7>>
From5 == <<s5, From6>>
From3 == <<s3, s4, From5>>
all == <<part, s1, s2, From3>>

Zero10 == s10 = 0 /\ s11 = 0 /\ s12 = 0 /\ s13 = 0
Zero9 == s9 = 0 /\ Zero10
Zero8 == s8 = 0 /\ Zero9
Zero7 == s7 = 0 /\ Zero8
Zero6 == s6 = 0 /\ Zero7
Zero5 == s5 = 0 /\ Zero6
Zero3 == s3 = 0 /\ s4 = 0 /\ Zero5

-----------------------------------------------------------------------------
MCOptions == [http : {TRUE}, https : {"off", "on", "no_cert"}, mb : {1, 4}, host_checked : BOOLEAN]

Http == INSTANCE HttpPlugin WITH
    Requests <- {"a", "b"}, body <- [a |-> 3, b |-> 2], response <- [a |-> 2, b |-> 5],
    Options <- MCOptions, Mega <- 4, Word <- 16,
    Servers <- {"x", "y", "z"},
    config <- s1, req <- s2, bytes <- s3, running <- s4, endpoint <- s5, path <- s6, overlapped <- s7

Wallets == INSTANCE WalletManager WITH
    Keosds <- {"x", "y"}, Names <- {"w"}, Keys <- {"k", "l"}, MaxPasswords <- 2,
    file <- s1, procs <- s2, wallets <- s3, password <- s4, acked <- s5, generated <- s6, lock_path <- s7, raced <- s8

\* One script has a fork at number 5, the other changes ABIs and keys.
Trx(t, r) == [sig |-> "trx", id |-> t, receiver |-> r]
Act(t, act, a, x) ==
    [sig |-> "trace", id |-> t, receiver |-> "eosio", act |-> act, account |-> a, keys |-> {x}, abi |-> x,
     executed |-> TRUE, in_block |-> TRUE]
Call(t, r) == [Act(t, "call", r, 0) EXCEPT !.receiver = r]
Blk(i, n, cs) == [sig |-> "block", id |-> i, num |-> n, contracts |-> cs]
Lib(i, n, cs, ts) == [sig |-> "lib", id |-> i, num |-> n, contracts |-> cs, trxs |-> ts]
MCScripts ==
    {<<Trx("t1", "alice"), Blk("b5", 5, {"alice"}), Trx("t1", "alice"), Blk("a5", 5, {"alice"}),
       Lib("a5", 5, {"alice"}, {"t1"}), Blk("a6", 6, {}), Lib("a6", 6, {}, {})>>,
     <<Act("t1", "newaccount", "alice", 1), Act("t2", "setabi", "bob", 1), Trx("t2", "bob"), Act("t3", "setabi", "bob", 3),
       Act("t4", "updateauth", "alice", 4), Act("t5", "deleteauth", "alice", 4), Trx("t3", "alice")>>,
     <<Act("t2", "setabi", "bob", 1), Call("t4", "bob"), Act("t3", "setabi", "alice", 3), Blk("a5", 5, {"alice", "bob"}),
       Act("t5", "setabi", "bob", 5), Lib("a5", 5, {"alice", "bob"}, {})>>}
MCStoring ==
    {[store |-> st, via_num |-> v, start |-> b, producer |-> FALSE, filter |-> {"alice", "bob", "eosio"},
      cache_size |-> IF v THEN 1 ELSE 2] :
        st \in {{"blocks", "states", "trx", "traces"}, {"states", "traces"}}, v \in BOOLEAN, b \in {0, 6}}

Mongo == INSTANCE MongoDb WITH
    Scripts <- MCScripts, Configs <- MCStoring, MaxFailures <- 1,
    config <- s1, script <- s2, emitted <- s3, queues <- s4, batch <- s5, pc <- s6, idle <- s7, done <- s8,
    reached <- s9, db <- s10, cache <- s11, failures <- s12, handled <- s13

Upd(p, k) == [op |-> "update", perm |-> p, key |-> k]
Del(p) == [op |-> "delete", perm |-> p, key |-> "none"]
MCBlocks ==
    {<< >>, <<Upd("p", "k")>>, <<Upd("p", "l")>>, <<Del("p")>>,
     <<Upd("q", "k"), Upd("p", "k")>>, <<Upd("p", "l"), Upd("q", "l")>>, <<Del("p"), Upd("p", "l")>>}

Query == INSTANCE AccountQuery WITH
    Perms <- {"p", "q"}, Keys <- {"k", "l"}, Blocks <- MCBlocks, MaxHeight <- 3, MaxForks <- 2,
    chain <- s1, lib <- s2, index <- s3, bimap <- s4, times <- s5, failed <- s6, popped <- s7, undone <- s8, forks <- s9

Done(r, nm, as, op, ks) == [receiver |-> r, name |-> nm, actors |-> as, perm |-> 2, op |-> op, keys |-> ks]
MCTraces ==
    {Done(2, 7, {2}, "none", {}), Done(3, 7, {2, 3}, "none", {}), Done(3, 8, {2}, "none", {}),
     Done(1, 9, {1}, "newaccount", {"k"}), Done(1, 9, {2}, "updateauth", {"l"}), Done(1, 9, {2}, "deleteauth", {})}
MCFilters ==
    {[bypass |-> TRUE, filter_on |-> {}, filter_out |-> {<<3, 8, 0>>, <<3, 7, 3>>}],
     [bypass |-> FALSE, filter_on |-> {<<3, 0, 2>>, <<2, 7, 0>>, <<1, 0, 0>>}, filter_out |-> {}]}

History == INSTANCE HistoryPlugin WITH
    Traces <- MCTraces, Accounts <- {1, 2, 3}, Configs <- MCFilters, MaxActions <- 3, Limit <- 64,
    MinDigits <- 2, trx_id <- <<<<1, 2, 0>>, <<0, 3, 1>>, <<1, 2, 2>>>>,
    config <- s1, blocks <- s2, pending <- s3, hist <- s4

\* Options of nodeos: a command, and fix, truncate, genesis and snapshot of a start.
Options(c, f, t, g, s, r) ==
    [command |-> c, fix |-> f, truncate |-> t, genesis |-> g, snapshot |-> s, refused |-> r]
Plain(c) == Options(c, FALSE, 0, "none", FALSE, FALSE)
MCStarts ==
    {Plain(c) : c \in {"none", "hard-replay-blockchain", "replay-blockchain", "import-reversible-blocks",
                       "export-reversible-blocks", "extract-genesis-json"}}
    \cup {[Plain("none") EXCEPT !.genesis = g] : g \in {"other", "missing"}}
    \cup {[Plain("none") EXCEPT !.snapshot = TRUE], [Plain("none") EXCEPT !.refused = TRUE],
          [Plain("none") EXCEPT !.snapshot = TRUE, !.genesis = "other"],
          [Plain("none") EXCEPT !.fix = TRUE], [Plain("none") EXCEPT !.fix = TRUE, !.truncate = 2],
          [Plain("delete-all-blocks") EXCEPT !.genesis = "other"], [Plain("delete-all-blocks") EXCEPT !.snapshot = TRUE],
          [Plain("hard-replay-blockchain") EXCEPT !.fix = TRUE, !.truncate = 2],
          [Plain("replay-blockchain") EXCEPT !.fix = TRUE]}

Key(p, s, r) == [p |-> p, s |-> s, row |-> r]
Listing(c, t, r, n) == [call |-> c, type |-> t, reverse |-> r, limit |-> n]
MCListings ==
    {Listing("rows", "i64", r, n) : r \in BOOLEAN, n \in 1 .. 2} \cup {Listing("secondary", "i64", r, 2) : r \in BOOLEAN}
    \cup {Listing("secondary", t, FALSE, 2) : t \in {"name", "i256", "float128"}}
    \cup {Listing("scopes", "name", r, 2) : r \in BOOLEAN}
    \cup {Listing(c, "name", FALSE, n) : c \in {"producers", "scheduled"}, n \in 1 .. 2}
Trace(a, s, x) == [ancestor |-> a, seq |-> s, except |-> x]
MCActionTraces ==
    {<<Trace(0, 1, FALSE), Trace(0, 4, FALSE), Trace(1, 2, FALSE), Trace(1, 3, FALSE)>>,
     <<Trace(0, 1, FALSE), Trace(0, 0, FALSE), Trace(1, 3, FALSE), Trace(1, 2, FALSE), Trace(3, 0, TRUE)>>,
     <<Trace(0, 0, TRUE)>>}

Chain == INSTANCE ChainPlugin WITH
    Entries <- {Key(1, 2, TRUE), Key(1, 3, TRUE), Key(2, 1, TRUE), Key(2, 2, FALSE), Key(3, 2, TRUE), Key(3, 0, TRUE)},
    Listings <- MCListings, Pushes <- {<< >>, <<"a">>, <<"invalid", "b">>, <<"a", "invalid", "b">>},
    Traces <- MCActionTraces, MaxKey <- 3, MaxChanges <- 1,
    index <- s1, client <- s2, call <- s3, changes <- s4,
    CommandLines <- MCStarts, Default <- "main", MaxBlock <- 3, MaxStarts <- 4,
    disk <- s1, node <- s2, last <- s3, starts <- s4

\* Definitions that are good, and others with one thing wrong: a type or a base that goes round in
\* circles, is defined twice, or names what is no type.
Fld(n, t) == [name |-> n, type |-> t]
Struct(n, b, f) == [name |-> n, base |-> b, fields |-> f]
GoodAbi ==
    [version_1 |-> TRUE, types |-> <<Fld(<<"T">>, <<"P", "[]">>), Fld(<<"O">>, <<"P", "?">>)>>,
     structs |-> <<Struct(<<"P">>, << >>, <<Fld("a", <<"u8">>), Fld("b", <<"u8", "$">>)>>),
                   Struct(<<"Q">>, <<"P">>, <<Fld("c", <<"P", "$">>)>>),
                   Struct(<<"L">>, << >>, <<Fld("a", <<"L", "?">>)>>), Struct(<<"E">>, << >>, << >>)>>,
     variants |-> <<[name |-> <<"V">>, types |-> <<<<"u8">>, <<"P">>, <<"T">>>>]>>,
     actions |-> <<Fld("x", <<"Q">>), Fld("y", <<"text">>), Fld("z", <<"u8", "[]">>)>>,
     tables |-> <<Fld("t", <<"Q">>)>>]
MCAbis ==
    {GoodAbi, [GoodAbi EXCEPT !.version_1 = FALSE], [GoodAbi EXCEPT !.types[1].type = <<"T", "[]">>],
     [GoodAbi EXCEPT !.types[2] = Fld(<<"T">>, <<"P">>)],
     [GoodAbi EXCEPT !.types = <<Fld(<<"T">>, <<"O">>), Fld(<<"O">>, <<"T">>)>>],
     [GoodAbi EXCEPT !.structs[1].base = <<"Q">>], [GoodAbi EXCEPT !.structs[2].base = <<"V">>],
     [GoodAbi EXCEPT !.structs[2].base = <<"T">>], [GoodAbi EXCEPT !.structs[2].name = <<"P">>],
     [GoodAbi EXCEPT !.structs[4].fields = <<Fld("a", <<"O", "[]">>), Fld("b", <<"V", "$">>), Fld("c", <<"L", "$">>)>>,
                     !.actions[1].type = <<"E">>],
     [GoodAbi EXCEPT !.types[1].type = <<"O", "[]">>, !.structs[2].fields = <<Fld("b", <<"T">>)>>,
                     !.structs[1].fields = <<Fld("a", <<"u8", "?">>)>>]}
Plains == {<<"null">>, <<"int", 1>>}
Objects(S, K) == {<<"obj", f>> : f \in UNION {[k -> S] : k \in SUBSET K}}
Arrays(S) == {<<"arr", << >>>>} \cup {<<"arr", <<x>>>> : x \in S} \cup {<<"arr", <<x, y>>>> : x, y \in S}
Flat == Plains \cup Objects(Plains, {"a", "b"}) \cup Arrays(Plains)
Tagged == {<<"arr", <<<<"type", t>>, v>>>> : t \in {<<"u8">>, <<"P">>, <<"T">>}, v \in Flat}
MCValues ==
    Flat \cup Objects(Flat, {"a"}) \cup Arrays(Objects(Plains, {"a", "b"})) \cup Tagged \cup {<<"str", <<1>>>>}
    \cup {<<"obj", [a |-> <<"int", 1>>, b |-> y, c |-> z]>> : y \in Tagged \cup {<<"int", 1>>}, z \in Plains \cup Objects(Plains, {"a"})}

Abi == INSTANCE AbiSerializer WITH
    Abis <- MCAbis, Values <- MCValues, MaxDepth <- 7, MaxPacked <- 6,
    Names <- {<<"P">>, <<"Q">>, <<"L">>, <<"E">>, <<"V">>, <<"T">>, <<"O", "[]">>, <<"Q", "[]">>, <<"X">>, <<"text", "?">>},
    Streams <- UNION {[1 .. n -> 0 .. 2] : n \in 0 .. 3} \cup {<<1, 1, 2, 0, 1>>, <<2, 1, 1, 1, 0>>, <<1, 1, 1, 1, 1, 1, 1, 0>>},
    ser <- s1, job <- s2

\* Every command of cleos that sends a transaction, with the options that change its way.
NoAct == [acts |-> << >>, nonces |-> << >>, exp |-> 0, ref |-> 0, sigs |-> {}]
Unsigned ==
    [NoAct EXCEPT !.acts = <<[account |-> "x", name |-> "y", auth |-> <<<<"a", "active">>>>, data |-> [z |-> 1]]>>,
                  !.exp = 2, !.ref = 1]
Signed == [Unsigned EXCEPT !.sigs = {"other"}]
Command(n) ==
    [cmd |-> n, account |-> "a", other |-> "b", permission |-> << >>, force_unique |-> FALSE, skip_sign |-> FALSE,
     dont_broadcast |-> FALSE, ref |-> "default", amount |-> [value |-> 1, decimals |-> 0], bytes |-> 1, ram |-> "none",
     simple |-> FALSE, memo |-> "", pay_ram |-> FALSE, requirement |-> "null", producers |-> <<"q", "p">>,
     change |-> "null", auth |-> [threshold |-> 1, keys |-> 1, accounts |-> << >>],
     clear |-> FALSE, suppress |-> FALSE, trx |-> NoAct, plain |-> TRUE, chain_id |-> TRUE, key |-> FALSE]
OfOneAction ==
    {"regproducer", "unregprod", "proxy", "prods", "undelegatebw", "bidname", "sellram", "claimrewards", "regproxy",
     "unregproxy", "canceldelay", "deposit", "withdraw", "buyrex", "lendrex", "unstaketorex", "sellrex",
     "cancelrexorder", "rentcpu", "rentnet", "fundcpuloan", "fundnetloan", "defundcpuloan", "defundnetloan",
     "mvtosavings", "mvfromsavings", "updaterex", "consolidate", "rexexec", "closerex", "propose", "wrap", "set action"}
MCCommandLines ==
    {Command(n) : n \in OfOneAction \cup {"review"}}
    \cup {[Command("transfer") EXCEPT !.force_unique = f, !.pay_ram = TRUE, !.amount.decimals = d] : f \in BOOLEAN, d \in {1, 2}}
    \cup {[Command(n) EXCEPT !.ram = r, !.simple = (n = "account"), !.ref = "known"] :
              n \in {"account", "newaccount", "delegatebw", "buyram"}, r \in {"tokens", "bytes"}}
    \cup {[Command("exec") EXCEPT !.account = "", !.permission = p] : p \in {<< >>, <<<<"a", "active">>>>}}
    \cup {[Command("approve") EXCEPT !.other = p, !.dont_broadcast = d] : p \in {"p", "q"}, d \in BOOLEAN}
    \cup {[Command("unapprove") EXCEPT !.other = p] : p \in {"p", "q"}}
    \cup {[Command("set permission") EXCEPT !.change = c, !.other = x] : c \in {"add", "remove"}, x \in {"a", "b"}}
    \cup {[Command("set permission") EXCEPT !.change = c] : c \in {"null", "set"}}
    \cup {[Command(n) EXCEPT !.clear = c] : n \in {"code", "abi", "contract"}, c \in BOOLEAN}
    \cup {[Command("contract") EXCEPT !.suppress = TRUE]}
    \cup {[Command("push transaction") EXCEPT !.trx = t, !.plain = w, !.skip_sign = s, !.ref = "known"] :
              t \in {Unsigned, Signed}, w \in BOOLEAN, s \in BOOLEAN}
    \cup {[Command("push transaction") EXCEPT !.trx = Unsigned, !.ref = "unknown", !.force_unique = TRUE]}
    \cup {[Command("sign") EXCEPT !.trx = t, !.key = k, !.chain_id = c, !.dont_broadcast = d] :
              t \in {Unsigned, Signed}, k \in BOOLEAN, c \in BOOLEAN, d \in BOOLEAN}
Holds(votes, auth, wasm, abi) == [votes |-> votes, auth |-> auth, wasm |-> wasm, abi |-> abi]
Auth(t, k, as) == [threshold |-> t, keys |-> k, accounts |-> as]
MCAccounts ==
    {Holds(<<"p", "r">>, Auth(0, 0, << >>), "none", "none"),
     Holds(<<"q">>, Auth(1, 0, <<[actor |-> "a", weight |-> 1]>>), "w", "none"),
     Holds(<< >>, Auth(2, 2, <<[actor |-> "b", weight |-> 1]>>), "none", "a"),
     Holds(<<"q", "r">>, Auth(3, 3, << >>), "w", "a")}

\* A program with commands three deep, lists, flags, options that need or exclude another, one
\* that may go without its value; and two that are declared wrongly.
Opt(id, l, s, pos, kind, req) ==
    [id |-> id, l |-> l, s |-> s, pos |-> pos, kind |-> kind, req |-> req, needs |-> {}, excludes |-> {}, help |-> FALSE]
Help(id) == [Opt(id, "help", "h", FALSE, "flag", FALSE) EXCEPT !.help = TRUE]
Tree ==
    [sub |-> [main |-> <<"get", "push">>, get |-> <<"info", "table">>, info |-> << >>, table |-> << >>, push |-> << >>],
     parent |-> [main |-> "", get |-> "main", push |-> "main", info |-> "get", table |-> "get"],
     needs_sub |-> {"main", "get"},
     opt |-> [main |-> <<Help("h0"), Opt("header", "header", "r", FALSE, "text", FALSE), Opt("verbose", "verbose", "v", FALSE, "flag", FALSE)>>,
              get |-> <<Help("h1")>>, info |-> <<Help("h2")>>,
              table |-> <<Help("h3"), Opt("account", "", "", TRUE, "text", TRUE), Opt("scope", "", "", TRUE, "text", FALSE),
                          Opt("limit", "limit", "l", FALSE, "number", FALSE)>>,
              push |-> <<Help("h4"), Opt("perm", "permission", "p", FALSE, "list", FALSE),
                         [Opt("skip", "skip-sign", "s", FALSE, "flag", FALSE) EXCEPT !.excludes = {"pw"}],
                         [Opt("pw", "password", "", FALSE, "maybe", FALSE) EXCEPT !.needs = {"perm"}],
                         Opt("data", "", "", TRUE, "text", TRUE)>>]]
MCTrees ==
    {Tree, [Tree EXCEPT !.opt["push"] = Append(@, Opt("x", "", "s", FALSE, "flag", FALSE))],
     [Tree EXCEPT !.opt["info"] = @ \o <<Opt("l1", "", "", TRUE, "list", FALSE), Opt("l2", "", "", TRUE, "list", FALSE)>>]}
Word(t) == [k |-> "word", n |-> t, v |-> "", t |-> t]
Long(n, v, t) == [k |-> "long", n |-> n, v |-> v, t |-> t]
Short(n, v, t) == [k |-> "short", n |-> n, v |-> v, t |-> t]
MCWords ==
    {Word(t) : t \in {"get", "table", "push", "a", "[b,c]"}} \cup
    {[k |-> "mark", n |-> "", v |-> "", t |-> "--"], [k |-> "term", n |-> "", v |-> "", t |-> "++"],
     Short("r", "", "-r"), Short("p", "", "-p"), Short("l", "9", "-l9"), Short("s", "h", "-sh"), Short("h", "", "-h"),
     Long("limit", "z", "--limit=z"), Long("password", "", "--password"), Long("skip-sign", "false", "--skip-sign=false")}
MCLines ==
    UNION {[1 .. n -> MCWords] : n \in 0 .. 2}
    \cup {<<Word("get"), Word("table")>> \o w : w \in [1 .. 2 -> MCWords]}
    \cup {<<Word("push")>> \o w : w \in [1 .. 2 -> MCWords]}
    \cup {<<Word("push"), Short("p", "", "-p")>> \o w : w \in [1 .. 2 -> MCWords]}
    \cup {<<Word("get"), Word("info"), Word("a"), Short("v", "", "-v")>>,
          <<Short("r", "", "-r"), Word("a"), Short("r", "", "-r"), Word("a"), Word("get"), Word("info")>>,
          <<Word("get"), Word("table"), Word("1"), Short("5", "", "-5")>>}
AllWords == MCWords \cup {Word("info"), Word("1"), Short("v", "", "-v"), Short("5", "", "-5")}

Cli == INSTANCE Cleos WITH
    CommandLines <- MCCommandLines, Files <- [wasm |-> "w", abi |-> "a"], Accounts <- MCAccounts,
    Rank <- ("a" :> 1 @@ "b" :> 2 @@ "p" :> 3 @@ "q" :> 4 @@ "r" :> 5), MaxHead <- 3, MaxCommands <- 1, MaxWeight <- 2,
    node <- s1, keosd <- s2, cl <- s3, ran <- s4,
    Trees <- MCTrees, Lines <- MCLines, Words <- AllWords, Numbers <- {"1", "9"}, Booleans <- {"true", "false"},
    Bracketed <- ("[b,c]" :> <<"b", "c">>),
    tree <- s1, line <- s2, p <- s3, phase <- s4, error <- s5, assigned <- s6, called <- s7

\* Runs of the launcher: networks that are only computed, and networks that are launched and killed.
Invocation ==
    [does |-> "launch", nodes |-> 2, pnodes |-> 1, producers |-> 2, unstarted |-> 0, shared |-> 0, shape |-> "mesh",
     per_host |-> 0, servers |-> << >>, force |-> FALSE, nogen |-> FALSE, mode |-> "all", name |-> 1]
TwoHosts ==
    <<[host |-> "local", instances |-> 2, has_bios |-> TRUE, prod |-> TRUE],
      [host |-> "far", instances |-> 1, has_bios |-> FALSE, prod |-> FALSE]>>
Computes(t, p, s) ==
    [Invocation EXCEPT !.mode = "none", !.nogen = TRUE, !.nodes = t, !.pnodes = p[1], !.producers = p[2], !.unstarted = 1, !.shape = s]
Computed ==
    {Computes(t, p, s) : t \in {4, 7}, p \in {<<1, 2>>, <<3, 2>>, <<3, 5>>}, s \in {"ring", "mesh"}}
    \cup {Computes(t, <<3, 5>>, "star") : t \in {4, 6, 7}}
Launched ==
    {[Invocation EXCEPT !.unstarted = 1], [Invocation EXCEPT !.force = TRUE], [Invocation EXCEPT !.per_host = 2],
     [Invocation EXCEPT !.force = TRUE, !.mode = "named"], [Invocation EXCEPT !.force = TRUE, !.nogen = TRUE],
     [Invocation EXCEPT !.servers = TwoHosts], [Invocation EXCEPT !.servers = TwoHosts, !.force = TRUE, !.unstarted = 1, !.mode = "remote"],
     [Invocation EXCEPT !.does = "kill"], [Invocation EXCEPT !.does = "down"], [Invocation EXCEPT !.does = "bounce", !.mode = "named"]}

Testnet == INSTANCE Launcher WITH
    Commands <- Computed \cup Launched, Remote <- {"far"}, MaxNodes <- 8, MaxRuns <- 3,
    disk <- s1, procs <- s2, top <- s3, runs <- s4, tidy <- s5

-----------------------------------------------------------------------------
Init ==
    /\ part \in Parts
    /\ \/ part = "http" /\ Http!Init /\ Zero5
       \/ part = "socket" /\ s1 = 0 /\ s2 = 0 /\ s3 = 0 /\ s4 = 0 /\ Http!SocketInit /\ Zero8
       \/ part = "wallets" /\ Wallets!Init /\ Zero9
       \/ part = "mongo" /\ Mongo!Init
       \/ part = "query" /\ Query!Init /\ Zero10
       \/ part = "history" /\ History!Init /\ Zero5
       \/ part = "start" /\ Chain!StartInit /\ Zero5
       \/ part = "api" /\ Chain!ApiInit /\ Zero5
       \/ part = "abi" /\ Abi!Init /\ Zero3
       \/ part = "cleos" /\ Cli!Init /\ Zero5
       \/ part = "line" /\ Cli!LineInit /\ Zero8
       \/ part = "launcher" /\ Testnet!Init /\ Zero6

Next ==
    /\ UNCHANGED part
    /\ \/ part = "http" /\ Http!Next /\ UNCHANGED From5
       \/ part = "socket" /\ Http!SocketNext /\ UNCHANGED <<s1, s2, s3, s4, From8>>
       \/ part = "wallets" /\ ~s8 /\ Wallets!Next /\ UNCHANGED From9    \* nothing is claimed of keosd once raced
       \/ part = "mongo" /\ Mongo!Next
       \/ part = "query" /\ Query!Next /\ UNCHANGED From10
       \/ part = "history" /\ History!Next /\ UNCHANGED From5
       \/ part = "start" /\ Chain!StartNext /\ UNCHANGED From5
       \/ part = "api" /\ Chain!ApiNext /\ UNCHANGED From5
       \/ part = "abi" /\ Abi!Next /\ UNCHANGED From3
       \/ part = "cleos" /\ Cli!Next /\ UNCHANGED From5
       \/ part = "line" /\ Cli!LineNext /\ UNCHANGED From8
       \/ part = "launcher" /\ Testnet!Next /\ UNCHANGED From6

\* The threads of the http plugin, the consumer of the mongo plugin, cleos and its parser go on. A
\* behaviour is of one part, so that one condition serves them all but for the second request.
Fairness ==
    /\ WF_all(/\ UNCHANGED part
              /\ \/ part = "http" /\ Http!Step("a") /\ UNCHANGED From5
                 \/ part = "mongo" /\ Mongo!Consumer
                 \/ part = "cleos" /\ Cli!Step /\ UNCHANGED From5
                 \/ part = "line" /\ Cli!LineNext /\ UNCHANGED From8)
    /\ WF_all(part = "http" /\ Http!Step("b") /\ UNCHANGED <<part, From5>>)

Spec == Init /\ [][Next]_all /\ Fairness

-----------------------------------------------------------------------------
\* http_plugin: bytes_in_flight is what the unanswered requests hold, whichever way each of them
\* ended; a leak would make the node refuse requests for ever. No request is answered twice.
\* And whoever listens on the unix socket is reached through its path: a server that starts
\* never takes it from one that runs, as long as no two servers are between the test of the path
\* and the bind at once.
\* keosd: the password create returned opens the file, and the file has every key acknowledged,
\* through locks, timeouts, crashes, restarts and another keosd in the directory, for a file that
\* no failed or interrupted write has left torn and as long as no two daemons crossed in taking
\* the lock file. A locked wallet holds no plain key, and what get_public_keys offers is what can
\* be signed with.
ServersSound ==
    /\ part = "http" => Http!InFlightExact /\ Http!AnsweredOnce
    /\ part = "socket" => Http!ListenersReachable
    /\ part = "wallets" => Wallets!KeysRecoverable /\ Wallets!SignsWhatItLists

\* What waits to be attended to, in the part that runs: requests, what mongo queues, a command line
\* and a command of cleos.
Waits(i) ==
    \/ part = "http" /\ i \in 1 .. 2 /\ Http!Unanswered(<<"a", "b">>[i])
    \/ part = "mongo" /\ Mongo!Queued(<<"trace", "trx", "block", "lib">>[i])
    \/ part = "line" /\ i = 1 /\ s4 # "done"
    \/ part = "cleos" /\ i = 1 /\ Cli!Running

\* What is handed to another thread is attended to: a request that came in gets an answer unless
\* the node shuts down first, and what the mongo plugin queues before its shutdown is written. A
\* command line is
\* parsed to its end, and a command of cleos ends whatever it waits for fails.
ServicesProgress == \A i \in 1 .. 4 : Waits(i) ~> ~Waits(i)

\* The copies of chain data agree with the chain: mongo's irreversible marks and ABI cache on
\* forks and however its queues are cut into batches, while no write fails; the history index
\* through aborted and popped blocks, with every answer it gives to a query (get_actions from one
\* end of its range to the other, both included; a transaction by the first 8 or more characters
\* of its id); the account query index when the branch left behind changed one permission and
\* deleted none.
CopiesAgree ==
    /\ part = "mongo" => Mongo!IrreversibleMarked /\ Mongo!AbiCacheFresh
    /\ part = "history" => History!HistoryMatchesChain /\ History!QueriesRight
    /\ part = "query" => Query!QueryRollsBack

\* The start of a node, whatever an earlier one left behind: a node that runs has a state and a
\* block log of one chain, and reversible blocks that go on from the log; one that was stopped
\* starts again at its head, unless its fork database is ahead of it; and a hard replay gets a node
\* going again from a log that starts at block 1.
StartupSound ==
    part = "start" => Chain!OneChain /\ Chain!StoresMeet /\ Chain!StopsAndStarts /\ Chain!HardReplayRecovers

\* No start loses a block that the log or one of its backups holds, unless it is asked to delete
\* all blocks: hard replays, repairs and truncations keep what they replace.
BlocksKept == [][part = "start" => Chain!KeepsBlocks]_all


\* cleos. Its command line: no plain word is lost or taken twice, whichever options and commands
\* it could go to; no callback of a command runs unless the whole line is right, and then bottom
\* up, those of its subcommands before its own; an option is assigned once.
\* A command issues its actions at most once (but an unsigned transaction of push transaction
\* may be issued a second time, as a transaction of its own) and reports what became of them; what was
\* signed is pushed unchanged; votes, permissions and contracts that are read, changed and
\* written back are what the command says when nobody else changes them meanwhile, and the
\* node accepts them.
ClientSound ==
    /\ part = "line" => Cli!WordsConserved /\ Cli!AllOrNothing /\ Cli!RunsInOrder /\ Cli!AssignedOnce
    /\ part = "cleos" => Cli!ClientSound

\* eosio-launcher: each producer is on one node, no two nodes share an endpoint, the nodes form
\* one network (a star when its loop ends and it has fewer than 11 nodes), a node signs with the
\* keys of its producers, and --kill ends the last launch when its last_run.json was written and
\* no node has been launched since.
LauncherSound == part = "launcher" => Testnet!LauncherSound

\* account_query_db::rollback_to_before, "this will effectively roll back the database to just
\* before the incoming block": after every block a query finds the permissions that have the
\* key in the chain's state.
QueryInStep == part = "query" => Query!QueryInStep
=============================================================================
