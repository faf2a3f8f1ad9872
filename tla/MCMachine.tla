----------------------------- MODULE MCMachine -----------------------------
(***************************************************************************)
(* What executes contracts, one part at a time: from the bytes of a module *)
(* over its validation and the injection of checks to native code and its  *)
(* cache, the timer that ends a transaction, and what the code calls:      *)
(* arithmetic, the tables of contracts, further actions. The parts have no *)
(* variables in common, so they share the slots s1 .. s17; a slot that a   *)
(* part does not use stays 0.                                              *)
(***************************************************************************)
EXTENDS Integers, Sequences

CONSTANTS
    Parts,          \* the parts checked
    Handlers,       \* where the handler of the timer may run
    MaxDepth        \* the limit on nested structures

VARIABLES part, s1, s2, s3, s4, s5, s6, s7, s8, s9, s10, s11, s12, s13, s14, s15, s16, s17

\* The slots from the n-th on.
From15 == <<s15, s16, s17>>
From11 == <<s11, s12, s13, s14, From15>>
From8 == <<s8, s9, s10, From11>>
From4 == <<s4, s5, s6, s7, From8>>
From3 == <<s3, From4>>
all == <<part, s1, s2, From3>>

Zero15 == s15 = 0 /\ s16 = 0 /\ s17 = 0
Zero11 == s11 = 0 /\ s12 = 0 /\ s13 = 0 /\ s14 = 0 /\ Zero15
Zero8 == s8 = 0 /\ s9 = 0 /\ s10 = 0 /\ Zero11
Zero4 == s4 = 0 /\ s5 = 0 /\ s6 = 0 /\ s7 = 0 /\ Zero8
Zero3 == s3 = 0 /\ Zero4

-----------------------------------------------------------------------------
Integer(s, b, w) == [signed |-> s, bits |-> b, width |-> w]
Op(n) == [name |-> n, type |-> "none", depth |-> 0, depths |-> << >>]
MCBodies ==
    {Op(n) : n \in {"const", "add", "drop", "select", "call", "else", "end", "return", "unreachable"}}
    \cup {[Op(n) EXCEPT !.type = "i32"] : n \in {"block", "loop", "if"}} \cup {Op("if"), Op("block")}
    \cup {[Op(n) EXCEPT !.depth = d] : n \in {"br", "br_if"}, d \in {0, 1}}
    \cup {[Op("br_table") EXCEPT !.depths = <<0>>, !.depth = 1]}
\* Both ways through an if, with a result and without, and with one that is missing; a loop that goes
\* round; a table of targets.
MCLonger ==
    LET Typed(n) == [Op(n) EXCEPT !.type = "i32"]
        Br(n, d) == [Op(n) EXCEPT !.depth = d]
        c == Op("const") e == Op("end")
    IN  {<<c, Typed("if"), c, Op("else"), c, e, e>>, <<c, Typed("if"), c, Op("else"), e, e>>,
         <<c, Op("if"), c, Br("br", 1), Op("else"), e, c, e>>,
         <<Typed("loop"), c, Br("br_if", 0), c, e, e>>,
         <<Typed("block"), c, c, [Op("br_table") EXCEPT !.depths = <<0>>, !.depth = 1], e, e>>}
Export(n, i) == [name |-> n, index |-> i]
Good ==
    [types |-> 3, imports |-> <<2>>, defs |-> <<1, 0>>, tables |-> <<2>>, memories |-> <<[min |-> 1, max |-> -1]>>,
     exports |-> <<Export("apply", 1)>>, start |-> 2, data |-> <<[offset |-> 1, size |-> 3]>>,
     elements |-> <<{0, 2}>>, globals |-> 4, locals |-> 4]
MCModules ==
    {Good, [Good EXCEPT !.start = 3], [Good EXCEPT !.elements = <<{3}>>], [Good EXCEPT !.exports = <<Export("apply", 3)>>],
     [Good EXCEPT !.exports = <<Export("apply", 0)>>], [Good EXCEPT !.data[1].size = 4],
     [Good EXCEPT !.data[1].size = 8], [Good EXCEPT !.memories = << >>]}
Wasm == INSTANCE WasmModules WITH
    Group <- 3, Types <- {"i32", "i64"}, MaxRun <- 5, MaxLocalBytes <- 16,
    Formats <- {Integer(s, 4, w) : s \in BOOLEAN, w \in {4, 8}} \cup
               {Integer(FALSE, 1, 8), Integer(TRUE, 3, 4), Integer(FALSE, 3, 8), Integer(TRUE, 8, 8)},
    Sections <- <<"type", "import", "function", "export", "code", "data">>,
    item <- s1, written <- s2, read <- s3,
    MaxCode <- 5, Bodies <- MCBodies, Longer <- MCLonger, Modules <- MCModules, MaxMemory <- 2, MaxInit <- 8, Page <- 4,
    MaxElements <- 2, MaxGlobals <- 8, MaxLocals <- 8,
    module <- s1, producing <- s2, code <- s3, stack <- s4, control <- s5, machine <- s6, phase <- s7

Insn(op, x) == [op |-> op, field |-> x]
Insns == {Insn("call", 0), Insn("call", 1), Insn("call_indirect", 0), Insn("float", "f32_add"), Insn("float", "f64_add"), Insn("loop", 0)}
MCOriginals ==
    {[imports |-> im, defs |-> <<<<x, y>>, <<z>>>>, exports |-> Len(im) + 1, start |-> st,
      elements |-> {0, Len(im)}, max |-> 3, globals |-> <<7>>] :
        im \in {<< >>, <<"prints">>}, x, y \in Insns, z \in Insns \cup {Insn("convert", 0)}, st \in {-1, 1}}
Injection == INSTANCE WasmInjection WITH
    Originals <- MCOriginals, MaxCallDepth <- 250, MaxPages <- 2,
    original <- s1, full <- s2, module <- s3, registered <- s4, mapping <- s5, counter <- s6,
    pass <- s7, fd <- s8, pos <- s9, out <- s10,
    EBits <- 3, FBits <- 2, Half <- 2, Widths <- {2, 4}, call <- s1, result <- s2

Async == INSTANCE NativeCode WITH
    Codes <- {"x", "y", "z"}, Sync <- FALSE, Threads <- 1, Blocks <- 5, Threshold <- 2, Batch <- 1, MaxCalls <- 6, MaxTrx <- 3,
    node <- s1, index <- s2, compiles <- s3, queued <- s4, blacklist <- s5, results <- s6, requests <- s7,
    replies <- s8, tasks <- s9, session <- s10, mem <- s11, disk <- s12, modules <- s13, deployed <- s14,
    running <- s15, faults <- s16, calls <- s17,
    where <- s1, main <- s2, trx <- s3, limited <- s4, outcome <- s5, expired <- s6, armed <- s7, callback <- s8,
    busy <- s9, handler <- s10, fired <- s11, mapping <- s12, executable <- s13, cut <- s14
Sync == INSTANCE NativeCode WITH
    Codes <- {"x", "y"}, Sync <- TRUE, Threads <- 1, Blocks <- 5, Threshold <- 2, Batch <- 1, MaxCalls <- 6, MaxTrx <- 3,
    node <- s1, index <- s2, compiles <- s3, queued <- s4, blacklist <- s5, results <- s6, requests <- s7,
    replies <- s8, tasks <- s9, session <- s10, mem <- s11, disk <- s12, modules <- s13, deployed <- s14,
    running <- s15, faults <- s16, calls <- s17,
    where <- s1, main <- s2, trx <- s3, limited <- s4, outcome <- s5, expired <- s6, armed <- s7, callback <- s8,
    busy <- s9, handler <- s10, fired <- s11, mapping <- s12, executable <- s13, cut <- s14

Act(x, s) == [account |-> x, actors |-> s]
MCTransactions ==
    {[cfa |-> <<Act("b", {})>>, actions |-> <<Act("a", {"a", "b"})>>],
     [cfa |-> << >>, actions |-> <<Act("b", {"b"}), Act("a", {"a"})>>]}
Apply == INSTANCE ApplyContext WITH
    Accounts <- {"a", "b", "c"}, Grants <- [a |-> {"a", "b"}, b |-> {"b"}, c |-> {"c"}],
    Transactions <- MCTransactions, Inline <- {Act("a", {"a"}), Act("b", {})}, Promotable <- {"b"},
    MaxInlineDepth <- 1, MaxTraces <- 5,
    mode <- s1, status <- s2, roots <- s3, traces <- s4, storage <- s5, frames <- s6, db <- s7, saved <- s8,
    executed <- s9, touched <- s10,
    Scopes <- {1}, Ids <- {1, 2}, Keys <- {1, 2}, Payers <- {"r", "a"}, receiver <- "r", authorizers <- {"a"},
    Sizes <- {1, 2}, KvOverhead <- 1, IdxOverhead <- 3, TableOverhead <- 5, Restricted <- FALSE,
    MaxCalls <- 4, MaxTables <- 3, MaxRows <- 4,
    tables <- s1, rows <- s2, nextTable <- s3, ram <- s4, cache <- s5, bound <- s6, calls <- s7

-----------------------------------------------------------------------------
Init ==
    /\ part \in Parts
    /\ \/ part = "format" /\ Wasm!FormatInit /\ Zero4
       \/ part = "validation" /\ Wasm!ValidationInit /\ Zero8
       \/ part = "injection" /\ Injection!InjectionInit /\ Zero11
       \/ part = "arithmetic" /\ Injection!ArithmeticInit /\ Zero3
       \/ part = "async" /\ Async!CacheInit
       \/ part = "sync" /\ Sync!CacheInit
       \/ part = "timer" /\ Async!TimerInit /\ Zero15
       \/ part = "tables" /\ Apply!TableInit /\ Zero8
       \/ part = "actions" /\ Apply!ActionInit /\ Zero11

Next ==
    /\ UNCHANGED part
    /\ \/ part = "format" /\ Wasm!FormatNext /\ UNCHANGED From4
       \/ part = "validation" /\ Wasm!ValidationNext /\ UNCHANGED From8
       \/ part = "injection" /\ Injection!InjectionNext /\ UNCHANGED From11
       \/ part = "arithmetic" /\ Injection!ArithmeticNext /\ UNCHANGED From3
       \/ part = "async" /\ Async!CacheNext
       \/ part = "sync" /\ Sync!CacheNext
       \/ part = "timer" /\ Async!TimerNext /\ UNCHANGED From15
       \/ part = "tables" /\ Apply!TableNext /\ UNCHANGED From8
       \/ part = "actions" /\ Apply!ActionNext /\ UNCHANGED From11

Spec == Init /\ [][Next]_all

-----------------------------------------------------------------------------
\* From bytes to code that runs: what serialize_input reads is what serialize_output wrote, a
\* body the validation accepts never goes wrong when it runs, and the injected module does what
\* the original does, with the checks in the places the injectors name. The operations that run
\* in software compute what they are named for: rounding, conversion and comparison of floats
\* with zeros, infinities and NaNs, and the double-word integers.
CodeKeepsMeaning ==
    /\ part = "format" => Wasm!ReadsWhatWasWritten
    /\ part = "validation" => Wasm!ValidatedRuns
    /\ part = "injection" => Injection!InjectionKeepsMeaning
    /\ part = "arithmetic" => Injection!RoundsAsNamed /\ Injection!ComparesAsNamed /\ Injection!DoubleWords

\* The native code in the cache of eos-vm-oc: no block of the file is used twice or freed while
\* it runs, and every compile that was asked for is tracked until its result is consumed,
\* whatever is evicted, replaced or restarted in between. A limited transaction is stopped when
\* its time is up (platform_timer), the protection of the code is what mapping_is_executable says
\* when it is entered, and no callback is left over from code that ended before.
NativeCodeSound ==
    /\ part = "async" => Async!NativeCodeIntact /\ Async!CompilesTracked
    /\ part = "sync" => Sync!NativeCodeIntact /\ Sync!CompilesTracked
    /\ part = "timer" => Async!LimitEnforced /\ Async!PermissionKnown /\ Async!OneCallback

\* apply_context: what accounts are charged is what their rows take, an iterator stands for the
\* row it was given out for, and walking an index meets every row once; the action a context
\* runs is alive while it runs, receipts come in the order of execution, and an inline action
\* is authorized by what its sender may act for.
ContractsSound ==
    /\ part = "tables" => Apply!RamMatchesRows /\ Apply!IteratorsStable /\ Apply!WalksMeetAll
    /\ part = "actions" => Apply!ActionAlive /\ Apply!ReceiptsInOrder /\ Apply!InlineAuthorized
=============================================================================
