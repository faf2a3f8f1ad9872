-------------------------- MODULE ProtocolFeatures --------------------------
(***************************************************************************)
(* Protocol features on one node: the feature set read from the            *)
(* protocol-features directory at start-up, the in-memory                  *)
(* protocol_feature_manager, the protocol_state_object of the chain        *)
(* database, and the activations and pre-activations that blocks carry.    *)
(*                                                                         *)
(* The manager is not part of the database: every undo of the database     *)
(* (an aborted block, a block popped by a fork switch, a failed apply) has *)
(* to be repeated on it by popped_blocks_to, and a restart rebuilds it.    *)
(*                                                                         *)
(* A digest is a number computed by the constant operator digest from the  *)
(* codename and the dependencies; a block's time is its number.            *)
(***************************************************************************)
EXTENDS Integers, Sequences, FiniteSets, SequencesExt

CONSTANTS
    codenames,        \* builtin_protocol_feature_codenames: codename -> set of codenames it needs
    Preactivator,     \* the codename of PREACTIVATE_FEATURE
    digest(_, _),     \* codename, set of digests -> digest
    Directories,      \* contents the protocol-features directory may have at a start
    MaxBlocks         \* bound on the chain's length

VARIABLES
    pfs,              \* the recognized features: digest -> feature
    manager,          \* protocol_feature_manager: activated list and builtin entries
    chain,            \* the branch: header fields and the protocol_state_object after each block
    pending,          \* the block being built: << >> or a sequence of one record
    to_activate,      \* producer_plugin: _protocol_features_to_activate
    signaled,         \* producer_plugin: _protocol_features_signaled
    speculative       \* read_mode == SPECULATIVE

vars == <<pfs, manager, chain, pending, to_activate, signaled, speculative>>

None == ""
not_active == MaxBlocks + 100
Ascending(S) == [i \in 1 .. Cardinality(S) |->
                   CHOOSE x \in S : Cardinality({y \in S : y < x}) = i - 1]

-----------------------------------------------------------------------------
(* Start-up: the feature set *)

Digest(f) == digest(f.codename, f.dependencies)

\* Each insertion may throw; a set that failed stays failed.
add_feature(s, f) ==
    LET d == Digest(f)
        known == {s.pfs[e].codename : e \in f.dependencies \cap DOMAIN s.pfs}
    IN  IF /\ s.ok
           /\ f.codename \in DOMAIN codenames
           /\ \A e \in DOMAIN s.pfs : s.pfs[e].codename # f.codename
           /\ f.dependencies \subseteq DOMAIN s.pfs
           /\ codenames[f.codename] \subseteq known
           /\ d \notin DOMAIN s.pfs
        THEN [s EXCEPT !.pfs = [e \in DOMAIN @ \cup {d} |-> IF e = d THEN f ELSE @[e]]]
        ELSE [s EXCEPT !.ok = FALSE]

\* The directory's features are added after those of their dependencies that are in the directory.
RECURSIVE add_protocol_feature(_, _, _)
add_protocol_feature(s, to_add, d) ==
    IF d \in s.visited
    THEN s
    ELSE add_feature(FoldLeft(LAMBDA t, e : add_protocol_feature(t, to_add, e),
                              [s EXCEPT !.visited = @ \cup {d}],
                              Ascending(to_add[d].dependencies \cap DOMAIN to_add)),
                     to_add[d])

DigestOf(s, c) == CHOOSE d \in DOMAIN s.pfs : s.pfs[d].codename = c

make_default_builtin_protocol_feature(s, c, enabled) ==
    [codename |-> c, dependencies |-> {DigestOf(s, e) : e \in codenames[c]},
     earliest |-> 0, required |-> c # Preactivator, enabled |-> enabled]

\* A codename without a file gets its default, after the defaults of its dependencies.
RECURSIVE add_missing_builtins(_, _, _)
add_missing_builtins(s, c, populate) ==
    IF ~s.ok \/ \E d \in DOMAIN s.pfs : s.pfs[d].codename = c
    THEN s
    ELSE LET t == FoldSet(LAMBDA e, u : add_missing_builtins(u, e, populate), s, codenames[c])
         IN  IF t.ok THEN add_feature(t, make_default_builtin_protocol_feature(t, c, populate)) ELSE t

initialize_protocol_features(files, populate) ==
    LET to_add == [d \in {Digest(f) : f \in files} |-> CHOOSE f \in files : Digest(f) = d]
        start  == [ok |-> \A f, g \in files : f.codename = g.codename => f = g,
                   visited |-> {}, pfs |-> [d \in {} |-> {}]]
        read   == FoldLeft(LAMBDA s, d : add_protocol_feature(s, to_add, d), start,
                           Ascending(DOMAIN to_add))
    IN  FoldSet(LAMBDA c, s : add_missing_builtins(s, c, populate), read, DOMAIN codenames)

-----------------------------------------------------------------------------
(* The manager *)

Empty == [ok |-> TRUE, activated |-> << >>, head |-> None,
          builtin |-> [c \in DOMAIN codenames |-> [previous |-> None, block |-> not_active]]]

is_recognized(d, now) ==
    CASE d \notin DOMAIN pfs     -> "unrecognized"
      [] ~pfs[d].enabled         -> "disabled"
      [] pfs[d].earliest > now   -> "too_early"
      [] OTHER                   -> "ready"

is_builtin_activated(m, c, num) == m.builtin[c].block <= num

activate_feature(m, set, d, num) ==
    IF /\ m.ok
       /\ d \in DOMAIN set
       /\ m.activated # << >> => Last(m.activated).block <= num
       /\ m.builtin[set[d].codename].block = not_active
    THEN LET c == set[d].codename
         IN  [m EXCEPT !.activated = Append(@, [digest |-> d, block |-> num]),
                       !.builtin[c] = [previous |-> m.head, block |-> num],
                       !.head = c]
    ELSE [m EXCEPT !.ok = FALSE]

\* The mutants below: the list of builtins is not unwound; the first entry is left in place.
popped_list_only(m, num) ==
    [m EXCEPT !.ok = TRUE, !.activated = SelectSeq(@, LAMBDA e : e.block <= num)]

RECURSIVE Unwind(_, _)
Unwind(m, num) ==
    IF m.head = None \/ m.builtin[m.head].block <= num
    THEN m
    ELSE Unwind([m EXCEPT !.builtin[m.head] = [previous |-> None, block |-> not_active],
                          !.head = m.builtin[m.head].previous], num)

popped_blocks_to(m, num) ==
    [Unwind(m, num) EXCEPT !.ok = TRUE,
                           !.activated = SelectSeq(@, LAMBDA e : e.block <= num)]

protocol_feature_manager_init(set, pso) ==
    FoldLeft(LAMBDA m, e : activate_feature(m, set, e.digest, e.block), Empty, pso.activated)

-----------------------------------------------------------------------------
(* The controller's use of it *)

HeadBlock == Last(chain)
Known(pso) == {e.digest : e \in ToSet(pso.activated)}

\* Every feature is ready and new, and its dependencies come before it.
check_protocol_features(now, activated, new) ==
    \A i \in DOMAIN new :
        /\ is_recognized(new[i], now) = "ready"
        /\ new[i] \notin activated
        /\ pfs[new[i]].dependencies \subseteq activated \cup {new[j] : j \in 1 .. i - 1}

validate_protocol_features(new) == check_protocol_features(Len(chain), HeadBlock.features, new)

\* The activations of a new block num on the state pso: the manager, the state, and whether all
\* was in order (the caller undoes both when it was not).
start_block(m, pso, new, num) ==
    LET after == FoldLeft(LAMBDA n, d : activate_feature(n, pfs, d, num), m, new)
        allowed == /\ ToSet(new) \subseteq DOMAIN pfs
                   /\ \A d \in ToSet(new) : pfs[d].required => d \in ToSet(pso.preactivated)
                   /\ \A i, j \in DOMAIN new : new[i] = new[j] => i = j
                   /\ ToSet(pso.preactivated) \subseteq ToSet(new)
    IN  [manager |-> after, ok |-> allowed /\ after.ok,
         pso |-> IF new = << >> THEN pso
                 ELSE [preactivated |-> << >>,
                       activated |-> pso.activated \o
                                     [i \in DOMAIN new |-> [digest |-> new[i], block |-> num]],
                       preactivate |-> pso.preactivate \/ \E d \in ToSet(new) \cap DOMAIN pfs :
                                                             pfs[d].codename = Preactivator]]

\* Called by a contract through the intrinsic that the activation of PREACTIVATE_FEATURE allows.
CanPreactivate(pso, d, now) ==
    /\ pso.preactivate
    /\ is_recognized(d, now) = "ready"
    /\ d \notin Known(pso)
    /\ d \notin ToSet(pso.preactivated)
    /\ pfs[d].dependencies \subseteq Known(pso) \cup ToSet(pso.preactivated)

preactivate_feature(pso, d) == [pso EXCEPT !.preactivated = Append(@, d)]

\* Applying one block, whose header was checked when it came in, to [manager, chain]: a failure
\* leaves the manager and the chain as they were.
apply_block(s, b) ==
    LET parent == Last(s.chain)
        num    == Len(s.chain) + 1
        begun  == start_block(s.manager, parent.pso, b.new, num)
        run    == FoldLeft(LAMBDA t, d : [ok  |-> t.ok /\ CanPreactivate(t.pso, d, num),
                                          pso |-> preactivate_feature(t.pso, d)],
                           [ok |-> begun.ok, pso |-> begun.pso], b.pre)
    IN  IF s.ok /\ run.ok
        THEN [s EXCEPT !.manager = begun.manager,
                       !.chain = Append(@, [new |-> b.new, pso |-> run.pso, pre |-> b.pre,
                                            features |-> parent.features \cup ToSet(b.new)])]
        ELSE [s EXCEPT !.manager = popped_blocks_to(begun.manager, Len(s.chain)), !.ok = FALSE]

pop_block(s) == [s EXCEPT !.chain = Front(@), !.manager = popped_blocks_to(@, Len(s.chain) - 1)]

PopTo(s, n) == FoldLeft(LAMBDA t, i : pop_block(t), s, [i \in 1 .. Len(s.chain) - n |-> i])

\* A fork switch: pop to the common ancestor, apply the other branch, and when one of its blocks
\* fails go back to the first.
maybe_switch_forks(s, base, branch) ==
    LET old   == SubSeq(s.chain, base + 1, Len(s.chain))
        there == FoldLeft(apply_block, PopTo(s, base), branch)
    IN  IF there.ok THEN there
        ELSE FoldLeft(apply_block, [PopTo(there, base) EXCEPT !.ok = TRUE], old)

Node == [ok |-> TRUE, manager |-> manager, chain |-> chain]

abort_block(m) == IF pending = << >> THEN m ELSE popped_blocks_to(m, Len(chain))

-----------------------------------------------------------------------------
(* Actions *)

schedule_protocol_feature_activations(list) ==
    /\ \A i, j \in DOMAIN list : list[i] = list[j] => i = j
    /\ validate_protocol_features(list)
    /\ \A d \in ToSet(list) : ~pfs[d].required
    /\ to_activate' = list
    /\ signaled' = FALSE
    /\ UNCHANGED <<pfs, manager, chain, pending, speculative>>

\* producer_plugin's start_block: a producer adds the scheduled features to the pre-activated ones.
StartBlock(producing) ==
    /\ producing => speculative
    /\ LET pre    == HeadBlock.pso.preactivated
           adds   == producing /\ to_activate # << >>
           valid  == validate_protocol_features(to_activate)
           new    == IF adds /\ valid
                     THEN to_activate \o SelectSeq(pre, LAMBDA d : d \notin ToSet(to_activate))
                     ELSE pre
           clean  == abort_block(manager)
           begun  == start_block(clean, HeadBlock.pso, new, Len(chain) + 1)
           idle   == [manager |-> clean, pso |-> HeadBlock.pso, ok |-> TRUE]
           result == IF speculative THEN begun ELSE idle
           ok     == validate_protocol_features(new) /\ result.ok
       IN  /\ to_activate' = IF adds /\ ~valid THEN << >> ELSE to_activate
           /\ signaled' = IF adds /\ valid THEN TRUE ELSE signaled
           /\ pending' = IF ok THEN <<[new |-> new, pso |-> result.pso, pre |-> << >>,
                                       producing |-> producing]>>
                         ELSE << >>
           /\ manager' = IF ok THEN result.manager
                         ELSE IF validate_protocol_features(new)
                              THEN popped_blocks_to(result.manager, Len(chain)) ELSE clean
           /\ UNCHANGED <<pfs, chain, speculative>>

Preactivate(d) ==
    /\ pending # << >> /\ speculative
    /\ CanPreactivate(pending[1].pso, d, Len(chain) + 1)
    /\ pending' = <<[pending[1] EXCEPT !.pso = preactivate_feature(@, d),
                                       !.pre = Append(@, d)]>>
    /\ UNCHANGED <<pfs, manager, chain, to_activate, signaled, speculative>>

\* The scheduled features are forgotten whether or not the block carries them.
produce_block_always_clears ==
    /\ pending # << >> /\ pending[1].producing /\ Len(chain) < MaxBlocks
    /\ to_activate' = << >> /\ signaled' = FALSE
    /\ chain' = Append(chain, [new |-> pending[1].new, pso |-> pending[1].pso, pre |-> pending[1].pre,
                               features |-> HeadBlock.features \cup ToSet(pending[1].new)])
    /\ pending' = << >>
    /\ UNCHANGED <<pfs, manager, speculative>>

produce_block ==
    /\ pending # << >> /\ pending[1].producing /\ Len(chain) < MaxBlocks
    /\ to_activate' = IF signaled THEN << >> ELSE to_activate
    /\ signaled' = FALSE
    /\ chain' = Append(chain, [new |-> pending[1].new, pso |-> pending[1].pso, pre |-> pending[1].pre,
                               features |-> HeadBlock.features \cup ToSet(pending[1].new)])
    /\ pending' = << >>
    /\ UNCHANGED <<pfs, manager, speculative>>

\* A block of another producer, or a branch that is longer than this node's.
ReceiveBranch(base, branch) ==
    /\ base <= Len(chain) /\ base + Len(branch) > Len(chain) /\ base + Len(branch) <= MaxBlocks
    /\ \A i \in DOMAIN branch :
          check_protocol_features(base + i, chain[base].features \cup
                                     UNION {ToSet(branch[j].new) : j \in 1 .. i - 1}, branch[i].new)
    /\ LET s == maybe_switch_forks([Node EXCEPT !.manager = abort_block(@)], base, branch)
       IN  manager' = [s.manager EXCEPT !.ok = TRUE] /\ chain' = s.chain
    /\ pending' = << >>
    /\ UNCHANGED <<pfs, to_activate, signaled, speculative>>

\* The node stops and comes up with the features of directory files; one that does not recognize
\* what its chain activated does not start.
Restart(files, populate) ==
    LET read == initialize_protocol_features(files, populate)
        m    == protocol_feature_manager_init(read.pfs, HeadBlock.pso)
    IN  /\ read.ok /\ m.ok
        /\ pfs' = read.pfs /\ manager' = m
        /\ pending' = << >> /\ to_activate' = << >> /\ signaled' = FALSE
        /\ UNCHANGED <<chain, speculative>>

Genesis == [new |-> << >>, features |-> {}, pre |-> << >>,
            pso |-> [activated |-> << >>, preactivated |-> << >>, preactivate |-> FALSE]]

Init ==
    /\ \E files \in Directories, populate \in BOOLEAN :
          LET read == initialize_protocol_features(files, populate)
          IN  read.ok /\ pfs = read.pfs
    /\ manager = Empty
    /\ chain = <<Genesis>>
    /\ pending = << >> /\ to_activate = << >> /\ signaled = FALSE
    /\ speculative \in BOOLEAN

-----------------------------------------------------------------------------
(* chain_plugin: get_activated_protocol_features *)

\* Iterators are positions 0 .. n, n being the end.
Position(P(_)) ==
    LET n == Len(manager.activated)
        S == {i \in 0 .. n - 1 : P(manager.activated[i + 1].block)}
    IN  IF S = {} THEN n ELSE CHOOSE i \in S : \A j \in S : i <= j
lower_bound(num) == Position(LAMBDA b : b >= num)
upper_bound(num) == Position(LAMBDA b : b > num)
at_activation_ordinal(i) == IF i >= Len(manager.activated) THEN Len(manager.activated) ELSE i
get_next_if_not_end(i) == IF i = Len(manager.activated) THEN i ELSE i + 1

NoMore == -1
\* At most limit entries of from .. to - 1, upwards, and the ordinal to go on from.
walk_range(from, to, limit) ==
    [ordinals |-> {from + i : i \in 0 .. limit - 1} \cap (from .. to - 1),
     more     |-> IF from + limit < to THEN from + limit ELSE NoMore]
\* The same downwards.
walk_reverse(from, to, limit) ==
    [ordinals |-> {to - i : i \in 1 .. limit} \cap (from .. to - 1),
     more     |-> IF to - limit > from THEN to - limit - 1 ELSE NoMore]

get_activated_protocol_features(low, high, limit, by_block, reverse) ==
    LET lower == IF by_block THEN lower_bound(low) ELSE at_activation_ordinal(low)
        upper == IF by_block THEN upper_bound(low)
                 ELSE get_next_if_not_end(at_activation_ordinal(high))
    IN  IF high < low THEN [ordinals |-> {}, more |-> NoMore]
        ELSE IF reverse THEN walk_reverse(lower, upper, limit)
        ELSE walk_range(lower, upper, limit)

-----------------------------------------------------------------------------
Lists == {<< >>} \cup {<<d>> : d \in DOMAIN pfs} \cup {<<d, e>> : d, e \in DOMAIN pfs}

\* What may follow block base, two blocks at most. Headers that ReceiveBranch refuses are left out
\* beforehand. After two pre-activations in a row the second block activates those two: that a
\* block fails when it leaves one out shows after a single one.
Branches(base) ==
    LET accepted == {l \in Lists : check_protocol_features(base + 1, chain[base].features, l)}
        first == [new : accepted, pre : Lists]
        second(b) == {[new |-> l, pre |-> << >>] :
                          l \in {x \in Lists : Len(b.pre) = 2 => ToSet(x) = ToSet(b.pre)}}
    IN  {<<b>> : b \in first} \cup UNION {{<<b, c>> : c \in second(b)} : b \in first}

Next ==
    \/ \E list \in Lists : schedule_protocol_feature_activations(list)
    \/ \E producing \in BOOLEAN : StartBlock(producing)
    \/ \E d \in DOMAIN pfs : Preactivate(d)
    \/ produce_block
    \/ \E base \in {Len(chain) - 1, Len(chain)} \ {0} : \E branch \in Branches(base) : ReceiveBranch(base, branch)
    \/ \E files \in Directories, populate \in BOOLEAN : Restart(files, populate)

Spec == Init /\ [][Next]_vars

-----------------------------------------------------------------------------
(* Properties *)

Now == IF pending # << >> THEN pending[1].pso ELSE HeadBlock.pso

\* The builtins from the head of the manager's linked list, newest first.
RECURSIVE Linked(_, _)
Linked(m, c) == IF c = None THEN << >> ELSE <<c>> \o Linked(m, m.builtin[c].previous)

\* The manager and the database tell the same story after any aborted block, fork switch, failed
\* block or restart: the same activations in the same order at the same blocks, the builtin list
\* threads exactly those, and a feature is active for execution iff the database lists it.
ManagerInStep ==
    /\ manager.activated = Now.activated
    /\ Linked(manager, manager.head) =
          Reverse([i \in DOMAIN Now.activated |-> pfs[Now.activated[i].digest].codename])
    /\ \A c \in DOMAIN codenames :
          is_builtin_activated(manager, c, Len(chain) + 1) <=>
             \E e \in ToSet(Now.activated) : pfs[e.digest].codename = c

\* On every branch a feature is activated once, after everything it depends on, and the header's
\* set of features (which other nodes check) is the database's.
DependenciesFirst ==
    \A n \in DOMAIN chain :
        LET list == chain[n].pso.activated
        IN  /\ chain[n].features = Known(chain[n].pso)
            /\ \A i \in DOMAIN list :
                  /\ \A j \in DOMAIN list : list[i].digest = list[j].digest => i = j
                  /\ pfs[list[i].digest].dependencies \subseteq {list[j].digest : j \in 1 .. i - 1}

\* A block activates everything its parent pre-activated, and nothing that needs pre-activation
\* and was not.
NextActivates ==
    \A n \in 2 .. Len(chain') :
        n > Len(chain) =>
            /\ ToSet(chain'[n - 1].pso.preactivated) \subseteq ToSet(chain'[n].new)
            /\ \A d \in ToSet(chain'[n].new) :
                  pfs[d].required => d \in ToSet(chain'[n - 1].pso.preactivated)
PreactivatedNext == [][NextActivates]_vars

\* Every page of a client that follows "more" through an ordinal range, forwards or backwards.
RECURSIVE Pages(_, _, _, _)
Pages(low, high, limit, reverse) ==
    LET page == get_activated_protocol_features(low, high, limit, FALSE, reverse)
    IN  <<page.ordinals>> \o
        (IF page.more = NoMore THEN << >>
         ELSE IF reverse THEN Pages(low, page.more, limit, TRUE)
         ELSE Pages(page.more, high, limit, FALSE))

Ordinals == 0 .. Len(manager.activated)

\* A client that pages through the activated features by ordinal sees each one in the range once.
PagesPartition ==
    \A low, high \in Ordinals, limit \in 1 .. 2, reverse \in BOOLEAN :
        LET pages == Pages(low, high, limit, reverse)
        IN  /\ UNION ToSet(pages) = (low .. high) \cap (0 .. Len(manager.activated) - 1)
            /\ \A i, j \in DOMAIN pages : i # j => pages[i] \cap pages[j] = {}

\* A search by block number returns the features activated between the bounds.  The code does not
\* keep this: both ends are looked up with the lower bound.
SearchByBlock ==
    \A low, high \in 0 .. MaxBlocks :
        get_activated_protocol_features(low, high, 10, TRUE, FALSE).ordinals =
           {i \in 0 .. Len(manager.activated) - 1 : manager.activated[i + 1].block \in low .. high}

\* An activation an operator scheduled is given up only when the chain has it, when the features
\* are no longer all valid, or when it is replaced or the node restarts.
KeepsScheduled ==
    (to_activate # << >> /\ to_activate' = << >> /\ pfs' = pfs) =>
          \/ ToSet(to_activate) \subseteq Last(chain').features
          \/ ~validate_protocol_features(to_activate)
          \/ \E list \in Lists : schedule_protocol_feature_activations(list)
          \/ \E files \in Directories, populate \in BOOLEAN : Restart(files, populate)
ScheduledKept == [][KeepsScheduled]_vars
=============================================================================
