--------------------------- MODULE Authorization ---------------------------
(***************************************************************************)
(* Permissions: authorization_manager.cpp, authority_checker.hpp,          *)
(* permission_object.hpp, authority.hpp and the native actions of          *)
(* eosio_contract.cpp.                                                     *)
(*                                                                         *)
(* db is the part of the database they keep:                               *)
(*   perms      the permission objects, a function from levels             *)
(*              <<owner, name>> to [id, parent, auth]; the parent is a     *)
(*              name of the same owner, NoName for none;                   *)
(*   links      the permission links, from <<account, code, type>> to the  *)
(*              required permission; the type "" is any action of code;    *)
(*   gtos       the delayed input transactions                             *)
(*              [trx_id, actions, delay, payer];                               *)
(*   code, code_refs   the code hash of each account and the reference     *)
(*              counts of the code objects;                                *)
(*   abi, ram   the size of each account's abi and its RAM usage;          *)
(*   next_id    of the permission index.                                   *)
(* An authority is [threshold, keys, accounts, waits] with sequences of    *)
(* [of, weight] in it.  What a transaction is signed with is ask:          *)
(* [keys, permissions, delay].                                             *)
(***************************************************************************)
EXTENDS Integers, FiniteSets, FiniteSetsExt, Sequences, SequencesExt, Functions

CONSTANTS Levels,                  \* the permission levels in ascending order
          NoName,
          Transactions,            \* sequences of actions
          Asks,                    \* signatures a transaction may carry
          max_authority_depth, max_transaction_delay, activated,
          MaxIds                   \* bound: permissions ever created

VARIABLES db,
          last      \* what the last transaction was signed with, NotSigned when it had been delayed

vars == <<db, last>>

OwnerOf(level) == level[1]
Name(level)    == level[2]
Infinity       == 1000000
NotSigned      == [keys |-> {}, permissions |-> {}, delay |-> -1]

(***************************************************************************)
(* The permission hierarchy.                                               *)
(***************************************************************************)
Exists(d, level) == level \in DOMAIN d.perms
Parent(d, level) == <<OwnerOf(level), d.perms[level].parent>>

RECURSIVE satisfies(_, _, _)
satisfies(d, level, other) ==
   /\ OwnerOf(level) = OwnerOf(other)
   /\ \/ level = other
      \/ d.perms[other].parent # NoName /\ satisfies(d, level, Parent(d, other))

\* get_permission(level).satisfies(get_permission(min)): neither may be missing
Holds(d, level, min) == Exists(d, level) /\ Exists(d, min) /\ satisfies(d, level, min)

(***************************************************************************)
(* authority_checker.  A state of the check is the permission cache, the   *)
(* keys marked as used, the weight tallied so far for the authority being  *)
(* looked at and whether that has reached its threshold.                   *)
(***************************************************************************)
\* Mutant: a permission that is being evaluated counts as satisfied
cycle_in_cache(cache, level) ==
   IF level \in DOMAIN cache THEN IF cache[level] = "being_evaluated" THEN "satisfied" ELSE cache[level]
   ELSE IF <<OwnerOf(level), NoName>> \in DOMAIN cache THEN cache[<<OwnerOf(level), NoName>>]
   ELSE "unknown"

permission_status_in_cache(cache, level) ==
   IF level \in DOMAIN cache THEN cache[level]
   ELSE IF <<OwnerOf(level), NoName>> \in DOMAIN cache THEN cache[<<OwnerOf(level), NoName>>]
   ELSE "unknown"

initialize_permission_cache(ask) == [level \in ask.permissions |-> "satisfied"]

Sorted(S, before(_, _)) ==
   [n \in 1..Cardinality(S) |-> CHOOSE x \in S : Cardinality({y \in S : before(y, x)}) = n - 1]

\* by weight, then waits before keys before accounts, from the greatest
meta_permissions(auth) ==
   LET entries(kind, priority, s) ==
          [i \in DOMAIN s |-> [kind |-> kind, weight |-> s[i].weight, priority |-> priority, of |-> s[i].of]]
       all == entries("account", 1, auth.accounts) \o entries("key", 2, auth.keys) \o entries("wait", 3, auth.waits)
       before(i, j) == \/ all[i].weight > all[j].weight
                       \/ all[i].weight = all[j].weight /\ all[i].priority > all[j].priority
                       \/ all[i].weight = all[j].weight /\ all[i].priority = all[j].priority /\ i < j
       order == Sorted(DOMAIN all, before)
   IN [n \in DOMAIN all |-> all[order[n]]]

Set(f, x, v) == [y \in DOMAIN f \cup {x} |-> IF y = x THEN v ELSE f[y]]

RECURSIVE satisfied_authority(_, _, _, _, _)
RECURSIVE weight_tally_visitor(_, _, _, _, _)

\* the keys newly used are kept only when the authority is satisfied, the cache always
satisfied_authority(d, auth, ask, st, depth) ==
   LET weighed(v) == [v EXCEPT !.enough = v.weight >= auth.threshold]
       visit(acc, mp) == IF acc.enough THEN acc ELSE weighed(weight_tally_visitor(d, mp, ask, acc, depth))
       result(final) == [st EXCEPT !.cache = final.cache, !.enough = final.enough,
                                   !.used = IF final.enough THEN final.used ELSE @]
   IN result(FoldLeft(visit, [st EXCEPT !.weight = 0, !.enough = FALSE], meta_permissions(auth)))

weight_tally_visitor(d, mp, ask, st, depth) ==
   LET heavier == [st EXCEPT !.weight = @ + mp.weight]
       status  == permission_status_in_cache(st.cache, mp.of)
       evaluated(inner) ==
          [IF inner.enough THEN heavier ELSE st EXCEPT
              !.cache = Set(inner.cache, mp.of, IF inner.enough THEN "satisfied" ELSE "unsatisfied"),
              !.used = inner.used]
   IN CASE mp.kind = "wait" -> IF ask.delay >= mp.of THEN heavier ELSE st
        [] mp.kind = "key" ->
              IF mp.of \in ask.keys THEN [heavier EXCEPT !.used = @ \cup {mp.of}] ELSE st
        [] mp.kind = "account" /\ status = "satisfied" -> heavier
        [] mp.kind = "account" /\ status = "unknown" /\ depth < max_authority_depth /\ Exists(d, mp.of) ->
              evaluated(satisfied_authority(d, d.perms[mp.of].auth, ask,
                                            [st EXCEPT !.cache = Set(@, mp.of, "being_evaluated")], depth + 1))
        [] OTHER -> st

\* satisfied(permission_level): a cache of its own, the used keys of the whole check
satisfied(d, level, ask, used) ==
   LET result(st) == [ok |-> st.weight > 0, used |-> st.used]
   IN result(weight_tally_visitor(d, [kind |-> "account", weight |-> 1, of |-> level], ask,
                                  [cache |-> initialize_permission_cache(ask), used |-> used,
                                   weight |-> 0, enough |-> FALSE], 0))

\* a list of levels, each with its delay, in order; stops at the first that is not satisfied
check_levels(d, levels, delayof, ask) ==
   LET step(acc, level) == IF ~acc.ok THEN acc
                           ELSE satisfied(d, level, [ask EXCEPT !.delay = delayof[level]], acc.used)
   IN FoldLeft(step, [ok |-> TRUE, used |-> {}], levels)

(***************************************************************************)
(* check_authorization of the actions of a transaction, before any of them *)
(* is executed.  Each operator says whether the code goes on.              *)
(***************************************************************************)
lookup_linked_permission(d, account, code, type) ==
   IF <<account, code, type>> \in DOMAIN d.links THEN d.links[<<account, code, type>>]
   ELSE IF <<account, code, "">> \in DOMAIN d.links THEN d.links[<<account, code, "">>]
   ELSE NoName

unlinkable == {"updateauth", "deleteauth", "linkauth", "unlinkauth", "canceldelay"}

\* the name of the permission, or "eosio.any" when none is needed
lookup_minimum_permission(d, account, code, type) ==
   LET linked == lookup_linked_permission(d, account, code, type)
   IN IF linked = NoName THEN "active" ELSE linked

MeetsMinimum(d, level, account, min) == min = "eosio.any" \/ Holds(d, level, <<account, min>>)

OneAuth(act, account) == Len(act.auths) = 1 /\ OwnerOf(act.auths[1]) = account

check_updateauth_authorization(d, act) ==
   /\ OneAuth(act, act.of)
   /\ Holds(d, act.auths[1], IF Exists(d, <<act.of, act.permission>>) THEN <<act.of, act.permission>>
                             ELSE <<act.of, act.parent>>)

\* Mutant: any permission of the account will do
delete_by_anyone(d, act) == OneAuth(act, act.of) /\ Exists(d, act.auths[1])

check_deleteauth_authorization(d, act) ==
   OneAuth(act, act.of) /\ Holds(d, act.auths[1], <<act.of, act.permission>>)

check_linkauth_authorization(d, act) ==
   /\ OneAuth(act, act.of)
   /\ (act.code = "eosio" \/ "fix_linkauth_restriction" \notin activated) => act.type \notin unlinkable
   /\ MeetsMinimum(d, act.auths[1], act.of, lookup_minimum_permission(d, act.of, act.code, act.type))

check_unlinkauth_authorization(d, act) ==
   LET linked == lookup_linked_permission(d, act.of, act.code, act.type)
   IN /\ OneAuth(act, act.of)
      /\ linked # NoName
      /\ MeetsMinimum(d, act.auths[1], act.of, linked)

Delayed(d, trx_id) == {g \in d.gtos : g.trx_id = trx_id}

check_canceldelay_authorization(d, act) ==
   /\ Len(act.auths) = 1
   /\ Holds(d, act.auths[1], act.canceling_auth)
   /\ \E g \in Delayed(d, act.trx_id) : \E i \in DOMAIN g.actions :
         act.canceling_auth \in ToSet(g.actions[i].auths)

check_action(d, act) ==
   IF act.account = "eosio" /\ act.name \in unlinkable
   THEN CASE act.name = "updateauth"  -> check_updateauth_authorization(d, act)
          [] act.name = "deleteauth"  -> check_deleteauth_authorization(d, act)
          [] act.name = "linkauth"    -> check_linkauth_authorization(d, act)
          [] act.name = "unlinkauth"  -> check_unlinkauth_authorization(d, act)
          [] act.name = "canceldelay" -> check_canceldelay_authorization(d, act)
   ELSE \A i \in DOMAIN act.auths :
           LET level == act.auths[i]
               min   == lookup_minimum_permission(d, OwnerOf(level), act.account, act.name)
           IN MeetsMinimum(d, level, OwnerOf(level), min)

\* canceling a transaction that was delayed longer counts as that delay
delay_of(d, act, delay) ==
   IF act.account = "eosio" /\ act.name = "canceldelay"
   THEN Max({delay} \cup {g.delay : g \in Delayed(d, act.trx_id)})
   ELSE delay

check_authorization(d, actions, asked, allow_unused_keys) ==
   LET delay     == IF asked.delay >= max_transaction_delay THEN Infinity ELSE asked.delay
       ask       == [asked EXCEPT !.delay = delay]
       declaring(level) == {i \in DOMAIN actions : level \in ToSet(actions[i].auths)}
       delays    == [level \in ToSet(Levels) |->
                        Min({Infinity} \cup {delay_of(d, actions[i], delay) : i \in declaring(level)})]
       checked   == check_levels(d, SelectSeq(Levels, LAMBDA l : declaring(l) # {}), delays, ask)
   IN /\ \A i \in DOMAIN actions : check_action(d, actions[i])
      /\ checked.ok
      /\ allow_unused_keys \/ checked.used = ask.keys

\* the keys among the candidates that sign, or none when they cannot
get_required_keys(d, actions, candidates, delay) ==
   LET levels == FlattenSeq([i \in DOMAIN actions |-> actions[i].auths])
   IN check_levels(d, levels, [level \in ToSet(levels) |-> delay],
                   [keys |-> candidates, permissions |-> {}, delay |-> delay])

(***************************************************************************)
(* The native actions.  An operator says whether the handler throws and    *)
(* what it leaves in the database.                                         *)
(***************************************************************************)
Weight(s) == MapThenSumSet(LAMBDA i : s[i].weight, DOMAIN s)

\* the entries are in ascending order, and together they reach the threshold
validate(auth) ==
   LET sorted(s, lt(_, _)) == \A i \in DOMAIN s : i > 1 => lt(s[i - 1].of, s[i].of)
       at(level) == CHOOSE i \in DOMAIN Levels : Levels[i] = level
   IN /\ auth.threshold > 0
      /\ sorted(auth.keys, LAMBDA x, y : x < y)
      /\ sorted(auth.accounts, LAMBDA x, y : at(x) < at(y))
      /\ sorted(auth.waits, LAMBDA x, y : x < y)
      /\ auth.waits # << >> => auth.waits[1].of # 0
      /\ Weight(auth.keys) + Weight(auth.accounts) + Weight(auth.waits) >= auth.threshold

AccountExists(d, a) == a \in DOMAIN d.ram

validate_authority_precondition(d, auth) ==
   \A i \in DOMAIN auth.accounts :
      LET level == auth.accounts[i].of
      IN /\ AccountExists(d, OwnerOf(level))
         /\ Name(level) \in {"owner", "active", "eosio.code"} \/ Exists(d, level)

AuthSize(auth) == Len(auth.keys) + Len(auth.accounts) + Len(auth.waits)
PermSize(auth) == 1 + AuthSize(auth)
LinkSize       == 1
GtoSize        == 1

add_ram_usage(d, a, delta) == [d EXCEPT !.ram[a] = @ + delta]

create_permission(d, level, parent, auth) ==
   [d EXCEPT !.perms = Set(@, level, [id |-> d.next_id, parent |-> parent, auth |-> auth]),
             !.next_id = @ + 1]

modify_permission(d, level, auth) == [d EXCEPT !.perms[level].auth = auth]

has_children(d, level) == \E other \in DOMAIN d.perms : Parent(d, other) = level

remove_permission(d, level) == [d EXCEPT !.perms = Restrict(@, DOMAIN @ \ {level})]

Done(d)      == [ok |-> TRUE, db |-> d]
If(ok, d, e) == IF ok THEN Done(e) ELSE [ok |-> FALSE, db |-> d]

apply_eosio_newaccount(d, act) ==
   LET a       == act.of
       named   == [d EXCEPT !.ram = Set(@, a, 0), !.code = Set(@, a, NoName), !.abi = Set(@, a, 0)]
       owner   == create_permission(named, <<a, "owner">>, NoName, act.owner)
       active  == create_permission(owner, <<a, "active">>, "owner", act.active)
   IN If(/\ validate(act.owner) /\ validate(act.active)
         /\ ~AccountExists(d, a)
         /\ \A auth \in {act.owner, act.active} : validate_authority_precondition(named, auth),
         d, add_ram_usage(active, a, 1 + PermSize(act.owner) + PermSize(act.active)))

\* a code object goes with its last account; the code size is billed to every account that runs it
apply_eosio_setcode(d, act) ==
   LET old     == d.code[act.of]
       without == IF old = NoName THEN d.code_refs
                  ELSE IF d.code_refs[old] = 1 THEN Restrict(d.code_refs, DOMAIN d.code_refs \ {old})
                  ELSE [d.code_refs EXCEPT ![old] = @ - 1]
       with    == IF act.code = NoName THEN without
                  ELSE Set(without, act.code, 1 + (IF act.code \in DOMAIN without THEN without[act.code] ELSE 0))
       size(h) == IF h = NoName THEN 0 ELSE 2
   IN If(act.code # old, d,
         add_ram_usage([d EXCEPT !.code_refs = with, !.code[act.of] = act.code], act.of, size(act.code) - size(old)))

apply_eosio_setabi(d, act) ==
   Done(add_ram_usage([d EXCEPT !.abi[act.of] = act.size], act.of, act.size - d.abi[act.of]))

ParentRule(act) ==
   /\ act.permission # act.parent
   /\ act.permission = "active" => act.parent = "owner"
   /\ (act.permission = "owner") <=> (act.parent = NoName)

apply_eosio_updateauth(d, act) ==
   LET level == <<act.of, act.permission>>
       found == Exists(d, level)
       auth  == act.auth
   IN If(/\ ParentRule(act)
         /\ AccountExists(d, act.of)
         /\ validate(auth)
         /\ auth.waits # << >> => Last(auth.waits).of <= max_transaction_delay
         /\ validate_authority_precondition(d, auth)
         /\ act.parent # NoName => Exists(d, <<act.of, act.parent>>)
         /\ found => d.perms[level].parent = act.parent,
         d,
         IF found
         THEN add_ram_usage(modify_permission(d, level, auth), act.of, PermSize(auth) - PermSize(d.perms[level].auth))
         ELSE add_ram_usage(create_permission(d, level, act.parent, auth), act.of, PermSize(auth)))

apply_eosio_deleteauth(d, act) ==
   LET level == <<act.of, act.permission>>
   IN If(/\ act.permission \notin {"owner", "active"}
         /\ \A l \in DOMAIN d.links : ~(l[1] = act.of /\ d.links[l] = act.permission)
         /\ Exists(d, level)
         /\ ~has_children(d, level),
         d, add_ram_usage(remove_permission(d, level), act.of, -PermSize(d.perms[level].auth)))

\* before ONLY_LINK_TO_EXISTING_PERMISSION the permission may be any account's
apply_eosio_linkauth(d, act) ==
   LET key   == <<act.of, act.code, act.type>>
       found == key \in DOMAIN d.links
       may   == IF "only_link_to_existing_permission" \in activated
                THEN Exists(d, <<act.of, act.requirement>>)
                ELSE \E level \in DOMAIN d.perms : Name(level) = act.requirement
       linked == [d EXCEPT !.links = Set(@, key, act.requirement)]
   IN If(/\ AccountExists(d, act.of) /\ AccountExists(d, act.code)
         /\ act.requirement # "eosio.any" => may
         /\ found => d.links[key] # act.requirement,
         d, IF found THEN linked ELSE add_ram_usage(linked, act.of, LinkSize))

apply_eosio_unlinkauth(d, act) ==
   LET key == <<act.of, act.code, act.type>>
   IN If(key \in DOMAIN d.links, d,
         add_ram_usage([d EXCEPT !.links = Restrict(@, DOMAIN @ \ {key})], act.of, -LinkSize))

\* a delayed transaction that goes returns the RAM its payer was billed
remove_delayed(d, g) == add_ram_usage([d EXCEPT !.gtos = @ \ {g}], g.payer, -GtoSize)

apply_eosio_canceldelay(d, act) ==
   LET found == Delayed(d, act.trx_id)
   IN Done(IF found = {} THEN d ELSE remove_delayed(d, CHOOSE g \in found : TRUE))

apply_action(d, act) ==
   IF act.account # "eosio" THEN Done(d)
   ELSE CASE act.name = "newaccount"  -> apply_eosio_newaccount(d, act)
          [] act.name = "setcode"     -> apply_eosio_setcode(d, act)
          [] act.name = "setabi"      -> apply_eosio_setabi(d, act)
          [] act.name = "updateauth"  -> apply_eosio_updateauth(d, act)
          [] act.name = "deleteauth"  -> apply_eosio_deleteauth(d, act)
          [] act.name = "linkauth"    -> apply_eosio_linkauth(d, act)
          [] act.name = "unlinkauth"  -> apply_eosio_unlinkauth(d, act)
          [] act.name = "canceldelay" -> apply_eosio_canceldelay(d, act)

Applied(d, actions) ==
   FoldLeft(LAMBDA acc, act : IF acc.ok THEN apply_action(acc.db, act) ELSE acc, Done(d), actions)

(***************************************************************************)
(* Permissions in a snapshot: rows in the order of their ids, the parent   *)
(* by name; a row finds its parent among those already read.               *)
(***************************************************************************)
add_to_snapshot(d) ==
   LET ordered == Sorted(DOMAIN d.perms, LAMBDA x, y : d.perms[x].id < d.perms[y].id)
   IN [i \in DOMAIN ordered |-> [level |-> ordered[i], parent |-> d.perms[ordered[i]].parent,
                                 auth |-> d.perms[ordered[i]].auth]]

read_from_snapshot(rows) ==
   LET create(acc, row) ==
          IF acc.ok /\ (row.parent = NoName \/ <<OwnerOf(row.level), row.parent>> \in DOMAIN acc.perms)
          THEN [acc EXCEPT !.perms = Set(@, row.level, [parent |-> row.parent, auth |-> row.auth])]
          ELSE [acc EXCEPT !.ok = FALSE]
   IN FoldLeft(create, [ok |-> TRUE, perms |-> << >>], rows)

(***************************************************************************)
(* Transactions.  An input transaction is checked when it is pushed; one   *)
(* with a delay is executed later, without another check.                  *)
(***************************************************************************)
Signed(trx, ask) == [keys |-> ask.keys, permissions |-> ask.permissions, delay |-> trx.delay]

schedule_transaction(d, trx) ==
   LET payer == OwnerOf(trx.actions[1].auths[1])
   IN add_ram_usage([d EXCEPT !.gtos = @ \cup {[trx_id |-> trx.id, actions |-> trx.actions,
                                                delay |-> trx.delay, payer |-> payer]}], payer, GtoSize)

push_transaction(trx, ask) ==
   LET done == Applied(db, trx.actions)
   IN /\ check_authorization(db, trx.actions, Signed(trx, ask), FALSE)
      /\ db.next_id < MaxIds
      /\ IF trx.delay = 0
         THEN done.ok /\ db' = done.db
         ELSE Delayed(db, trx.id) = {} /\ db' = schedule_transaction(db, trx)
      /\ last' = Signed(trx, ask)

\* the transaction is gone whether its actions fail or not
push_delayed_transaction(g) ==
   LET removed == remove_delayed(db, g)
       done    == Applied(removed, g.actions)
   IN /\ db' = IF done.ok THEN done.db ELSE removed
      /\ last' = NotSigned

Next == \/ \E trx \in Transactions, ask \in Asks : push_transaction(trx, ask)
        \/ \E g \in db.gtos : push_delayed_transaction(g)

\* accounts as newaccount leaves them, with these authorities for owner and active
InitWith(accounts, auth) ==
   LET new(d, a) == apply_eosio_newaccount(d, [of |-> a, owner |-> auth[a], active |-> auth[a]]).db
   IN /\ db = FoldLeft(new, [perms |-> << >>, links |-> << >>, gtos |-> {}, code |-> << >>,
                             code_refs |-> << >>, abi |-> << >>, ram |-> << >>, next_id |-> 1], accounts)
      /\ last = NotSigned

(***************************************************************************)
(* What the code is to satisfy.                                            *)
(***************************************************************************)
\* the levels that a set of keys, permissions and a delay can satisfy, from the definition of
\* an authority alone: no order, no cache and no depth
Satisfiable(d, ask) ==
   LET given(level) == level \in ask.permissions \/ <<OwnerOf(level), NoName>> \in ask.permissions
       delay        == IF ask.delay >= max_transaction_delay THEN Infinity ELSE ask.delay
       weight(auth, S) ==
          Weight(SelectSeq(auth.keys, LAMBDA e : e.of \in ask.keys))
          + Weight(SelectSeq(auth.waits, LAMBDA e : e.of <= delay))
          + Weight(SelectSeq(auth.accounts, LAMBDA e : e.of \in S \/ given(e.of)))
       more(S)      == S \cup {l \in DOMAIN d.perms : given(l) \/ weight(d.perms[l].auth, S) >= d.perms[l].auth.threshold}
   IN FoldLeft(LAMBDA S, l : more(S), {}, Levels)

\* The authority checker accepts a level only when the keys and permissions provided really
\* reach the thresholds of an authority tree below it: neither its order of evaluation, its
\* cache, which outlives the parts that failed, nor a cycle of permissions that refer to each
\* other makes it accept more (authority_checker::satisfied).
CheckerSound ==
   \A ask \in Asks, level \in DOMAIN db.perms :
      satisfied(db, level, ask, {}).ok => level \in Satisfiable(db, ask)

\* A permission of an existing account is created, changed or deleted by a transaction that is
\* not delayed only if its signatures satisfy the permission or one above it, or the parent of
\* a new one: the minimum permissions, links, hierarchy and checker agree with the handlers,
\* which run after all checks (check_updateauth_authorization, apply_eosio_updateauth, ...).
HeldStep ==
   last' # NotSigned =>
        \A level \in DOMAIN db.perms \cup DOMAIN db'.perms :
           LET before == Exists(db, level)
               after  == level \in DOMAIN db'.perms
               above  == IF before THEN level ELSE <<OwnerOf(level), db'.perms[level].parent>>
           IN AccountExists(db, OwnerOf(level)) /\ (before # after \/ (before /\ db.perms[level] # db'.perms[level]))
              => \E l \in Satisfiable(db, last') : satisfies(db, l, above)
OnlyByHolders == [][HeldStep]_vars

\* The tables of the native contract agree, also when delayed actions meet tables that changed
\* after they were checked: a parent is there; with ONLY_LINK_TO_EXISTING_PERMISSION a link
\* leads to a permission of its account, so that no lookup fails; a code object counts its
\* accounts; and every account is billed for what it has (eosio_contract.cpp).
TablesAgree ==
   /\ \A l \in DOMAIN db.perms : db.perms[l].parent # NoName => Exists(db, Parent(db, l))
   /\ "only_link_to_existing_permission" \in activated =>
         \A k \in DOMAIN db.links : db.links[k] = "eosio.any" \/ Exists(db, <<k[1], db.links[k]>>)
   /\ \A h \in DOMAIN db.code_refs : db.code_refs[h] = Cardinality({a \in DOMAIN db.code : db.code[a] = h})
   /\ \A a \in DOMAIN db.ram :
         db.ram[a] = 1 + MapThenSumSet(LAMBDA l : PermSize(db.perms[l].auth), {l \in DOMAIN db.perms : OwnerOf(l) = a})
                     + LinkSize * Cardinality({k \in DOMAIN db.links : k[1] = a})
                     + GtoSize * Cardinality({g \in db.gtos : g.payer = a})
                     + db.abi[a] + (IF db.code[a] = NoName THEN 0 ELSE 2)

\* A snapshot restores the permissions: a permission is written after its parent, whatever was
\* deleted and created again before (snapshot_row_traits<permission_object>).
RestoresPermissions ==
   LET read == read_from_snapshot(add_to_snapshot(db))
   IN read.ok /\ read.perms = [l \in DOMAIN db.perms |-> [parent |-> db.perms[l].parent, auth |-> db.perms[l].auth]]

\* The keys that get_required_keys names are enough to sign the transaction: a key is dropped
\* only when the authority it was used for is not part of the answer (authority_checker.hpp:
\* "if we do not satisfy this authority, the newly used keys aren't actually used").  The code
\* does not keep this.
RequiredKeysSuffice ==
   \A trx \in Transactions, ask \in Asks :
      LET required == get_required_keys(db, trx.actions, ask.keys, trx.delay)
      IN required.ok => get_required_keys(db, trx.actions, required.used, trx.delay).ok
=============================================================================
