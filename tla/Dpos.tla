--------------------------------- MODULE Dpos ---------------------------------
(***************************************************************************)
(* The producers of a chain at work. Each runs a node of its own, builds   *)
(* on the head that node has, and says in the header how many blocks it    *)
(* confirms, from the watermark the producer plugin keeps. The network is  *)
(* asynchronous: the head of a node may be any block it could prefer to    *)
(* the last one it made. Nodes crash, and forget their watermark.          *)
(***************************************************************************)
EXTENDS Naturals, Sequences, FiniteSets, FiniteSetsExt
LOCAL INSTANCE Functions

(***************************************************************************)
(* What a block header says of the chain below it: block_header_state, the *)
(* schedule that signs, who has confirmed what, which block that proposes  *)
(* as irreversible and which one is. All of it is computed, header by      *)
(* header, from the slot, the number of confirmations and the schedule the *)
(* header carries.                                                         *)
(***************************************************************************)

CONSTANTS
    Producer,           \* the account names
    Repetitions,        \* config::producer_repetitions
    MaxTracked,         \* config::maximum_tracked_dpos_confirmations
    Modulus             \* block numbers are unsigned: one more than the largest

\* No schedule is pending; the version of the last one is kept.
NoPending(version, n) == [version |-> version, producers |-> <<>>, lib_num |-> n]

\* The header state of the genesis block, under a first schedule.
genesis_state(schedule) ==
    [num |-> 1, slot |-> 0, producer |-> schedule[1], version |-> 0, active |-> schedule,
     pending |-> NoPending(0, 0), promoted |-> FALSE,
     last_produced |-> <<>>, implied |-> <<>>, proposed |-> 0, lib |-> 0, confirm |-> <<>>]

\* Whose slot t is.
get_scheduled_producer(s, t) ==
    s.active[(t % (Len(s.active) * Repetitions)) \div Repetitions + 1]

\* The k-th smallest value of a function, counting from 0.
NthSmallest(f, k) ==
    CHOOSE v \in {f[x] : x \in DOMAIN f} :
        /\ Cardinality({x \in DOMAIN f : f[x] < v}) <= k
        /\ Cardinality({x \in DOMAIN f : f[x] <= v}) > k

\* More than two thirds of the producers are at or past the result; the
\* producer of the next block counts with what the chain proposes now.
calc_dpos_last_irreversible(s, p) ==
    LET blocknums == [q \in DOMAIN s.implied |-> IF q = p THEN s.proposed ELSE s.implied[q]]
    IN  IF DOMAIN blocknums = {} THEN 0
        ELSE NthSmallest(blocknums, (Cardinality(DOMAIN blocknums) - 1) \div 3)

\* The confirmations the next block starts with: one counter more, or the
\* oldest dropped where as many as can be tracked are there.
grow_confirm_count(confirm, required) ==
    Append(IF Len(confirm) < MaxTracked THEN confirm ELSE Tail(confirm), required)

required_confs(n) == (n * 2) \div 3 + 1

\* The last confirmed + 1 counters go down by one. The newest that reaches zero
\* proposes its block; it and all older ones are dropped.
confirm_blocks(confirm, confirmed) ==
    LET window == {i \in DOMAIN confirm : i + confirmed + 1 > Len(confirm)}
        lowered == [i \in DOMAIN confirm |-> IF i \in window THEN confirm[i] - 1 ELSE confirm[i]]
        zero == {i \in window : lowered[i] = 0}
        top == CHOOSE i \in zero : \A j \in zero : j <= i
    IN  [confirm |-> IF zero = {} THEN lowered ELSE SubSeq(lowered, top + 1, Len(lowered)),
         dropped |-> IF zero = {} THEN 0 ELSE Len(lowered) - top + 1]

\* The two assertions of next: time goes on, and no producer confirms a number
\* at or below its last block on this chain.
can_follow(s, when, confirmed) ==
    LET p == get_scheduled_producer(s, when)
    IN  /\ when > s.slot
        /\ p \in DOMAIN s.last_produced => 
              s.last_produced[p] < (s.num + 1 + Modulus - confirmed) % Modulus

\* Mutation: producers without an entry start at zero.
PromotedFromZero(old, producers, p, mine, lib) ==
    [q \in producers |-> IF q = p THEN mine ELSE IF q \in DOMAIN old THEN old[q] ELSE 0]

\* A map by producer after a promotion: the producers of the new schedule keep
\* their entries, those without one start at the irreversible block.
promoted_map(old, producers, p, mine, lib) ==
    [q \in producers |-> IF q = p THEN mine ELSE IF q \in DOMAIN old THEN old[q] ELSE lib]

\* block_header_state::next, without the schedule the header may carry.
next(s, when, confirmed) ==
    LET p == get_scheduled_producer(s, when)
        n == s.num + 1
        grown == grow_confirm_count(s.confirm, required_confs(Len(s.active)))
        counted == confirm_blocks(grown, confirmed)
        lib == calc_dpos_last_irreversible(s, p)
        promotes == s.pending.producers # <<>> /\ lib >= s.pending.lib_num
        new == Range(s.pending.producers)
        produced == IF promotes THEN promoted_map(s.last_produced, new, p, n, lib)
                    ELSE s.last_produced
        implied == IF promotes THEN promoted_map(s.implied, new, p, s.proposed, lib)
                   ELSE s.implied
    IN  [num |-> n, slot |-> when, producer |-> p,
         version |-> IF promotes THEN s.pending.version ELSE s.version,
         active |-> IF promotes THEN s.pending.producers ELSE s.active,
         pending |-> IF promotes THEN NoPending(s.pending.version, s.pending.lib_num) ELSE s.pending,
         promoted |-> promotes,
         last_produced |-> [q \in DOMAIN produced \cup {p} |-> IF q = p THEN n ELSE produced[q]],
         implied |-> IF promotes THEN implied
                     ELSE [q \in DOMAIN implied \cup {p} |-> IF q = p THEN s.proposed ELSE implied[q]],
         proposed |-> IF counted.dropped = 0 THEN s.proposed ELSE n + 1 - counted.dropped,
         lib |-> lib, confirm |-> counted.confirm]

\* The assertions of _finish_next on a header that carries a new schedule: none
\* is pending, none has just been promoted, and the version is the next one.
can_carry(r, schedule) ==
    /\ ~r.promoted
    /\ r.pending.producers = <<>>
    /\ schedule.version = r.version + 1

\* The schedule a header carries is pending from its block on.
finish_next(r, schedule) ==
    [r EXCEPT !.pending = [version |-> schedule.version, producers |-> schedule.producers,
                           lib_num |-> r.num]]

-----------------------------------------------------------------------------

CONSTANT
    Scenarios           \* the settings to run under, each a record of the bounds below

VARIABLES
    scenario,           \* one of Scenarios
    blocks,             \* every block made: its parent, header state and gpo
    watermark,          \* _producer_watermarks, at the node of each producer
    head,               \* the last block each node is known to have had as head
    enabled,            \* the producers whose node has _production_enabled
    now,                \* the slot
    crashes             \* how often a node has crashed

FirstSchedule == scenario.first     \* who produces after the genesis block
Proposals == scenario.proposals     \* the schedules that may be proposed
MaxSlot == scenario.last            \* bound: the last slot
Warmup == scenario.warmup           \* bound: up to this slot no slot is missed and nothing forks
MaxBack == scenario.back            \* bound: later, how far behind the newest block a head may be
MaxCrashes == scenario.crashes      \* bound: crashes of all nodes together

vars == <<scenario, blocks, watermark, head, enabled, now, crashes>>

Nothing == [num |-> 0, slot |-> 0]
NoProposal == [num |-> 0, version |-> 0, producers |-> <<>>]

GenesisBlock ==
    [parent |-> 0, confirmed |-> 0, state |-> genesis_state(FirstSchedule), gpo |-> NoProposal]

State(b) == blocks[b].state

\* A block and its ancestors.
Branch(b) ==
    LET below[x \in DOMAIN blocks] == IF x = 1 THEN {1} ELSE {x} \cup below[blocks[x].parent]
    IN  below[b]

\* The block with number n on the branch of b.
OnBranch(b, n) == CHOOSE x \in Branch(b) : State(x).num = n

\* first_preferred of the fork database, on header states.
Preferred(s, t) == s.lib > t.lib \/ (s.lib = t.lib /\ s.num > t.num)

\* The node of p can have b as its head: the branch goes through what the node
\* holds irreversible, and the head it had is not preferred to b.
CanHaveHead(p, b) ==
    /\ State(head[p]).lib > 0 => OnBranch(head[p], State(head[p]).lib) \in Branch(b)
    /\ ~Preferred(State(head[p]), State(b))

\* on_incoming_block: a node that has started produces once it has received a
\* block that is not old. It has, when b is new to it.
ProductionEnabled(p, b) == p \in enabled \/ b \notin Branch(head[p])

\* A watermark after one more block of its producer.
consider_new_watermark(w, s) == [num |-> Max({w.num, s.num}), slot |-> Max({w.slot, s.slot})]

\* on_block_header, for every block of p that its node is sent on the way from
\* the head it had to b.
Watermark(p, b) ==
    LET sent == {x \in Branch(b) \ Branch(head[p]) : State(x).producer = p}
    IN  IF sent = {} THEN watermark[p]
        ELSE consider_new_watermark(watermark[p], State(Max(sent)))

\* start_block: the watermark excludes no block on s in the slot.
MayProduce(w, s, slot) == w = Nothing \/ (w.num <= s.num /\ w.slot < slot)

\* Mutation: off by one, the signed block is counted again.
ConfirmsSigned(w, s) ==
    Min({IF w # Nothing /\ w.num < s.num THEN s.num - w.num + 1 ELSE 0, s.num - s.lib})

\* start_block: how many blocks below the new one are confirmed.
blocks_to_confirm(w, s) ==
    LET unsigned_since == IF w # Nothing /\ w.num < s.num THEN s.num - w.num ELSE 0
    IN  Min({unsigned_since, s.num - s.lib})

\* controller_impl::start_block: a proposed schedule whose block has become
\* irreversible is carried by this block, when no schedule was pending before.
Carries(b, r) ==
    /\ blocks[b].gpo.num # 0
    /\ blocks[b].gpo.num <= r.lib
    /\ State(b).pending.producers = <<>>

\* controller::set_proposed_producers, called while the block on b is built;
\* held is the proposal at that point and r the header state.
set_proposed_producers(b, r, held, producers) ==
    LET before == IF Carries(b, r) THEN blocks[b].gpo ELSE State(b).pending
        last == IF before.producers = <<>> THEN [version |-> r.version, producers |-> r.active]
                ELSE before
    IN  IF held.num # 0 \/ producers = last.producers THEN held
        ELSE [num |-> r.num, version |-> last.version + 1, producers |-> producers]

Init ==
    /\ scenario \in Scenarios
    /\ blocks = <<GenesisBlock>>
    /\ watermark = [p \in Producer |-> Nothing]
    /\ head = [p \in Producer |-> 1]
    /\ enabled = Producer
    /\ now = 0
    /\ crashes = 0

\* The producer of the slot makes a block on b, in which producers may be
\* proposed (<<>> proposes nothing).
produce_block(b, slot, producers) ==
    LET s == State(b)
        p == get_scheduled_producer(s, slot)
        w == Watermark(p, b)
        confirmed == blocks_to_confirm(w, s)
        r == next(s, slot, confirmed)
        proposal == blocks[b].gpo
        held == IF Carries(b, r) THEN NoProposal ELSE proposal
    IN  /\ CanHaveHead(p, b)
        /\ ProductionEnabled(p, b)
        /\ MayProduce(w, s, slot)
        /\ can_follow(s, slot, confirmed)
        /\ Carries(b, r) => can_carry(r, proposal)
        /\ blocks' = Append(blocks,
              [parent |-> b, confirmed |-> confirmed,
               state |-> IF Carries(b, r) THEN finish_next(r, proposal) ELSE r,
               gpo |-> IF producers = <<>> THEN held
                       ELSE set_proposed_producers(b, r, held, producers)])
        /\ watermark' = [watermark EXCEPT ![p] = consider_new_watermark(w, r)]
        /\ head' = [head EXCEPT ![p] = Len(blocks) + 1]
        /\ enabled' = enabled \cup {p}
        /\ now' = slot
        /\ UNCHANGED <<scenario, crashes>>

\* A node crashes: the watermarks are gone, and so may the newest blocks be.
crash(p) ==
    /\ crashes < MaxCrashes
    /\ watermark[p] # Nothing
    /\ watermark' = [watermark EXCEPT ![p] = Nothing]
    /\ \E b \in Branch(head[p]) :
          /\ State(b).num >= State(head[p]).lib
          /\ head' = [head EXCEPT ![p] = b]
    /\ enabled' = enabled \ {p}
    /\ crashes' = crashes + 1
    /\ UNCHANGED <<scenario, blocks, now>>

\* After a crash a node is sent a block its producer made before, on a fork.
on_block_header(p, b) ==
    /\ watermark[p] = Nothing
    /\ State(b).producer = p /\ b \notin Branch(head[p])
    /\ watermark' = [watermark EXCEPT ![p] = consider_new_watermark(@, State(b))]
    /\ UNCHANGED <<scenario, blocks, head, enabled, now, crashes>>

Next ==
    \/ \E b \in DOMAIN blocks, slot \in now .. MaxSlot, producers \in Proposals \cup {<<>>} :
          /\ IF now < Warmup THEN slot = now + 1 /\ b = Len(blocks) ELSE Len(blocks) <= b + MaxBack
          /\ produce_block(b, slot, producers)
    \/ \E p \in Producer : crash(p)
    \/ \E p \in Producer, b \in DOMAIN blocks : on_block_header(p, b)

Spec == Init /\ [][Next]_vars

-----------------------------------------------------------------------------
\* The numbers a block confirms: its own and those its header counts.
Confirmed(b) == (State(b).num - blocks[b].confirmed) .. State(b).num

\* A producer confirms at most one block of every number, whichever forks its
\* node follows: what the watermark is for. It is kept in memory, so this is
\* promised only while no node has crashed.
ConfirmsOnce ==
    crashes = 0 => \A x, y \in DOMAIN blocks \ {1} :
        State(x).producer = State(y).producer /\ x # y =>
            Confirmed(x) \cap Confirmed(y) = {}

\* Two blocks of different forks never have different blocks of one number as
\* dpos_proposed_irreversible_blocknum: more than two thirds have confirmed it,
\* and none of them, as long as it has not crashed, confirms another one.
ProposedAgree ==
    crashes = 0 => \A x, y \in DOMAIN blocks :
        State(x).proposed = State(y).proposed /\ State(x).proposed > 0 =>
            OnBranch(x, State(x).proposed) = OnBranch(y, State(y).proposed)

\* commit_block asserts that the block it adds becomes the head of the fork
\* database, which it does when the block is preferred to its parent.
ChildPreferred ==
    \A b \in DOMAIN blocks \ {1} : Preferred(State(b), State(blocks[b].parent))

\* The block a producer is about to make by its watermark is one that next and
\* _finish_next accept: the assertions on double confirmation, pending schedules
\* and schedule versions never stop a producer that still has its watermark.
HonestAccepted ==
    crashes = 0 => \A b \in DOMAIN blocks, slot \in now .. MaxSlot :
        LET s == State(b)
            p == get_scheduled_producer(s, slot)
            w == Watermark(p, b)
            n == blocks_to_confirm(w, s)
            r == next(s, slot, n)
        IN  slot > s.slot /\ CanHaveHead(p, b) /\ MayProduce(w, s, slot) =>
                can_follow(s, slot, n) /\ (Carries(b, r) => can_carry(r, blocks[b].gpo))

\* On any one branch the chain itself sees to it that no producer confirms a
\* number twice, also when its node has forgotten what it signed.
BranchConfirmsOnce ==
    \A y \in DOMAIN blocks \ {1} : \A x \in Branch(y) \ {1, y} :
        State(x).producer = State(y).producer => Confirmed(x) \cap Confirmed(y) = {}
=============================================================================
