---------------------------- MODULE ProductionLoop ----------------------------
(***************************************************************************)
(* The production loop of the producer plugin on one node. The loop starts *)
(* a block, as producer or speculatively, and sets one timer: to seal the  *)
(* block, to look again when it may be the turn of a producer of this node *)
(* or to try again. Blocks from the network, transactions, operators and   *)
(* the timer itself run on the main thread in any order, and each of them  *)
(* ends by running the loop.                                               *)
(*                                                                         *)
(* Time is counted in ticks; a slot has Interval ticks, and the block of   *)
(* slot s has the timestamp s * Interval.                                  *)
(***************************************************************************)
EXTENDS Naturals, Sequences, FiniteSetsExt

CONSTANTS
    Schedule,       \* the active schedule, a sequence of producers
    Own,            \* _producers, with their keys
    Repetitions,    \* config::producer_repetitions
    Interval,       \* config::block_interval_us
    Offset,         \* how early a block is sealed: produce_time_offset_us, negated,
    LastOffset,     \* and for the last of a turn: last_block_time_offset_us
    StaleAge,       \* 5 seconds: no speculative block on an older head
    Ahead,          \* 7 seconds, in slots: how far ahead a block may be
    MaxTime,        \* bound: the last tick
    MaxNum,         \* bound: the greatest block number
    MaxTimers       \* bound: how often a timer is set

\* plugin_initialize checks the offsets, and a schedule has no producer twice.
ASSUME LoopAssumption ==
    /\ Len(Schedule) \in Nat \ {0} /\ DOMAIN Schedule = 1..Len(Schedule)
    /\ \A i, j \in DOMAIN Schedule : Schedule[i] = Schedule[j] => i = j
    /\ Repetitions \in Nat \ {0} /\ Interval \in Nat \ {0}
    /\ Offset \in 0..Interval /\ LastOffset \in 0..Interval
    /\ {StaleAge, Ahead, MaxTime, MaxNum, MaxTimers} \subseteq Nat

VARIABLES
    now,
    head,           \* number and slot of the head block
    watermark,      \* _producer_watermarks, of the producers of this node
    enabled,        \* _production_enabled
    paused,         \* _pause_production
    lib_old,        \* whether the irreversible block is older than the limit
    mode,           \* _pending_block_mode
    pending,        \* the pending block, or NoBlock
    timer,          \* what the timer is set to, or NoTimer
    ready,          \* handlers that can no longer be cancelled and wait to run
    cid,            \* _timer_corelation_id
    signed          \* the blocks this node has sealed since it started

node_vars == <<head, watermark, enabled, paused, lib_old, mode>>
loop_vars == <<pending, timer, cid>>
vars == <<now, node_vars, loop_vars, ready, signed>>

NoBlock == [num |-> 0, slot |-> 0, full |-> FALSE]
NoTimer == [at |-> 0, cid |-> 0, what |-> "none"]
NoMark == [num |-> 0, slot |-> 0]

Position(p) == CHOOSE i \in DOMAIN Schedule : Schedule[i] = p
get_scheduled_producer(slot) ==
    Schedule[((slot % (Len(Schedule) * Repetitions)) \div Repetitions) + 1]

\* calculate_pending_block_time: the first slot after the clock and the head.
pending_block_slot(h) == (Max({now, h.slot * Interval}) \div Interval) + 1

\* calculate_block_deadline.
block_deadline(slot) ==
    slot * Interval - (IF slot % Repetitions = Repetitions - 1 THEN LastOffset ELSE Offset)

consider_new_watermark(w, b) ==
    LET p == get_scheduled_producer(b.slot)
    IN  IF p \in Own THEN [w EXCEPT ![p] = [num |-> Max({@.num, b.num}), slot |-> Max({@.slot, b.slot})]]
        ELSE w

\* The node as a handler leaves it to the loop.
Node == [head |-> head, watermark |-> watermark, enabled |-> enabled, paused |-> paused,
         lib_old |-> lib_old, mode |-> mode, pending |-> pending]

production_disabled_by_policy(n) == ~n.enabled \/ n.paused \/ n.lib_old

-----------------------------------------------------------------------------
(* The parts of the loop.                                                  *)

\* Mutation: the number of the last signed block is not looked at.
ExcludedByTime(w, h, slot) == w.slot >= slot

\* start_block: the watermark excludes a block on h in the slot.
Excluded(w, h, slot) == w.num > h.num \/ w.slot >= slot

\* calculate_next_block_time: the next slot of p after ref, at which a
\* watermark ahead of the head lets it produce if no slot is missed.
calculate_next_block_time(n, p, ref) ==
    LET w == n.watermark[p]
        block_num == IF n.pending # NoBlock THEN n.head.num + 1 ELSE n.head.num
        by_num == IF w.num > block_num THEN w.num - block_num + 1 ELSE 1
        by_slot == IF w.slot > ref THEN w.slot - ref + 1 ELSE 1
        least == ref + Max({by_num, by_slot})
        index == Position(p) - 1
        at == (least % (Len(Schedule) * Repetitions)) \div Repetitions
        distance == IF index >= at THEN index - at ELSE index + Len(Schedule) - at
    IN  IF index = at THEN least
        ELSE (least - (least % Repetitions)) + distance * Repetitions

\* calculate_producer_wake_up_time, as a set with at most one element.
wake_up_time(n, ref) ==
    LET slots == {calculate_next_block_time(n, p, ref) : p \in Own \cap Range(Schedule)}
    IN  IF slots = {} THEN {} ELSE {(Min(slots) - 1) * Interval}

\* A tenth of a slot.
RetryDelay == 1

\* async_wait: the handler remembers the number of the timer.
Sets(at, what) == cid' = cid + 1 /\ timer' = [at |-> at, cid |-> cid + 1, what |-> what]
SetsNone == UNCHANGED cid /\ timer' = NoTimer

schedule_delayed_production_loop(times) ==
    IF times = {} THEN SetsNone ELSE Sets(Max({now, Min(times)}), "loop")

schedule_maybe_produce_block(slot, full) ==
    Sets(IF full \/ block_deadline(slot) <= now THEN now ELSE block_deadline(slot), "produce")

\* The mode start_block chooses for the block of the slot.
ModeFor(n, slot) ==
    LET p == get_scheduled_producer(slot)
    IN  IF /\ p \in Own
           /\ ~production_disabled_by_policy(n)
           /\ ~Excluded(n.watermark[p], n.head, slot)
        THEN "producing" ELSE "speculating"

\* start_block: no speculative block on a head that is old, no block before its
\* slot begins, and no speculative block right after the last of a turn.
WaitsForBlock(n, m) == m = "speculating" /\ now > n.head.slot * Interval + StaleAge
WaitsForTurn(slot, m) == m = "producing" /\ now < (slot - 1) * Interval
EndsTurn(n, m) == m = "speculating" /\ n.mode = "producing"

WakeUp(n, ref) == IF production_disabled_by_policy(n) THEN {} ELSE wake_up_time(n, ref)

\* The rest of start_block, which can fail and may find the block full at once,
\* and the timer for the block.
StartsBlock(n, slot, m) ==
    \/ pending' = NoBlock /\ Sets(now + RetryDelay, "loop")
    \/ \E full \in BOOLEAN :
          /\ pending' = [num |-> n.head.num + 1, slot |-> slot, full |-> full]
          /\ IF m = "producing" THEN schedule_maybe_produce_block(slot, full)
             ELSE schedule_delayed_production_loop(WakeUp([n EXCEPT !.pending = pending'], slot))

\* schedule_production_loop. The timer that was set is cancelled, but not a
\* handler that is ready.
schedule_production_loop(n) ==
    LET slot == pending_block_slot(n.head)
        m == ModeFor(n, slot)
    IN  /\ head' = n.head /\ watermark' = n.watermark
        /\ enabled' = n.enabled /\ paused' = n.paused
        /\ lib_old' = n.lib_old /\ mode' = m
        /\ IF WaitsForBlock(n, m)
           THEN pending' = n.pending /\ schedule_delayed_production_loop(WakeUp(n, slot))
           ELSE IF WaitsForTurn(slot, m)
           THEN pending' = n.pending /\ schedule_delayed_production_loop(wake_up_time(n, slot - 1))
           ELSE IF EndsTurn(n, m)
           THEN pending' = n.pending /\ schedule_delayed_production_loop({(slot - 1) * Interval})
           ELSE StartsBlock(n, slot, m)

Aborted(n) == [n EXCEPT !.pending = NoBlock]

-----------------------------------------------------------------------------
(* The handlers.                                                           *)

Init ==
    /\ now = Interval
    /\ head = [num |-> 1, slot |-> 1]
    /\ watermark = [p \in Own |-> NoMark]
    /\ enabled \in BOOLEAN      \* enable-stale-production
    /\ paused = FALSE
    /\ lib_old = FALSE
    /\ mode = "speculating"
    /\ pending = NoBlock
    /\ timer = [at |-> now, cid |-> 0, what |-> "loop"]     \* plugin_startup
    /\ ready = {}
    /\ cid = 0
    /\ signed = {}

tick ==
    /\ now < MaxTime
    /\ now' = now + 1
    /\ UNCHANGED <<node_vars, loop_vars, ready, signed>>

\* The timer expires: from now on it can not be cancelled.
timer_expires ==
    /\ timer # NoTimer /\ timer.at <= now
    /\ ready' = ready \cup {timer}
    /\ timer' = NoTimer
    /\ UNCHANGED <<now, node_vars, pending, cid, signed>>

\* maybe_produce_block: seal the block and make it the head, or give it up when
\* there is none or signing it fails; then the loop.
maybe_produce_block ==
    \/ LET b == [num |-> pending.num, slot |-> pending.slot]
       IN  /\ mode = "producing" /\ pending # NoBlock
           /\ pending.num <= MaxNum
           /\ signed' = signed \cup {b}
           /\ \E old \in {lib_old, FALSE} :
                 schedule_production_loop([Aborted(Node) EXCEPT
                     !.head = b, !.lib_old = old,
                     !.watermark = consider_new_watermark(watermark, b)])
    \/ /\ signed' = signed
       /\ schedule_production_loop(Aborted(Node))

\* Mutation: a handler that should have been cancelled runs all the same.
IsCurrent0(h) == TRUE

IsCurrent(h) == h.cid = cid

run_handler(h) ==
    /\ h \in ready
    /\ ready' = ready \ {h}
    /\ \/ ~IsCurrent(h) /\ UNCHANGED <<node_vars, loop_vars, signed>>
       \/ IsCurrent(h) /\ h.what = "loop" /\ schedule_production_loop(Node) /\ UNCHANGED signed
       \/ IsCurrent(h) /\ h.what = "produce" /\ maybe_produce_block
    /\ UNCHANGED now

AbortFirst(n) == Aborted(n)

\* on_incoming_block: dropped while producing. Otherwise the pending block goes;
\* the new one is refused, before or after its header is accepted, or it is
\* accepted, and it or the branch it completes may become the head.
on_incoming_block(b) ==
    LET marked == consider_new_watermark(watermark, b)
    IN  /\ mode # "producing"
        /\ b.slot * Interval < now + Ahead * Interval
        /\ get_scheduled_producer(b.slot) \in Own => b \in signed
        /\ \/ \E w \in {watermark, marked} :
                 schedule_production_loop([AbortFirst(Node) EXCEPT !.watermark = w])
           \/ \E h \in {head, b}, old \in {lib_old, FALSE} :
                 schedule_production_loop([AbortFirst(Node) EXCEPT
                     !.head = h, !.watermark = marked, !.lib_old = old,
                     !.enabled = enabled \/ (h.slot + 1) * Interval >= now])
        /\ UNCHANGED <<now, ready, signed>>

\* on_incoming_transaction_async, when the block being produced turns out full.
on_incoming_transaction ==
    /\ mode = "producing" /\ pending # NoBlock /\ ~pending.full
    /\ pending' = [pending EXCEPT !.full = TRUE]
    /\ schedule_maybe_produce_block(pending.slot, TRUE)
    /\ UNCHANGED <<now, node_vars, ready, signed>>

pause ==
    /\ ~paused /\ paused' = TRUE
    /\ UNCHANGED <<now, head, watermark, enabled, lib_old, mode, loop_vars, ready, signed>>

\* Mutation: the flag is cleared and nothing is scheduled.
ResumesOnly ==
    /\ paused' = FALSE
    /\ UNCHANGED <<head, watermark, enabled, lib_old, mode, loop_vars>>

Resumes ==
    IF mode = "speculating" THEN schedule_production_loop([Aborted(Node) EXCEPT !.paused = FALSE])
    ELSE paused' = FALSE /\ UNCHANGED <<head, watermark, enabled, lib_old, mode, loop_vars>>
resume == paused /\ Resumes /\ UNCHANGED <<now, ready, signed>>

\* The irreversible block grows old, and is young again by a block that advances
\* it or by a new limit.
lib_ages ==
    /\ ~lib_old /\ lib_old' = TRUE
    /\ UNCHANGED <<now, head, watermark, enabled, paused, mode, loop_vars, ready, signed>>
update_runtime_options ==
    /\ \E old \in BOOLEAN :
          IF mode = "speculating"
          THEN schedule_production_loop([Aborted(Node) EXCEPT !.lib_old = old])
          ELSE lib_old' = old /\ UNCHANGED <<head, watermark, enabled, paused, mode, loop_vars>>
    /\ UNCHANGED <<now, ready, signed>>

\* create_snapshot and get_integrity_hash need the state without a pending
\* block.
write_snapshot ==
    /\ pending # NoBlock
    /\ schedule_production_loop(Aborted(Node))
    /\ UNCHANGED <<now, ready, signed>>

Next ==
    \/ tick
    \/ timer_expires
    \/ cid < MaxTimers /\ \E h \in ready : run_handler(h)
    \/ cid < MaxTimers /\ \E n \in Max({1, head.num - 1})..Min({head.num + 1, MaxNum}),
                             s \in 1..(now \div Interval + Ahead) :
                             n <= s /\ on_incoming_block([num |-> n, slot |-> s])
    \/ cid < MaxTimers /\ on_incoming_transaction
    \/ pause
    \/ cid < MaxTimers /\ resume
    \/ lib_ages
    \/ cid < MaxTimers /\ update_runtime_options
    \/ cid < MaxTimers /\ write_snapshot

Spec == Init /\ [][Next]_vars

-----------------------------------------------------------------------------
\* A producer never signs two blocks of one slot or one number, nor goes back
\* in either, on whatever forks its node has been: the watermark sees to it.
SignsOnce ==
    [][\A b \in signed' \ signed : \A c \in signed :
           get_scheduled_producer(c.slot) = get_scheduled_producer(b.slot)
           => c.num < b.num /\ c.slot < b.slot]_vars

\* The block that is sealed builds on the head, whatever has been pushed or
\* given up since it was started, and it is sealed early only when it is full:
\* a timer that was set for an earlier block never seals a later one.
SealedInTime ==
    [][signed' # signed => /\ pending.num = head.num + 1 /\ pending.slot > head.slot
                           /\ pending.full \/ now >= block_deadline(pending.slot)]_vars

\* The slots a producer of this node could produce in on the head as it is.
Chances ==
    {s \in 1..(MaxTime + Interval) :
        /\ (s - 1) * Interval >= now /\ s > head.slot
        /\ get_scheduled_producer(s) \in Own
        /\ ~Excluded(watermark[get_scheduled_producer(s)], head, s)
        /\ ~(mode = "producing" /\ pending.slot = s)}

\* Unless policy forbids it to produce, the node is never asleep when a slot of
\* one of its producers begins: a timer is set that goes off by then, or at
\* once when a block could not be started, or a handler is about to run.
AwakeInTime ==
    ~production_disabled_by_policy(Node) /\ Chances # {}
    => \/ timer # NoTimer /\ timer.at <= Max({(Min(Chances) - 1) * Interval, now + RetryDelay})
       \/ \E h \in ready : h.cid = cid
==============================================================================
