------------------------- MODULE ProductionLoopProofs -------------------------
(***************************************************************************)
(* What the production loop promises, for any schedule, any number of      *)
(* producers on the node, any interval and any offsets.                    *)
(***************************************************************************)
EXTENDS ProductionLoop, Integers, WellFoundedInduction, TLAPS

Slotted == [num : Nat, slot : Nat]
Pending == [num : Nat, slot : Nat, full : BOOLEAN]
Handler == [at : Nat, cid : Nat, what : {"none", "loop", "produce"}]
Mode == {"producing", "speculating"}

\* The state is well-typed.
LoopTypes ==
    /\ now \in Nat /\ cid \in Nat
    /\ head \in Slotted /\ watermark \in [Own -> Slotted] /\ signed \in SUBSET Slotted
    /\ enabled \in BOOLEAN /\ paused \in BOOLEAN /\ lib_old \in BOOLEAN /\ mode \in Mode
    /\ pending \in Pending /\ timer \in Handler /\ ready \in SUBSET Handler

\* The timer has the last number, and a handler is ready no earlier than it was set for.
Timers ==
    /\ \A h \in ready : h.what # "none" /\ h.cid <= cid /\ h.at <= now
    /\ timer # NoTimer => timer.what # "none" /\ timer.cid = cid

\* What the node has signed is below the watermark of its producer.
Marked(S, w) ==
    \A c \in S : LET p == get_scheduled_producer(c.slot)
                 IN  p \in Own /\ c.num <= w[p].num /\ c.slot <= w[p].slot

\* A block that is being produced builds on the head, above the watermark, and the only handler
\* that can still run seals it: not before it is due, unless it is full.
Produces ==
    mode = "producing" /\ pending # NoBlock =>
        /\ get_scheduled_producer(pending.slot) \in Own
        /\ pending.num = head.num + 1 /\ pending.slot > head.slot
        /\ ~Excluded(watermark[get_scheduled_producer(pending.slot)], head, pending.slot)
        /\ \A h \in ready \cup {timer} :
               h # NoTimer /\ h.cid = cid =>
                   h.what = "produce" /\ (pending.full \/ h.at >= block_deadline(pending.slot))

\* The node as the loop sees it: while the head is ahead of the clock, a node that speculates has
\* no block to produce on it.
Speculates(n) == now < n.head.slot * Interval => ModeFor(n, n.head.slot + 1) = "speculating"

\* The node is awake for the slot.
AwakeFor(s) ==
    \/ \E h \in ready : h.cid = cid
    \/ timer # NoTimer /\ (timer.at <= (s - 1) * Interval \/ timer.at <= now + RetryDelay)

\* A node that produces stays awake even while policy forbids it to go on: the handlers that lift
\* the policy do not run the loop then.
Awake == mode = "producing" \/ ~production_disabled_by_policy(Node) => \A s \in Chances : AwakeFor(s)

LoopInv ==
    /\ LoopTypes /\ Timers /\ Marked(signed, watermark) /\ Produces
    /\ mode = "speculating" => Speculates(Node)
    /\ Awake

-----------------------------------------------------------------------------
(* Numbers.                                                                *)

\* A non-empty set of numbers has a least member, which Min gives.
LEMMA LeastOfNumbers ==
    ASSUME NEW T, T \subseteq Nat, T # {}
    PROVE  Min(T) \in T /\ \A m \in T : Min(T) <= m
<1>1. PICK n \in T : \A m \in T : ~(<<m, n>> \in OpToRel(<, Nat))
  BY NatLessThanWellFounded, WFMin, Zenon
<1>2. \A m \in T : ~(m < n)
  BY <1>1, Zenon DEF OpToRel
<1>3. \A m \in T : n <= m
  BY <1>2
<1>4. QED
  BY <1>3, Zenon DEF Min

\* Max of two numbers.
LEMMA GreaterOfTwo ==
    ASSUME NEW a \in Nat, NEW b \in Nat
    PROVE  Max({a, b}) \in Nat /\ Max({a, b}) \in {a, b} /\ Max({a, b}) >= a /\ Max({a, b}) >= b
<1>1. \E x \in {a, b} : \A y \in {a, b} : x >= y
  OBVIOUS
<1>2. QED
  BY <1>1 DEF Max

\* A number lies in one multiple of d.
LEMMA DivisionUnique ==
    ASSUME NEW d \in Nat \ {0}, NEW q \in Nat, NEW r \in Nat, r < d, NEW x \in Nat, x = q * d + r
    PROVE  x \div d = q /\ x % d = r
<1> DEFINE k == x \div d
           m == x % d
<1>1. k \in Nat /\ m \in Nat /\ m < d /\ x = k * d + m
  OBVIOUS
<1> HIDE DEF k, m
<1>2. ~(k > q)
  <2> SUFFICES ASSUME k > q  PROVE FALSE
    OBVIOUS
  <2>1. k * d >= (q + 1) * d
    BY <1>1
  <2>2. (q + 1) * d = q * d + d
    OBVIOUS
  <2>3. QED
    BY <1>1, <2>1, <2>2
<1>3. ~(k < q)
  <2> SUFFICES ASSUME k < q  PROVE FALSE
    OBVIOUS
  <2>1. q * d >= (k + 1) * d
    BY <1>1
  <2>2. (k + 1) * d = k * d + d
    BY <1>1
  <2>3. QED
    BY <1>1, <2>1, <2>2
<1>4. k = q /\ m = r
  BY <1>1, <1>2, <1>3
<1>5. QED
  BY <1>4 DEF k, m

\* The turn of a slot: what get_scheduled_producer computes from the slot in its round is what the
\* number of the turn gives.
LEMMA TurnOfSlot ==
    ASSUME NEW l \in Nat \ {0}, NEW r \in Nat \ {0}, NEW s \in Nat
    PROVE  (s % (l * r)) \div r = (s \div r) % l
<1> DEFINE lr == l * r
           a == s \div lr
           m == s % lr
           b == m \div r
           c == m % r
<1>1. lr \in Nat \ {0}
  OBVIOUS
<1>2. a \in Nat /\ m \in Nat /\ m < lr /\ s = a * lr + m
  <2> HIDE DEF lr
  <2>1. QED
    BY <1>1
<1>3. b \in Nat /\ c \in Nat /\ c < r /\ m = b * r + c
  <2> HIDE DEF m
  <2>1. QED
    BY <1>2
<1> HIDE DEF a, m, b, c
<1>4. b < l
  <2> SUFFICES ASSUME b >= l  PROVE FALSE
    BY <1>3
  <2>1. b * r >= l * r
    BY <1>3
  <2>2. QED
    BY <1>2, <1>3, <2>1
<1>5. s = (a * l + b) * r + c
  BY <1>2, <1>3
<1>6. s \div r = a * l + b
  <2>1. a * l + b \in Nat
    BY <1>2, <1>3
  <2>2. QED
    BY <1>3, <1>5, <2>1, DivisionUnique
<1>7. (a * l + b) % l = b
  <2>1. a * l + b \in Nat
    BY <1>2, <1>3
  <2>2. QED
    BY <1>2, <1>3, <1>4, <2>1, DivisionUnique
<1>8. QED
  BY <1>6, <1>7 DEF b, m, lr

\* The first turn of a producer at or after turn q is distance turns away.
LEMMA TurnDistance ==
    ASSUME NEW l \in Nat \ {0}, NEW q \in Nat, NEW t \in Nat, q <= t, t % l # q % l
    PROVE  t >= q + (IF t % l >= q % l THEN (t % l) - (q % l) ELSE (t % l) + l - (q % l))
<1> DEFINE k == q \div l
           j == t \div l
           a == q % l
           b == t % l
<1>1. /\ k \in Nat /\ a \in Nat /\ a < l /\ q = k * l + a
      /\ j \in Nat /\ b \in Nat /\ b < l /\ t = j * l + b
  OBVIOUS
<1>2. a # b
  OBVIOUS
<1> HIDE DEF k, j, a, b
<1>3. j >= k
  <2> SUFFICES ASSUME j < k  PROVE FALSE
    BY <1>1
  <2>1. k * l >= (j + 1) * l
    BY <1>1
  <2>2. (j + 1) * l = j * l + l
    BY <1>1
  <2>3. QED
    BY <1>1, <2>1, <2>2
<1>4. t >= q + (IF b >= a THEN b - a ELSE b + l - a)
  <2>1. CASE j = k
    BY <1>1, <2>1
  <2>2. CASE j > k
    <3>1. j * l >= (k + 1) * l
      BY <1>1, <2>2
    <3>2. (k + 1) * l = k * l + l
      BY <1>1
    <3>3. QED
      BY <1>1, <3>1, <3>2
  <2>3. QED
    BY <1>1, <1>3, <2>1, <2>2
<1>5. QED
  BY <1>4 DEF a, b

NodeRecord ==
    [head : Slotted, watermark : [Own -> Slotted], enabled : BOOLEAN, paused : BOOLEAN,
     lib_old : BOOLEAN, mode : Mode, pending : Pending]

L == Len(Schedule)
R == Repetitions

\* The turn of a slot is the turn of its producer.
LEMMA ProducerOfSlot ==
    ASSUME NEW s \in Nat
    PROVE  /\ get_scheduled_producer(s) \in Range(Schedule)
           /\ (s \div R) % L = Position(get_scheduled_producer(s)) - 1
<1> DEFINE i == (s \div R) % L
           p == get_scheduled_producer(s)
<1>1. L \in Nat \ {0} /\ R \in Nat \ {0}
  BY LoopAssumption DEF L, R
<1>2. i \in Nat /\ i < L
  <2>1. s \div R \in Nat
    BY <1>1
  <2>2. QED
    BY <1>1, <2>1
<1>3. p = Schedule[i + 1]
  BY <1>1, TurnOfSlot, Zenon DEF get_scheduled_producer, L, R
<1> HIDE DEF i, p
<1>4. i + 1 \in DOMAIN Schedule
  BY <1>2, LoopAssumption DEF L
<1>5. Position(p) = i + 1
  BY <1>3, <1>4, LoopAssumption DEF Position
<1>6. QED
  BY <1>2, <1>3, <1>4, <1>5 DEF Range, i, p

\* calculate_next_block_time is no later than any slot in which the producer could produce.
LEMMA NextTurn ==
    ASSUME NEW n \in NodeRecord, NEW p \in Own \cap Range(Schedule), NEW ref \in Nat
    PROVE  /\ calculate_next_block_time(n, p, ref) \in Nat \ {0}
           /\ \A s \in Nat : /\ get_scheduled_producer(s) = p /\ ref < s
                             /\ ~Excluded(n.watermark[p], n.head, s)
                             => calculate_next_block_time(n, p, ref) <= s
<1> DEFINE w == n.watermark[p]
           block_num == IF n.pending # NoBlock THEN n.head.num + 1 ELSE n.head.num
           by_num == IF w.num > block_num THEN w.num - block_num + 1 ELSE 1
           by_slot == IF w.slot > ref THEN w.slot - ref + 1 ELSE 1
           least == ref + Max({by_num, by_slot})
           index == Position(p) - 1
           at == (least % (Len(Schedule) * Repetitions)) \div Repetitions
           distance == IF index >= at THEN index - at ELSE index + Len(Schedule) - at
           next == IF index = at THEN least
                   ELSE (least - (least % Repetitions)) + distance * Repetitions
<1>1. calculate_next_block_time(n, p, ref) = next
  BY DEF calculate_next_block_time
<1>2. L \in Nat \ {0} /\ R \in Nat \ {0}
  BY LoopAssumption DEF L, R
<1>3. w \in Slotted /\ n.head \in Slotted
  BY DEF NodeRecord
<1>4. w.num \in Nat /\ w.slot \in Nat /\ block_num \in Nat /\ block_num >= n.head.num
  BY <1>3 DEF Slotted
<1>5. by_num \in Nat \ {0} /\ by_slot \in Nat \ {0}
  <2> HIDE DEF w, block_num
  <2>1. QED
    BY <1>4
<1>6. least \in Nat \ {0} /\ least > ref
  <2> HIDE DEF by_num, by_slot
  <2>1. QED
    BY <1>5, GreaterOfTwo
<1>7. index \in 0..(L - 1)
  <2>1. PICK i \in DOMAIN Schedule : p = Schedule[i]
    BY DEF Range
  <2>2. Position(p) \in DOMAIN Schedule
    BY <2>1 DEF Position
  <2>3. QED
    BY <2>2, LoopAssumption DEF L
<1> DEFINE q == least \div R
<1>8. q \in Nat /\ least - (least % Repetitions) = q * R /\ q * R <= least
  <2> HIDE DEF least
  <2>1. QED
    BY <1>2, <1>6 DEF R
<1>9. at = q % L /\ at \in 0..(L - 1)
  <2> HIDE DEF least
  <2>1. at = q % L
    BY <1>2, <1>6, TurnOfSlot, Zenon DEF L, R
  <2> HIDE DEF q, at
  <2>2. QED
    BY <1>2, <1>8, <2>1
<1>10. distance \in Nat /\ (index # at => distance >= 1)
  <2> HIDE DEF index, at
  <2>1. QED
    BY <1>2, <1>7, <1>9 DEF L
<1>11. next = IF index = at THEN least ELSE (q + distance) * R
  <2> HIDE DEF q, distance, index, at, least
  <2>1. q * R + distance * R = (q + distance) * R
    BY <1>2, <1>8, <1>10
  <2>2. QED
    BY <1>8, <2>1 DEF R
<1>12. next \in Nat \ {0}
  <2> HIDE DEF q, distance, index, at, least, next
  <2>1. CASE index = at
    BY <1>6, <1>11, <2>1
  <2>2. CASE index # at
    <3>1. q + distance \in Nat \ {0}
      BY <1>8, <1>10, <2>2
    <3>2. QED
      BY <1>2, <1>11, <2>2, <3>1
  <2>3. QED
    BY <2>1, <2>2
<1>13. ASSUME NEW s \in Nat, get_scheduled_producer(s) = p, ref < s, ~Excluded(w, n.head, s)
       PROVE  next <= s
  <2>1. least <= s
    <3>1. by_num = 1 /\ by_slot <= s - ref
      BY <1>3, <1>4, <1>13 DEF Excluded, Slotted
    <3> HIDE DEF by_num, by_slot
    <3>2. Max({by_num, by_slot}) <= s - ref
      BY <1>5, <1>13, <3>1, GreaterOfTwo
    <3>3. QED
      BY <1>5, <3>2, GreaterOfTwo
  <2> DEFINE t == s \div R
  <2>2. t \in Nat /\ t * R <= s /\ s < (t + 1) * R /\ t % L = index
    <3>1. t % L = index
      BY <1>13, ProducerOfSlot
    <3>2. QED
      BY <1>2, <3>1
  <2> HIDE DEF t, q, distance, index, at, least, next
  <2>3. q <= t
    <3> SUFFICES ASSUME t < q  PROVE FALSE
      BY <1>8, <2>2
    <3>1. (t + 1) * R <= q * R
      BY <1>2, <1>8, <2>2
    <3>2. QED
      BY <1>2, <1>6, <1>8, <2>1, <2>2, <3>1
  <2>4. CASE index = at
    BY <1>11, <2>1, <2>4
  <2>5. CASE index # at
    <3>1. t >= q + (IF t % L >= q % L THEN (t % L) - (q % L) ELSE (t % L) + L - (q % L))
      <4>1. t % L # q % L
        BY <1>9, <2>2, <2>5
      <4>2. QED
        BY <1>2, <1>8, <2>2, <2>3, <4>1, TurnDistance, Zenon
    <3>4. t >= q + distance
      BY <1>9, <2>2, <3>1 DEF distance, L
    <3>2. (q + distance) * R <= t * R
      BY <1>2, <1>8, <1>10, <2>2, <3>4
    <3>3. QED
      BY <1>2, <1>8, <1>10, <1>11, <2>2, <2>5, <3>2
  <2>6. QED
    BY <2>4, <2>5
<1> HIDE DEF q, distance, index, at, least, next
<1>14. QED
  BY <1>1, <1>12, <1>13, Zenon

-----------------------------------------------------------------------------
(* Timers.                                                                 *)

\* A producer that could produce in a later slot is woken by the time the slot begins.
LEMMA WakesInTime ==
    ASSUME NEW n \in NodeRecord, NEW ref \in Nat
    PROVE  /\ wake_up_time(n, ref) \subseteq Nat
           /\ \A s \in Nat : /\ get_scheduled_producer(s) \in Own /\ ref < s
                             /\ ~Excluded(n.watermark[get_scheduled_producer(s)], n.head, s)
                             => \E t \in wake_up_time(n, ref) : t <= (s - 1) * Interval
<1> DEFINE slots == {calculate_next_block_time(n, p, ref) : p \in Own \cap Range(Schedule)}
<1>1. wake_up_time(n, ref) = IF slots = {} THEN {} ELSE {(Min(slots) - 1) * Interval}
  BY DEF wake_up_time
<1>2. slots \subseteq Nat /\ \A m \in slots : m >= 1
  BY NextTurn
<1>3. Interval \in Nat
  BY LoopAssumption
<1>4. ASSUME NEW s \in Nat, get_scheduled_producer(s) \in Own, ref < s,
             ~Excluded(n.watermark[get_scheduled_producer(s)], n.head, s)
      PROVE  \E m \in slots : m <= s
  <2> DEFINE p == get_scheduled_producer(s)
  <2>1. p \in Own \cap Range(Schedule)
    BY <1>4, ProducerOfSlot
  <2>2. calculate_next_block_time(n, p, ref) <= s
    BY <1>4, <2>1, NextTurn
  <2>3. calculate_next_block_time(n, p, ref) \in slots
    BY <2>1
  <2>4. QED
    BY <2>2, <2>3
<1> HIDE DEF slots
<1>5. slots # {} => Min(slots) \in Nat /\ Min(slots) >= 1 /\ \A m \in slots : Min(slots) <= m
  BY <1>2, LeastOfNumbers, Zenon
<1>6. slots # {} => Min(slots) - 1 \in Nat
  BY <1>5
<1>7. slots # {} => (Min(slots) - 1) * Interval \in Nat
  BY <1>3, <1>6
<1>8. ASSUME NEW s \in Nat, NEW m \in slots, m <= s
      PROVE  (Min(slots) - 1) * Interval <= (s - 1) * Interval
  <2>1. Min(slots) <= s /\ Min(slots) >= 1
    BY <1>2, <1>5, <1>8
  <2>2. /\ Min(slots) - 1 \in Nat /\ s - 1 \in Nat /\ Min(slots) - 1 <= s - 1
    BY <1>5, <1>8, <2>1
  <2> DEFINE a == Min(slots) - 1
             b == s - 1
  <2>3. ASSUME a \in Nat, b \in Nat, a <= b  PROVE a * Interval <= b * Interval
    <3> HIDE DEF a, b
    <3>1. QED
      BY <1>3, <2>3
  <2>4. QED
    BY <2>2, <2>3
<1>9. QED
  BY <1>1, <1>4, <1>7, <1>8

\* The slot the loop would start a block of is the first that begins after the head and the clock.
LEMMA PendingSlot ==
    ASSUME now \in Nat, NEW h \in Slotted
    PROVE  LET slot == pending_block_slot(h)
           IN  /\ slot \in Nat \ {0} /\ slot > h.slot
               /\ now < (slot - 1) * Interval => now < h.slot * Interval
               /\ now < h.slot * Interval => slot = h.slot + 1
               /\ \A s \in Nat : (s - 1) * Interval >= now /\ s > h.slot => s >= slot
<1> DEFINE k == h.slot
           a == k * Interval
           m == Max({now, a})
           d == m \div Interval
<1>1. Interval \in Nat \ {0}
  BY LoopAssumption
<1>2. k \in Nat
  BY DEF Slotted
<1>3. a \in Nat
  BY <1>1, <1>2
<1>4. m \in Nat /\ m \in {now, a} /\ m >= now /\ m >= a
  <2> HIDE DEF a
  <2>1. QED
    BY <1>3, GreaterOfTwo
<1>5. d \in Nat /\ d * Interval <= m /\ m < (d + 1) * Interval
  <2> HIDE DEF m
  <2>1. QED
    BY <1>1, <1>4
<1>6. pending_block_slot(h) = d + 1
  BY DEF pending_block_slot
<1> HIDE DEF m, d, k
<1>7. d >= k
  <2> SUFFICES ASSUME d < k  PROVE FALSE
    BY <1>2, <1>5
  <2>1. (d + 1) * Interval <= k * Interval
    BY <1>1, <1>2, <1>5
  <2>2. QED
    BY <1>1, <1>4, <1>5, <1>3, <2>1
<1>8. now < d * Interval => now < a
  BY <1>1, <1>3, <1>4, <1>5
<1>9. now < a => d = k
  <2> SUFFICES ASSUME now < a, d > k  PROVE FALSE
    BY <1>2, <1>5, <1>7
  <2>1. (k + 1) * Interval <= d * Interval
    BY <1>1, <1>2, <1>5
  <2>2. (k + 1) * Interval = a + Interval
    BY <1>1, <1>2
  <2> HIDE DEF a
  <2>3. m = a
    BY <1>3, <1>4
  <2>4. d * Interval \in Nat
    BY <1>1, <1>5
  <2>5. QED
    BY <1>1, <1>3, <1>5, <2>1, <2>2, <2>3, <2>4
<1>10. ASSUME NEW s \in Nat, (s - 1) * Interval >= now, s > k
       PROVE  s >= d + 1
  <2> DEFINE t == s - 1
  <2>1. t \in Nat /\ t >= k /\ t * Interval >= now
    BY <1>2, <1>10
  <2> SUFFICES t >= d
    BY <1>5, <1>10
  <2> HIDE DEF t
  <2>2. t * Interval >= a
    BY <1>1, <1>2, <2>1
  <2>3. t * Interval >= m
    BY <1>4, <2>1, <2>2
  <2> SUFFICES ASSUME t < d  PROVE FALSE
    BY <1>5, <2>1
  <2>4. (t + 1) * Interval <= d * Interval
    BY <1>1, <1>5, <2>1
  <2>5. (t + 1) * Interval = t * Interval + Interval
    BY <1>1, <2>1
  <2>6. t * Interval \in Nat /\ d * Interval \in Nat
    BY <1>1, <1>5, <2>1
  <2>7. QED
    BY <1>1, <1>4, <1>5, <2>3, <2>4, <2>5, <2>6
<1>11. d + 1 - 1 = d
  BY <1>5
<1>12. QED
  BY <1>2, <1>5, <1>6, <1>7, <1>8, <1>9, <1>10, <1>11 DEF k

\* What a timer that the loop sets is.
TimerSet(at, what) ==
    /\ cid' = cid + 1 /\ timer' = [at |-> at, cid |-> cid + 1, what |-> what]
    /\ timer' \in Handler /\ timer' # NoTimer

\* async_wait numbers the timer anew.
LEMMA SetsTimer ==
    ASSUME cid \in Nat, NEW at \in Nat, NEW what \in {"loop", "produce"}, Sets(at, what)
    PROVE  TimerSet(at, what) /\ timer'.at = at /\ timer'.cid = cid' /\ timer'.what = what
BY DEF Sets, TimerSet, Handler, NoTimer

\* schedule_delayed_production_loop: the loop runs no later than any of the times, if there is one.
LEMMA DelaysLoop ==
    ASSUME now \in Nat, cid \in Nat, NEW times, times \subseteq Nat,
           schedule_delayed_production_loop(times)
    PROVE  \/ times = {} /\ cid' = cid /\ timer' = NoTimer
           \/ \E at \in Nat : TimerSet(at, "loop") /\ \A t \in times : at <= t \/ at <= now
<1>1. CASE times = {}
  BY <1>1 DEF schedule_delayed_production_loop, SetsNone
<1>2. CASE times # {}
  <2>1. Min(times) \in Nat /\ \A t \in times : Min(times) <= t
    BY <1>2, LeastOfNumbers, Zenon
  <2> DEFINE least == Min(times)
             at == Max({now, least})
  <2> HIDE DEF least
  <2>2. at \in Nat /\ at \in {now, least}
    BY <2>1, GreaterOfTwo DEF least
  <2>3. Sets(at, "loop")
    BY <1>2, Zenon DEF schedule_delayed_production_loop, least
  <2> HIDE DEF at
  <2>4. TimerSet(at, "loop")
    BY <2>2, <2>3, SetsTimer
  <2>5. \A t \in times : at <= t \/ at <= now
    BY <2>1, <2>2 DEF least
  <2>6. QED
    BY <2>2, <2>4, <2>5
<1>3. QED
  BY <1>1, <1>2

\* schedule_maybe_produce_block: at once when the block is full, else when it is due, which is no
\* later than the end of its slot.
LEMMA SchedulesSeal ==
    ASSUME now \in Nat, cid \in Nat, NEW slot \in Nat \ {0}, NEW full \in BOOLEAN,
           schedule_maybe_produce_block(slot, full)
    PROVE  \E at \in Nat : /\ TimerSet(at, "produce")
                           /\ full \/ at >= block_deadline(slot)
                           /\ at <= now \/ at <= slot * Interval
<1> DEFINE due == block_deadline(slot)
           end == slot * Interval
<1>1. due \in Nat /\ due <= end
  <2>1. Interval \in Nat /\ Offset \in 0..Interval /\ LastOffset \in 0..Interval
    BY LoopAssumption
  <2>2. end \in Nat /\ end >= Interval
    BY <2>1
  <2> HIDE DEF end
  <2>3. \A o \in 0..Interval : end - o \in Nat /\ end - o <= end
    BY <2>1, <2>2
  <2>4. due = end - (IF slot % Repetitions = Repetitions - 1 THEN LastOffset ELSE Offset)
    BY DEF block_deadline, end
  <2>5. QED
    BY <2>1, <2>3, <2>4
<1> DEFINE at == IF full \/ due <= now THEN now ELSE due
<1>2. Sets(at, "produce")
  BY DEF schedule_maybe_produce_block
<1> HIDE DEF due, end
<1>3. at \in Nat /\ (full \/ at >= due) /\ (at <= now \/ at <= end)
  BY <1>1
<1> HIDE DEF at
<1>4. TimerSet(at, "produce")
  BY <1>2, <1>3, SetsTimer
<1>5. QED
  BY <1>3, <1>4 DEF due, end

-----------------------------------------------------------------------------
(* The loop.                                                               *)

\* What the loop leaves, when a block that it does not replace can not be the next to be produced.
LoopEnds(n) ==
    /\ now \in Nat /\ cid \in Nat /\ ready \in SUBSET Handler /\ Timers
    /\ n \in NodeRecord /\ (n.pending # NoBlock => Speculates(n))
    /\ signed' \in SUBSET Slotted /\ Marked(signed', n.watermark)
    /\ ready' \subseteq ready /\ now' = now
    /\ schedule_production_loop(n)

\* The outcomes of the loop for the timer and the pending block.
Outcome(n) ==
    LET slot == pending_block_slot(n.head)
        m == ModeFor(n, slot)
    IN  \/ m = "speculating" /\ pending' = n.pending /\ schedule_delayed_production_loop(WakeUp(n, slot))
        \/ m = "producing" /\ pending' = NoBlock /\ schedule_delayed_production_loop(wake_up_time(n, slot - 1))
        \/ m = "speculating" /\ pending' = n.pending /\ schedule_delayed_production_loop({(slot - 1) * Interval})
        \/ pending' = NoBlock /\ Sets(now + RetryDelay, "loop")
        \/ \E full \in BOOLEAN :
              /\ m = "producing" /\ pending' = [num |-> n.head.num + 1, slot |-> slot, full |-> full]
              /\ schedule_maybe_produce_block(slot, full)
        \/ \E full \in BOOLEAN :
              /\ m = "speculating" /\ pending' = [num |-> n.head.num + 1, slot |-> slot, full |-> full]
              /\ schedule_delayed_production_loop(WakeUp([n EXCEPT !.pending = pending'], slot))

\* schedule_production_loop has one of these outcomes: when it waits for its turn, no block is pending.
LEMMA LoopOutcome ==
    ASSUME NEW n, LoopEnds(n)
    PROVE  Outcome(n)
<1> DEFINE slot == pending_block_slot(n.head)
           m == ModeFor(n, slot)
<1>1. m \in {"producing", "speculating"}
  BY DEF ModeFor
<1>2. n.head \in Slotted /\ now \in Nat
  BY DEF LoopEnds, NodeRecord
<1>3. CASE WaitsForBlock(n, m)
  BY <1>3 DEF WaitsForBlock, Outcome, LoopEnds, schedule_production_loop
<1>4. CASE ~WaitsForBlock(n, m) /\ WaitsForTurn(slot, m)
  <2>1. pending' = n.pending /\ schedule_delayed_production_loop(wake_up_time(n, slot - 1))
    BY <1>4 DEF LoopEnds, schedule_production_loop
  <2>2. m = "producing" /\ now < (slot - 1) * Interval
    BY <1>4 DEF WaitsForTurn
  <2>3. now < n.head.slot * Interval /\ slot = n.head.slot + 1
    BY <1>2, <2>2, PendingSlot
  <2>4. ~Speculates(n)
    BY <2>2, <2>3 DEF Speculates
  <2>5. n.pending = NoBlock
    BY <2>4 DEF LoopEnds
  <2>6. QED
    BY <2>1, <2>2, <2>5 DEF Outcome
<1>5. CASE ~WaitsForBlock(n, m) /\ ~WaitsForTurn(slot, m) /\ EndsTurn(n, m)
  BY <1>5 DEF EndsTurn, Outcome, LoopEnds, schedule_production_loop
<1>6. CASE ~WaitsForBlock(n, m) /\ ~WaitsForTurn(slot, m) /\ ~EndsTurn(n, m)
  <2>1. StartsBlock(n, slot, m)
    BY <1>6 DEF LoopEnds, schedule_production_loop
  <2>2. CASE pending' = NoBlock /\ Sets(now + RetryDelay, "loop")
    BY <2>2 DEF Outcome
  <2>3. CASE \E full \in BOOLEAN :
                /\ pending' = [num |-> n.head.num + 1, slot |-> slot, full |-> full]
                /\ IF m = "producing" THEN schedule_maybe_produce_block(slot, full)
                   ELSE schedule_delayed_production_loop(WakeUp([n EXCEPT !.pending = pending'], slot))
    BY <1>1, <2>3 DEF Outcome
  <2>4. QED
    BY <2>1, <2>2, <2>3 DEF StartsBlock
<1>7. QED
  BY <1>3, <1>4, <1>5, <1>6

\* A later slot of a producer of the node, other than that of the block being produced.
Later(n, s) ==
    /\ s \in Nat /\ (s - 1) * Interval >= now /\ s > n.head.slot
    /\ get_scheduled_producer(s) \in Own
    /\ ~Excluded(n.watermark[get_scheduled_producer(s)], n.head, s)
    /\ ~(ModeFor(n, pending_block_slot(n.head)) = "producing" /\ pending'.slot = s)

\* The times the loop is delayed to are early enough for every later slot.
EarlyEnough(n, times) ==
    /\ times \subseteq Nat
    /\ ~production_disabled_by_policy(n) =>
           \A s : Later(n, s) => \E t \in times : t <= (s - 1) * Interval

\* A later slot is not before the slot of the loop, nor that slot itself when the node does not produce.
LEMMA LaterSlots ==
    ASSUME NEW n, LoopEnds(n), ~production_disabled_by_policy(n), NEW s, Later(n, s)
    PROVE  LET slot == pending_block_slot(n.head)
           IN  s >= slot /\ (ModeFor(n, slot) = "speculating" => s > slot)
<1> DEFINE slot == pending_block_slot(n.head)
<1>1. now \in Nat /\ n.head \in Slotted /\ s \in Nat
  BY DEF LoopEnds, NodeRecord, Later
<1>2. slot \in Nat /\ s >= slot
  BY <1>1, PendingSlot DEF Later
<1>3. s = slot => ModeFor(n, slot) = "producing"
  BY DEF ModeFor, Later
<1> HIDE DEF slot
<1>4. ModeFor(n, slot) = "speculating" => s # slot
  BY <1>3
<1>5. QED
  BY <1>1, <1>2, <1>4 DEF slot

\* A wake-up time computed from before every later slot is early enough.
LEMMA WakeUpEarlyEnough ==
    ASSUME NEW n, LoopEnds(n), NEW k \in NodeRecord, k.head = n.head, k.watermark = n.watermark,
           NEW ref \in Nat,
           \A s : ~production_disabled_by_policy(n) /\ Later(n, s) => s > ref
    PROVE  EarlyEnough(n, wake_up_time(k, ref))
<1>1. wake_up_time(k, ref) \subseteq Nat
  BY WakesInTime
<1>2. ASSUME ~production_disabled_by_policy(n), NEW s, Later(n, s)
      PROVE  \E t \in wake_up_time(k, ref) : t <= (s - 1) * Interval
  <2>1. s \in Nat /\ ref < s /\ get_scheduled_producer(s) \in Own
    BY <1>2 DEF Later
  <2>2. ~Excluded(k.watermark[get_scheduled_producer(s)], k.head, s)
    BY <1>2 DEF Later
  <2>3. QED
    BY <2>1, <2>2, WakesInTime
<1>3. QED
  BY <1>1, <1>2 DEF EarlyEnough

\* How the loop ends: it is delayed, it tries again, or it produces.
Delayed(n) ==
    \E times : /\ pending' \in Pending /\ EarlyEnough(n, times)
               /\ ModeFor(n, pending_block_slot(n.head)) = "speculating" \/ pending' = NoBlock
               /\ schedule_delayed_production_loop(times)
Retries == pending' = NoBlock /\ Sets(now + RetryDelay, "loop")
Seals(n) ==
    LET slot == pending_block_slot(n.head)
    IN  \E full \in BOOLEAN :
            /\ ModeFor(n, slot) = "producing"
            /\ pending' = [num |-> n.head.num + 1, slot |-> slot, full |-> full]
            /\ schedule_maybe_produce_block(slot, full)

\* Every outcome of schedule_production_loop is one of the three.
LEMMA LoopDelays ==
    ASSUME NEW n, LoopEnds(n)
    PROVE  Delayed(n) \/ Retries \/ Seals(n)
<1> DEFINE slot == pending_block_slot(n.head)
           m == ModeFor(n, slot)
<1>1. /\ now \in Nat /\ n \in NodeRecord /\ n.head \in Slotted /\ n.head.num \in Nat
      /\ n.pending \in Pending /\ NoBlock \in Pending
  BY DEF LoopEnds, NodeRecord, Slotted, Pending, NoBlock
<1>2. slot \in Nat \ {0}
  BY <1>1, PendingSlot
<1>3. production_disabled_by_policy(n) => EarlyEnough(n, {})
  BY DEF EarlyEnough
<1>4. ASSUME m = "speculating", NEW k \in NodeRecord, k.head = n.head, k.watermark = n.watermark,
             production_disabled_by_policy(k) = production_disabled_by_policy(n)
      PROVE  EarlyEnough(n, WakeUp(k, slot))
  <2>1. CASE production_disabled_by_policy(n)
    BY <1>3, <1>4, <2>1 DEF WakeUp
  <2>2. CASE ~production_disabled_by_policy(n)
    <3>1. \A s : ~production_disabled_by_policy(n) /\ Later(n, s) => s > slot
      BY <1>4, LaterSlots
    <3>2. slot \in Nat
      BY <1>2
    <3> HIDE DEF slot
    <3>3. EarlyEnough(n, wake_up_time(k, slot))
      BY <1>4, <3>1, <3>2, WakeUpEarlyEnough
    <3>4. QED
      BY <1>4, <2>2, <3>3 DEF WakeUp
  <2>3. QED
    BY <2>1, <2>2
<1>5. CASE m = "speculating" /\ pending' = n.pending /\ schedule_delayed_production_loop(WakeUp(n, slot))
  <2>1. EarlyEnough(n, WakeUp(n, slot))
    BY <1>1, <1>4, <1>5
  <2>2. QED
    BY <1>1, <1>5, <2>1 DEF Delayed
<1>6. CASE m = "producing" /\ pending' = NoBlock /\ schedule_delayed_production_loop(wake_up_time(n, slot - 1))
  <2> DEFINE ref == slot - 1
  <2>1. \A s : ~production_disabled_by_policy(n) /\ Later(n, s) => s > ref
    <3> SUFFICES ASSUME NEW s, ~production_disabled_by_policy(n), Later(n, s)  PROVE s > ref
      OBVIOUS
    <3>1. s >= slot
      BY LaterSlots
    <3>2. s \in Nat
      BY DEF Later
    <3> HIDE DEF slot
    <3>3. QED
      BY <1>2, <3>1, <3>2
  <2>2. ref \in Nat
    <3> HIDE DEF slot
    <3>1. QED
      BY <1>2
  <2> HIDE DEF ref
  <2>3. EarlyEnough(n, wake_up_time(n, ref))
    BY <1>1, <2>1, <2>2, WakeUpEarlyEnough
  <2>4. QED
    BY <1>1, <1>6, <2>3 DEF Delayed, ref
<1>7. CASE m = "speculating" /\ pending' = n.pending /\ schedule_delayed_production_loop({(slot - 1) * Interval})
  <2>1. Interval \in Nat
    BY LoopAssumption
  <2>2. ASSUME ~production_disabled_by_policy(n), NEW s, Later(n, s)
        PROVE  (slot - 1) * Interval <= (s - 1) * Interval
    <3>1. s >= slot
      BY <2>2, LaterSlots
    <3>2. s \in Nat
      BY <2>2 DEF Later
    <3> DEFINE a == slot - 1
               b == s - 1
    <3>3. a \in Nat /\ b \in Nat /\ a <= b
      <4> HIDE DEF slot
      <4>1. QED
        BY <1>2, <3>1, <3>2
    <3> HIDE DEF a, b
    <3>4. a * Interval <= b * Interval
      BY <2>1, <3>3
    <3>5. QED
      BY <3>4 DEF a, b
  <2>3. (slot - 1) * Interval \in Nat
    <3> HIDE DEF slot
    <3>1. slot - 1 \in Nat
      BY <1>2
    <3>2. QED
      BY <2>1, <3>1
  <2>4. EarlyEnough(n, {(slot - 1) * Interval})
    BY <2>2, <2>3 DEF EarlyEnough
  <2>5. QED
    BY <1>1, <1>7, <2>4 DEF Delayed
<1>8. CASE pending' = NoBlock /\ Sets(now + RetryDelay, "loop")
  BY <1>8 DEF Retries
<1>9. CASE \E full \in BOOLEAN :
              /\ m = "producing" /\ pending' = [num |-> n.head.num + 1, slot |-> slot, full |-> full]
              /\ schedule_maybe_produce_block(slot, full)
  BY <1>9 DEF Seals
<1>10. CASE \E full \in BOOLEAN :
              /\ m = "speculating" /\ pending' = [num |-> n.head.num + 1, slot |-> slot, full |-> full]
              /\ schedule_delayed_production_loop(WakeUp([n EXCEPT !.pending = pending'], slot))
  <2>1. PICK full \in BOOLEAN :
              /\ m = "speculating" /\ pending' = [num |-> n.head.num + 1, slot |-> slot, full |-> full]
              /\ schedule_delayed_production_loop(WakeUp([n EXCEPT !.pending = pending'], slot))
    BY <1>10
  <2> DEFINE k == [n EXCEPT !.pending = pending']
  <2>2. pending' \in Pending
    <3> HIDE DEF slot
    <3>1. QED
      BY <1>1, <1>2, <2>1 DEF Pending
  <2>3. /\ k \in NodeRecord /\ k.head = n.head /\ k.watermark = n.watermark
        /\ production_disabled_by_policy(k) = production_disabled_by_policy(n)
    BY <1>1, <2>2 DEF NodeRecord, production_disabled_by_policy
  <2> HIDE DEF k
  <2>4. EarlyEnough(n, WakeUp(k, slot))
    BY <1>4, <2>1, <2>3
  <2>5. QED
    BY <2>1, <2>2, <2>4 DEF Delayed, k
<1>11. Outcome(n)
  BY LoopOutcome
<1>12. QED
  BY <1>5, <1>6, <1>7, <1>8, <1>9, <1>10, <1>11 DEF Outcome

\* The timer after the loop, whichever way it ends.
LoopTimer(n) ==
    LET slot == pending_block_slot(n.head)
        m == ModeFor(n, slot)
    IN  /\ pending' \in Pending
        /\ \/ cid' = cid /\ timer' = NoTimer /\ (m = "speculating" \/ pending' = NoBlock)
           \/ \E at \in Nat, what \in {"loop", "produce"} :
                 /\ TimerSet(at, what)
                 /\ m = "producing" /\ pending' # NoBlock =>
                        /\ what = "produce" /\ pending'.num = n.head.num + 1 /\ pending'.slot = slot
                        /\ pending'.full \/ at >= block_deadline(slot)
        /\ ~production_disabled_by_policy(n) =>
               \A s : Later(n, s) =>
                   timer' # NoTimer /\ (timer'.at <= (s - 1) * Interval \/ timer'.at <= now + RetryDelay)

\* The timer schedule_production_loop leaves is early enough for every later slot.
LEMMA LoopSetsTimer ==
    ASSUME NEW n, LoopEnds(n)
    PROVE  LoopTimer(n)
<1> DEFINE slot == pending_block_slot(n.head)
           m == ModeFor(n, slot)
<1>1. /\ now \in Nat /\ cid \in Nat /\ n.head \in Slotted /\ n.head.num \in Nat /\ NoBlock \in Pending
  BY DEF LoopEnds, NodeRecord, Slotted, Pending, NoBlock
<1>2. slot \in Nat \ {0}
  BY <1>1, PendingSlot
<1>3. Interval \in Nat /\ \A s : Later(n, s) => (s - 1) * Interval \in Nat
  <2>1. Interval \in Nat
    BY LoopAssumption
  <2> SUFFICES ASSUME NEW s, Later(n, s)  PROVE (s - 1) * Interval \in Nat
    BY <2>1
  <2>2. s \in Nat /\ s > n.head.slot /\ n.head.slot \in Nat
    BY <1>1 DEF Later, Slotted
  <2>3. s - 1 \in Nat
    BY <2>2
  <2>4. QED
    BY <2>1, <2>3
<1>4. CASE Delayed(n)
  <2>1. PICK times : /\ pending' \in Pending /\ EarlyEnough(n, times)
                     /\ m = "speculating" \/ pending' = NoBlock
                     /\ schedule_delayed_production_loop(times)
    BY <1>4 DEF Delayed
  <2>2. times \subseteq Nat
    BY <2>1 DEF EarlyEnough
  <2>3. CASE times = {} /\ cid' = cid /\ timer' = NoTimer
    BY <2>1, <2>3 DEF LoopTimer, EarlyEnough
  <2>4. CASE \E at \in Nat : TimerSet(at, "loop") /\ \A t \in times : at <= t \/ at <= now
    <3>1. PICK at \in Nat : TimerSet(at, "loop") /\ \A t \in times : at <= t \/ at <= now
      BY <2>4
    <3>2. timer' # NoTimer /\ timer'.at = at
      BY <3>1 DEF TimerSet
    <3>3. ASSUME ~production_disabled_by_policy(n), NEW s, Later(n, s)
          PROVE  timer'.at <= (s - 1) * Interval \/ timer'.at <= now + RetryDelay
      <4>1. PICK t \in times : t <= (s - 1) * Interval
        BY <2>1, <3>3 DEF EarlyEnough
      <4>2. (s - 1) * Interval \in Nat
        BY <1>3, <3>3
      <4> DEFINE x == (s - 1) * Interval
      <4> HIDE DEF x
      <4>3. at <= x \/ at <= now + 1
        BY <1>1, <2>2, <3>1, <4>1, <4>2 DEF x
      <4>4. QED
        BY <3>2, <4>3 DEF x, RetryDelay
    <3>4. m = "producing" /\ pending' # NoBlock => FALSE
      BY <2>1
    <3>5. QED
      BY <2>1, <3>1, <3>2, <3>3, <3>4 DEF LoopTimer
  <2>5. QED
    BY <1>1, <2>1, <2>2, <2>3, <2>4, DelaysLoop, Zenon
<1>5. CASE Retries
  <2>1. now + RetryDelay \in Nat
    BY <1>1 DEF RetryDelay
  <2>2. TimerSet(now + RetryDelay, "loop") /\ timer'.at = now + RetryDelay /\ timer' # NoTimer
    BY <1>1, <1>5, <2>1, SetsTimer DEF Retries, TimerSet
  <2>3. timer'.at <= now + RetryDelay
    BY <2>1, <2>2
  <2>4. QED
    BY <1>1, <1>5, <2>1, <2>2, <2>3 DEF LoopTimer, Retries
<1>6. CASE Seals(n)
  <2>1. PICK full \in BOOLEAN :
            /\ m = "producing"
            /\ pending' = [num |-> n.head.num + 1, slot |-> slot, full |-> full]
            /\ schedule_maybe_produce_block(slot, full)
    BY <1>6 DEF Seals
  <2>2. PICK at \in Nat : /\ TimerSet(at, "produce")
                          /\ full \/ at >= block_deadline(slot)
                          /\ at <= now \/ at <= slot * Interval
    BY <1>1, <1>2, <2>1, SchedulesSeal
  <2>3. timer' # NoTimer /\ timer'.at = at
    BY <2>2 DEF TimerSet
  <2>4. ASSUME ~production_disabled_by_policy(n), NEW s, Later(n, s)
        PROVE  timer'.at <= (s - 1) * Interval \/ timer'.at <= now + RetryDelay
    <3>1. s \in Nat /\ s >= slot /\ s # slot
      BY <2>1, <2>4, LaterSlots DEF Later
    <3> DEFINE b == s - 1
    <3>2. b \in Nat /\ b >= slot
      <4> HIDE DEF slot
      <4>1. QED
        BY <1>2, <3>1
    <3> HIDE DEF b, slot
    <3>3. b * Interval >= slot * Interval
      BY <1>2, <1>3, <3>2
    <3>4. b * Interval \in Nat /\ slot * Interval \in Nat
      BY <1>2, <1>3, <3>2
    <3>5. at <= b * Interval \/ at <= now + 1
      BY <1>1, <2>2, <3>3, <3>4
    <3>6. QED
      BY <2>3, <3>5 DEF b, RetryDelay
  <2>5. /\ pending' \in Pending /\ pending'.num = n.head.num + 1 /\ pending'.slot = slot
        /\ pending'.full = full
    <3> HIDE DEF slot
    <3>1. QED
      BY <1>1, <1>2, <2>1 DEF Pending
  <2>6. QED
    BY <2>2, <2>3, <2>4, <2>5 DEF LoopTimer
<1>7. QED
  BY <1>4, <1>5, <1>6, LoopDelays

\* The loop establishes the invariant.
LEMMA LoopPreserves ==
    ASSUME NEW n, LoopEnds(n)
    PROVE  LoopInv'
<1> DEFINE slot == pending_block_slot(n.head)
           m == ModeFor(n, slot)
<1>1. /\ now \in Nat /\ cid \in Nat /\ ready \in SUBSET Handler /\ n \in NodeRecord
      /\ n.head \in Slotted /\ n.head.num \in Nat /\ n.head.slot \in Nat
  BY DEF LoopEnds, NodeRecord, Slotted
<1>2. /\ head' = n.head /\ watermark' = n.watermark /\ enabled' = n.enabled /\ paused' = n.paused
      /\ lib_old' = n.lib_old /\ mode' = m /\ now' = now /\ ready' \subseteq ready
  BY DEF LoopEnds, schedule_production_loop
<1>3. LoopTimer(n)
  BY LoopSetsTimer
<1>4. m \in Mode
  BY DEF ModeFor, Mode
<1>5. slot \in Nat \ {0} /\ slot > n.head.slot /\ (now < n.head.slot * Interval => slot = n.head.slot + 1)
  BY <1>1, PendingSlot
<1>6. pending' \in Pending /\ cid' \in Nat /\ timer' \in Handler
  <2>1. NoTimer \in Handler
    BY DEF NoTimer, Handler
  <2>2. QED
    BY <1>1, <1>3, <2>1, SMTT(30) DEF LoopTimer, TimerSet
<1>7. LoopTypes'
  <2>1. /\ n.head \in Slotted /\ n.watermark \in [Own -> Slotted] /\ n.enabled \in BOOLEAN
        /\ n.paused \in BOOLEAN /\ n.lib_old \in BOOLEAN
    BY <1>1 DEF NodeRecord
  <2>2. ready' \in SUBSET Handler /\ signed' \in SUBSET Slotted
    BY <1>1, <1>2 DEF LoopEnds
  <2> HIDE DEF m, slot
  <2>3. QED
    BY <1>1, <1>2, <1>4, <1>6, <2>1, <2>2 DEF LoopTypes
<1>8. Timers'
  <2>1. \A h \in ready : h.what # "none" /\ h.cid <= cid /\ h.at <= now /\ h.cid \in Nat
    BY <1>1 DEF LoopEnds, Timers, Handler
  <2>2. cid' >= cid /\ (timer' # NoTimer => timer'.what # "none" /\ timer'.cid = cid')
    BY <1>1, <1>3, SMTT(30) DEF LoopTimer, TimerSet
  <2>3. \A h \in ready' : h.what # "none" /\ h.cid <= cid' /\ h.at <= now'
    BY <1>1, <1>2, <1>6, <2>1, <2>2, SMTT(30)
  <2>4. QED
    BY <2>2, <2>3 DEF Timers
<1>9. Marked(signed, watermark)'
  <2>1. Marked(signed', n.watermark)
    BY DEF LoopEnds
  <2>2. QED
    BY <1>2, <2>1 DEF Marked
<1>10. Produces'
  <2> SUFFICES ASSUME m = "producing", pending' # NoBlock
               PROVE  /\ get_scheduled_producer(pending'.slot) \in Own
                      /\ pending'.num = head'.num + 1 /\ pending'.slot > head'.slot
                      /\ ~Excluded(watermark'[get_scheduled_producer(pending'.slot)], head', pending'.slot)
                      /\ \A h \in ready' \cup {timer'} :
                             h # NoTimer /\ h.cid = cid' =>
                                 h.what = "produce" /\ (pending'.full \/ h.at >= block_deadline(pending'.slot))
    BY <1>2, Zenon DEF Produces, get_scheduled_producer, Excluded, block_deadline
  <2>1. PICK at \in Nat, what \in {"loop", "produce"} :
           /\ TimerSet(at, what)
           /\ what = "produce" /\ pending'.num = n.head.num + 1 /\ pending'.slot = slot
           /\ pending'.full \/ at >= block_deadline(slot)
    BY <1>3 DEF LoopTimer
  <2>2. get_scheduled_producer(slot) \in Own /\ ~Excluded(n.watermark[get_scheduled_producer(slot)], n.head, slot)
    BY DEF ModeFor
  <2>3. ASSUME NEW h \in ready'  PROVE h.cid # cid'
    <3>1. h.cid \in Nat /\ h.cid <= cid
      BY <1>1, <1>2, <2>3 DEF LoopEnds, Timers, Handler
    <3>2. cid' = cid + 1
      BY <2>1 DEF TimerSet
    <3>3. QED
      BY <1>1, <3>1, <3>2
  <2>4. timer'.what = "produce" /\ timer'.at = at
    BY <2>1 DEF TimerSet
  <2>5. QED
    BY <1>2, <1>5, <2>1, <2>2, <2>3, <2>4
<1>11. \A s : ModeFor(Node, s)' = ModeFor(n, s)
  BY <1>2 DEF ModeFor, Node, production_disabled_by_policy, Excluded, get_scheduled_producer
<1>12. mode' = "speculating" => Speculates(Node)'
  <2> SUFFICES ASSUME m = "speculating", now < n.head.slot * Interval
               PROVE  ModeFor(n, n.head.slot + 1) = "speculating"
    BY <1>2, <1>11 DEF Speculates, Node
  <2>1. QED
    BY <1>5
<1>13. Awake'
  <2>1. production_disabled_by_policy(Node)' = production_disabled_by_policy(n)
    BY <1>2 DEF Node, production_disabled_by_policy
  <2>2. m = "producing" => ~production_disabled_by_policy(n)
    BY DEF ModeFor
  <2> SUFFICES ASSUME ~production_disabled_by_policy(n), NEW s \in Chances'
               PROVE  AwakeFor(s)'
    BY <1>2, <2>1, <2>2 DEF Awake
  <2>3. Later(n, s)
    BY <1>2, SMTT(30) DEF Chances, Later, Excluded, get_scheduled_producer
  <2>4. QED
    BY <1>2, <1>3, <2>3 DEF LoopTimer, AwakeFor, RetryDelay
<1>14. QED
  BY <1>7, <1>8, <1>9, <1>10, <1>12, <1>13 DEF LoopInv

-----------------------------------------------------------------------------
(* The handlers.                                                           *)

\* The watermarks only grow, and they cover the block they are told of.
LEMMA WatermarkGrows ==
    ASSUME NEW w \in [Own -> Slotted], NEW b \in Slotted
    PROVE  LET v == consider_new_watermark(w, b)
               p == get_scheduled_producer(b.slot)
           IN  /\ v \in [Own -> Slotted]
               /\ \A q \in Own : v[q].num >= w[q].num /\ v[q].slot >= w[q].slot
               /\ p \in Own => v[p].num >= b.num /\ v[p].slot >= b.slot
<1> DEFINE v == consider_new_watermark(w, b)
           p == get_scheduled_producer(b.slot)
<1>1. \A q \in Own : w[q] \in Slotted /\ w[q].num \in Nat /\ w[q].slot \in Nat
  BY DEF Slotted
<1>2. b.num \in Nat /\ b.slot \in Nat
  BY DEF Slotted
<1>3. CASE p \notin Own
  <2>1. v = w
    BY <1>3 DEF consider_new_watermark
  <2>2. QED
    BY <1>1, <1>3, <2>1
<1>4. CASE p \in Own
  <2> DEFINE num == Max({w[p].num, b.num})
             slot == Max({w[p].slot, b.slot})
             x == [num |-> num, slot |-> slot]
  <2>1. v = [w EXCEPT ![p] = x]
    BY <1>4 DEF consider_new_watermark
  <2>2. num \in Nat /\ num >= w[p].num /\ num >= b.num
    BY <1>1, <1>2, <1>4, GreaterOfTwo
  <2>3. slot \in Nat /\ slot >= w[p].slot /\ slot >= b.slot
    BY <1>1, <1>2, <1>4, GreaterOfTwo
  <2> HIDE DEF num, slot
  <2>4. x \in Slotted /\ x.num = num /\ x.slot = slot
    BY <2>2, <2>3 DEF Slotted
  <2> HIDE DEF x, v, p
  <2>5. v \in [Own -> Slotted]
    BY <2>1, <2>4, Zenon
  <2>6. v[p] = x /\ \A q \in Own : q # p => v[q] = w[q]
    BY <1>4, <2>1
  <2>7. \A q \in Own : v[q].num >= w[q].num /\ v[q].slot >= w[q].slot
    BY <1>1, <2>2, <2>3, <2>4, <2>6
  <2>8. QED
    BY <2>2, <2>3, <2>4, <2>5, <2>6, <2>7 DEF v, p
<1>5. QED
  BY <1>3, <1>4

\* consider_new_watermark keeps what has been signed below the watermarks.
LEMMA MarksKept ==
    ASSUME NEW w \in [Own -> Slotted], NEW b \in Slotted, NEW S \in SUBSET Slotted, Marked(S, w)
    PROVE  Marked(S, consider_new_watermark(w, b))
<1> DEFINE v == consider_new_watermark(w, b)
<1>1. v \in [Own -> Slotted] /\ \A q \in Own : v[q].num >= w[q].num /\ v[q].slot >= w[q].slot
  BY WatermarkGrows
<1> HIDE DEF v
<1> SUFFICES ASSUME NEW c \in S, NEW p, p = get_scheduled_producer(c.slot)
             PROVE  p \in Own /\ c.num <= v[p].num /\ c.slot <= v[p].slot
  BY DEF Marked, v
<1>2. p \in Own /\ c.num <= w[p].num /\ c.slot <= w[p].slot
  BY DEF Marked
<1>3. c \in Slotted /\ w[p] \in Slotted /\ v[p] \in Slotted
  BY <1>1, <1>2
<1>4. /\ c.num \in Nat /\ w[p].num \in Nat /\ v[p].num \in Nat
      /\ c.slot \in Nat /\ w[p].slot \in Nat /\ v[p].slot \in Nat
  BY <1>3 DEF Slotted
<1>5. v[p].num >= w[p].num /\ v[p].slot >= w[p].slot
  BY <1>1, <1>2
<1>6. QED
  BY <1>2, <1>4, <1>5, SMTT(30)

\* The node a handler leaves to the loop is well-typed.
LEMMA NodeTypes ==
    ASSUME LoopTypes
    PROVE  Node \in NodeRecord /\ Aborted(Node) \in NodeRecord /\ Aborted(Node).pending = NoBlock
BY Zenon DEF LoopTypes, Node, NodeRecord, Aborted, NoBlock, Pending

\* Handlers that give up the pending block, change the node and run the loop.
LEMMA AbortedPreserves ==
    ASSUME LoopInv, NEW n \in NodeRecord, n.pending = NoBlock, now' = now, ready' \subseteq ready,
           signed' \in SUBSET Slotted, Marked(signed', n.watermark), schedule_production_loop(n)
    PROVE  LoopInv'
<1>1. LoopEnds(n)
  BY DEF LoopEnds, LoopInv, LoopTypes
<1>2. QED
  BY <1>1, LoopPreserves

\* Handlers that change the policy and leave the loop alone.
LEMMA PolicyPreserves ==
    ASSUME LoopInv, paused' \in BOOLEAN, lib_old' \in BOOLEAN,
           UNCHANGED <<now, head, watermark, enabled, mode, loop_vars, ready, signed>>,
           mode = "producing" \/ production_disabled_by_policy(Node)'
    PROVE  LoopInv'
<1> USE DEF loop_vars
<1>1. LoopTypes'
  BY DEF LoopInv, LoopTypes
<1>2. Timers' /\ Marked(signed, watermark)'
  BY DEF LoopInv, Timers, Marked, get_scheduled_producer
<1>3. Produces'
  BY DEF LoopInv, Produces, Excluded, get_scheduled_producer, block_deadline
<1>4. mode' = "speculating" => Speculates(Node)'
  <2> SUFFICES ASSUME mode = "speculating"  PROVE Speculates(Node)'
    OBVIOUS
  <2>1. production_disabled_by_policy(Node)'
    OBVIOUS
  <2>2. \A s : ModeFor(Node, s)' = "speculating"
    BY <2>1 DEF ModeFor, production_disabled_by_policy
  <2>3. QED
    BY <2>2 DEF Speculates, Node
<1>5. Awake'
  <2> SUFFICES ASSUME mode = "producing", NEW s \in Chances'  PROVE AwakeFor(s)'
    BY DEF Awake
  <2>1. s \in Chances
    BY DEF Chances, Excluded, get_scheduled_producer
  <2>2. AwakeFor(s)
    BY <2>1 DEF LoopInv, Awake
  <2>3. QED
    BY <2>2 DEF AwakeFor, RetryDelay
<1>6. QED
  BY <1>1, <1>2, <1>3, <1>4, <1>5 DEF LoopInv

\* plugin_startup establishes the invariant.
LEMMA LoopInit ==
    ASSUME Init
    PROVE  LoopInv
<1>1. Interval \in Nat \ {0}
  BY LoopAssumption
<1>2. LoopTypes
  BY <1>1, Zenon DEF Init, LoopTypes, Slotted, Pending, Handler, Mode, NoBlock, NoMark
<1>3. Timers /\ Marked(signed, watermark) /\ Produces
  BY DEF Init, Timers, Marked, Produces
<1>4. Speculates(Node)
  <2>1. ~(now < Node.head.slot * Interval)
    <3>1. Node.head = [num |-> 1, slot |-> 1] /\ now = Interval
      BY DEF Init, Node
    <3>2. Node.head.slot = 1
      BY <3>1
    <3>3. QED
      BY <1>1, <3>1, <3>2
  <2>2. QED
    BY <2>1 DEF Speculates
<1>5. Awake
  <2> SUFFICES ASSUME NEW s \in Chances  PROVE AwakeFor(s)
    BY DEF Awake
  <2>1. timer # NoTimer /\ timer.at = now
    BY DEF Init, NoTimer
  <2>2. now \in Nat /\ now <= now + 1
    BY <1>1, SMTT(30) DEF Init
  <2>3. QED
    BY <2>1, <2>2 DEF AwakeFor, RetryDelay
<1>6. QED
  BY <1>2, <1>3, <1>4, <1>5 DEF LoopInv

\* Time passes and the timer expires.
LEMMA ClockPreserves ==
    ASSUME LoopInv, tick \/ timer_expires
    PROVE  LoopInv'
<1> USE DEF node_vars, loop_vars
<1>1. LoopTypes /\ Timers /\ now \in Nat
  BY DEF LoopInv, LoopTypes
<1>2. UNCHANGED <<head, watermark, enabled, paused, lib_old, mode, pending, cid, signed>>
  BY DEF tick, timer_expires
<1>3. Marked(signed, watermark)'
  BY <1>2 DEF LoopInv, Marked, get_scheduled_producer
<1>4. now' \in Nat /\ now' >= now
  BY <1>1 DEF tick, timer_expires
<1>5. LoopTypes'
  <2>1. NoTimer \in Handler
    BY DEF NoTimer, Handler
  <2>2. ready' \in SUBSET Handler /\ timer' \in Handler
    BY <1>1, <2>1 DEF LoopTypes, tick, timer_expires
  <2>3. QED
    BY <1>1, <1>2, <1>4, <2>2 DEF LoopTypes
<1>6. Timers'
  <2>1. CASE tick
    <3>1. \A h \in ready : h.at \in Nat /\ h.at <= now
      BY <1>1 DEF LoopTypes, Timers, Handler
    <3>2. \A h \in ready : h.at <= now'
      BY <1>1, <1>4, <3>1
    <3>3. QED
      BY <1>1, <1>2, <2>1, <3>2 DEF Timers, tick
  <2>2. CASE timer_expires
    BY <1>1, <1>2, <2>2, SMTT(30) DEF Timers, timer_expires, LoopTypes
  <2>3. QED
    BY <2>1, <2>2
<1>7. Produces'
  <2>1. \A h \in ready' \cup {timer'} : h # NoTimer => h \in ready \cup {timer}
    BY DEF tick, timer_expires
  <2>2. QED
    BY <1>2, <2>1 DEF LoopInv, Produces, Excluded, get_scheduled_producer, block_deadline
<1>8. mode' = "speculating" => Speculates(Node)'
  <2> SUFFICES ASSUME mode = "speculating", now' < head.slot * Interval
               PROVE  ModeFor(Node, head.slot + 1) = "speculating"
    BY <1>2, Zenon DEF Speculates, Node, ModeFor, production_disabled_by_policy, Excluded, get_scheduled_producer
  <2>1. head.slot * Interval \in Nat
    BY <1>1, LoopAssumption, SMTT(30) DEF LoopTypes, Slotted
  <2>2. now < head.slot * Interval
    BY <1>1, <1>4, <2>1
  <2>3. QED
    BY <2>2 DEF LoopInv, Speculates, Node
<1>9. Awake'
  <2> SUFFICES ASSUME mode = "producing" \/ ~production_disabled_by_policy(Node), NEW s \in Chances'
               PROVE  AwakeFor(s)'
    BY <1>2 DEF Awake, production_disabled_by_policy, Node
  <2>1. s \in Chances
    <3>1. (s - 1) * Interval >= now' /\ s \in 1..(MaxTime + Interval)
      BY DEF Chances
    <3>2. s - 1 \in Nat /\ Interval \in Nat
      BY <3>1, LoopAssumption
    <3>3. (s - 1) * Interval \in Nat
      BY <3>2
    <3>4. (s - 1) * Interval >= now
      BY <1>1, <1>4, <3>1, <3>3
    <3>5. QED
      BY <1>2, <3>1, <3>4 DEF Chances, Excluded, get_scheduled_producer
  <2>2. AwakeFor(s)
    BY <2>1 DEF LoopInv, Awake
  <2>3. CASE timer_expires
    <3>1. timer \in ready' /\ timer.cid = cid'
      BY <1>1, <1>2, <2>3 DEF timer_expires, Timers
    <3>2. QED
      BY <3>1 DEF AwakeFor
  <2>4. CASE tick
    <3>1. timer.at \in Nat
      BY <1>1 DEF LoopTypes, Handler
    <3>2. timer.at <= now + 1 => timer.at <= now' + 1
      BY <1>1, <1>4, <3>1
    <3>3. QED
      BY <1>2, <2>2, <2>4, <3>2 DEF AwakeFor, RetryDelay, tick
  <2>5. QED
    BY <2>3, <2>4
<1>10. QED
  BY <1>3, <1>5, <1>6, <1>7, <1>8, <1>9 DEF LoopInv

\* A sealed block is above everything its producer has signed, and the watermark then covers it.
LEMMA SealedIsMarked ==
    ASSUME LoopInv, mode = "producing", pending # NoBlock,
           NEW b, b = [num |-> pending.num, slot |-> pending.slot]
    PROVE  /\ b \in Slotted
           /\ Marked(signed \cup {b}, consider_new_watermark(watermark, b))
           /\ \A c \in signed : get_scheduled_producer(c.slot) = get_scheduled_producer(b.slot)
                                => c.num < b.num /\ c.slot < b.slot
<1> DEFINE p == get_scheduled_producer(b.slot)
           v == consider_new_watermark(watermark, b)
<1>1. LoopTypes /\ Produces /\ Marked(signed, watermark)
  BY DEF LoopInv
<1>2. b \in Slotted /\ watermark \in [Own -> Slotted] /\ signed \in SUBSET Slotted /\ head \in Slotted
  BY <1>1 DEF LoopTypes, Pending, Slotted
<1>3. p \in Own /\ b.num = head.num + 1 /\ ~Excluded(watermark[p], head, b.slot)
  BY <1>1 DEF Produces
<1>4. Marked(signed, v)
  BY <1>1, <1>2, MarksKept
<1>5. v[p].num >= b.num /\ v[p].slot >= b.slot /\ v[p] \in Slotted
  <2>1. v \in [Own -> Slotted] /\ (p \in Own => v[p].num >= b.num /\ v[p].slot >= b.slot)
    BY <1>2, WatermarkGrows, Zenon
  <2> HIDE DEF v, p
  <2>2. QED
    BY <1>3, <2>1
<1>6. b.num <= v[p].num /\ b.slot <= v[p].slot
  BY <1>2, <1>5 DEF Slotted
<1>7. Marked(signed \cup {b}, v)
  BY <1>3, <1>4, <1>6 DEF Marked
<1>8. ASSUME NEW c \in signed, get_scheduled_producer(c.slot) = p
      PROVE  c.num < b.num /\ c.slot < b.slot
  <2>1. c.num <= watermark[p].num /\ c.slot <= watermark[p].slot
    BY <1>1, <1>8 DEF Marked
  <2>2. ~(watermark[p].num > head.num) /\ ~(watermark[p].slot >= b.slot)
    BY <1>3 DEF Excluded
  <2>3. /\ c.num \in Nat /\ watermark[p].num \in Nat /\ head.num \in Nat /\ b.slot \in Nat
        /\ c.slot \in Nat /\ watermark[p].slot \in Nat
    BY <1>2, <1>3 DEF Slotted
  <2>4. QED
    BY <1>3, <2>1, <2>2, <2>3, SMTT(30)
<1>9. QED
  BY <1>2, <1>7, <1>8

\* A handler that could not be cancelled runs.
LEMMA HandlerPreserves ==
    ASSUME LoopInv, NEW h, run_handler(h)
    PROVE  LoopInv'
<1> USE DEF node_vars, loop_vars
<1>1. /\ h \in ready /\ ready' = ready \ {h} /\ now' = now /\ ready' \subseteq ready
      /\ LoopTypes /\ Timers /\ Produces /\ Marked(signed, watermark)
  BY DEF run_handler, LoopInv
<1>2. signed \in SUBSET Slotted /\ watermark \in [Own -> Slotted]
  BY <1>1 DEF LoopTypes
<1>3. CASE ~IsCurrent(h) /\ UNCHANGED <<node_vars, loop_vars, signed>>
  <2>1. LoopTypes'
    BY <1>1, <1>3 DEF LoopTypes
  <2>2. Timers' /\ Marked(signed, watermark)'
    BY <1>1, <1>3, Zenon DEF Timers, Marked, get_scheduled_producer
  <2>3. Produces'
    BY <1>1, <1>3, Zenon DEF Produces, Excluded, get_scheduled_producer, block_deadline
  <2>4. mode' = "speculating" => Speculates(Node)'
    BY <1>1, <1>3, Zenon DEF LoopInv, Speculates, Node, ModeFor, production_disabled_by_policy, Excluded,
                      get_scheduled_producer
  <2>5. Awake'
    <3> SUFFICES ASSUME mode = "producing" \/ ~production_disabled_by_policy(Node), NEW s \in Chances'
                 PROVE  AwakeFor(s)'
      BY <1>1, <1>3 DEF Awake, production_disabled_by_policy, Node
    <3>1. s \in Chances
      BY <1>1, <1>3, Zenon DEF Chances, Excluded, get_scheduled_producer
    <3>2. AwakeFor(s)
      BY <3>1 DEF LoopInv, Awake
    <3>3. \A g \in ready : g.cid = cid => g \in ready'
      BY <1>1, <1>3 DEF IsCurrent
    <3>4. QED
      BY <1>1, <1>3, <3>2, <3>3 DEF AwakeFor, RetryDelay
  <2>6. QED
    BY <2>1, <2>2, <2>3, <2>4, <2>5 DEF LoopInv
<1>4. CASE IsCurrent(h) /\ h.what = "loop" /\ schedule_production_loop(Node) /\ UNCHANGED signed
  <2>1. h # NoTimer
    BY <1>4, SMTT(30) DEF NoTimer
  <2>2. pending # NoBlock => mode # "producing"
    BY <1>1, <1>4, <2>1 DEF Produces, IsCurrent
  <2>3. Node.pending # NoBlock => Speculates(Node)
    BY <1>1, <2>2 DEF LoopInv, Node, LoopTypes, Mode
  <2>4. Marked(signed', Node.watermark)
    BY <1>1, <1>4 DEF Node
  <2>5. LoopEnds(Node)
    BY <1>1, <1>2, <1>4, <2>3, <2>4, NodeTypes, Zenon DEF LoopEnds, LoopTypes
  <2>6. QED
    BY <2>5, LoopPreserves
<1>5. CASE IsCurrent(h) /\ h.what = "produce" /\ maybe_produce_block
  <2> DEFINE b == [num |-> pending.num, slot |-> pending.slot]
             sealed(old) == [Aborted(Node) EXCEPT
                                 !.head = b, !.lib_old = old,
                                 !.watermark = consider_new_watermark(watermark, b)]
  <2>1. CASE /\ mode = "producing" /\ pending # NoBlock
             /\ signed' = signed \cup {b}
             /\ \E old \in {lib_old, FALSE} : schedule_production_loop(sealed(old))
    <3>1. PICK old \in {lib_old, FALSE} : schedule_production_loop(sealed(old))
      BY <2>1, Zenon
    <3>2. b \in Slotted /\ Marked(signed \cup {b}, consider_new_watermark(watermark, b))
      BY <2>1, SealedIsMarked
    <3>3. consider_new_watermark(watermark, b) \in [Own -> Slotted] /\ old \in BOOLEAN
      BY <1>1, <1>2, <3>2, WatermarkGrows, Zenon DEF LoopTypes
    <3> HIDE DEF b
    <3>4. /\ sealed(old) \in NodeRecord /\ sealed(old).pending = NoBlock
          /\ sealed(old).watermark = consider_new_watermark(watermark, b)
      BY <1>1, <3>2, <3>3, NodeTypes, Zenon DEF NodeRecord
    <3>5. signed' \in SUBSET Slotted /\ Marked(signed', sealed(old).watermark)
      BY <1>2, <2>1, <3>2, <3>4
    <3> HIDE DEF sealed
    <3>6. QED
      BY <1>1, <3>1, <3>4, <3>5, AbortedPreserves
  <2>2. CASE signed' = signed /\ schedule_production_loop(Aborted(Node))
    <3>1. Marked(signed', Aborted(Node).watermark)
      BY <1>1, <2>2 DEF Aborted, Node
    <3>2. QED
      BY <1>1, <1>2, <2>2, <3>1, NodeTypes, AbortedPreserves
  <2>3. QED
    BY <1>5, <2>1, <2>2 DEF maybe_produce_block
<1>6. QED
  BY <1>3, <1>4, <1>5 DEF run_handler

\* A block from the network is pushed, whatever becomes of it.
LEMMA BlockPreserves ==
    ASSUME LoopInv, NEW b \in Slotted, on_incoming_block(b)
    PROVE  LoopInv'
<1> DEFINE marked == consider_new_watermark(watermark, b)
<1>1. /\ now' = now /\ ready' \subseteq ready /\ signed' = signed
      /\ LoopTypes /\ Marked(signed, watermark)
  BY DEF on_incoming_block, LoopInv
<1>2. signed \in SUBSET Slotted /\ watermark \in [Own -> Slotted] /\ head \in Slotted
  BY <1>1 DEF LoopTypes
<1>3. marked \in [Own -> Slotted] /\ Marked(signed, marked)
  BY <1>1, <1>2, WatermarkGrows, MarksKept
<1> HIDE DEF marked
<1>4. CASE \E w \in {watermark, marked} :
              schedule_production_loop([AbortFirst(Node) EXCEPT !.watermark = w])
  <2>1. PICK w \in {watermark, marked} : schedule_production_loop([AbortFirst(Node) EXCEPT !.watermark = w])
    BY <1>4
  <2> DEFINE n == [Aborted(Node) EXCEPT !.watermark = w]
  <2>2. w \in [Own -> Slotted] /\ Marked(signed', w)
    BY <1>1, <1>2, <1>3
  <2>3. n \in NodeRecord /\ n.pending = NoBlock /\ n.watermark = w
    BY <1>1, <2>2, NodeTypes DEF NodeRecord
  <2>4. schedule_production_loop(n)
    BY <2>1 DEF AbortFirst
  <2> HIDE DEF n
  <2>5. QED
    BY <1>1, <1>2, <2>2, <2>3, <2>4, AbortedPreserves, Zenon
<1>5. CASE \E h \in {head, b}, old \in {lib_old, FALSE} :
              schedule_production_loop([AbortFirst(Node) EXCEPT
                  !.head = h, !.watermark = marked, !.lib_old = old,
                  !.enabled = enabled \/ (h.slot + 1) * Interval >= now])
  <2>1. PICK h \in {head, b}, old \in {lib_old, FALSE} :
              schedule_production_loop([AbortFirst(Node) EXCEPT
                  !.head = h, !.watermark = marked, !.lib_old = old,
                  !.enabled = enabled \/ (h.slot + 1) * Interval >= now])
    BY <1>5, Zenon
  <2> DEFINE on == enabled \/ (h.slot + 1) * Interval >= now
             n == [Aborted(Node) EXCEPT !.head = h, !.watermark = marked, !.lib_old = old, !.enabled = on]
  <2>2. h \in Slotted /\ old \in BOOLEAN /\ on \in BOOLEAN
    BY <1>1, <1>2, Zenon DEF LoopTypes
  <2>3. schedule_production_loop(n)
    BY <2>1 DEF AbortFirst
  <2> HIDE DEF on
  <2>4. n \in NodeRecord /\ n.pending = NoBlock /\ n.watermark = marked
    BY <1>1, <1>3, <2>2, NodeTypes, Zenon DEF NodeRecord
  <2> HIDE DEF n
  <2>5. Marked(signed', n.watermark)
    BY <1>1, <1>3, <2>4, Zenon
  <2>6. QED
    BY <1>1, <1>2, <2>3, <2>4, <2>5, AbortedPreserves
<1>6. QED
  BY <1>4, <1>5 DEF on_incoming_block, marked

\* A transaction fills the block that is being produced.
LEMMA TransactionPreserves ==
    ASSUME LoopInv, on_incoming_transaction
    PROVE  LoopInv'
<1> USE DEF node_vars
<1>1. /\ mode = "producing" /\ pending # NoBlock
      /\ pending' = [pending EXCEPT !.full = TRUE]
      /\ schedule_maybe_produce_block(pending.slot, TRUE)
      /\ UNCHANGED <<now, head, watermark, enabled, paused, lib_old, mode, ready, signed>>
      /\ LoopTypes /\ Timers /\ Produces
  BY Zenon DEF on_incoming_transaction, LoopInv
<1>2. now \in Nat /\ cid \in Nat /\ ready \in SUBSET Handler
  BY <1>1 DEF LoopTypes
<1>3. /\ pending' \in Pending /\ pending'.num = pending.num /\ pending'.slot = pending.slot
      /\ pending'.full = TRUE
  BY <1>1, Zenon DEF LoopTypes, Pending
<1>4. TimerSet(now, "produce") /\ timer'.at = now /\ timer'.cid = cid' /\ timer'.what = "produce"
  BY <1>1, <1>2, SetsTimer DEF schedule_maybe_produce_block
<1>5. LoopTypes'
  BY <1>1, <1>2, <1>3, <1>4 DEF LoopTypes, TimerSet
<1>6. \A h \in ready : h.cid \in Nat /\ h.cid <= cid /\ h.cid <= cid' /\ h.cid # cid'
  <2>1. \A h \in ready : h.cid \in Nat /\ h.cid <= cid
    BY <1>1, <1>2 DEF Timers, Handler
  <2>2. cid' = cid + 1
    BY <1>4 DEF TimerSet
  <2>3. QED
    BY <1>2, <2>1, <2>2
<1>7. Timers'
  BY <1>1, <1>4, <1>6 DEF Timers
<1>8. Marked(signed, watermark)'
  BY <1>1 DEF LoopInv, Marked, get_scheduled_producer
<1>9. Produces'
  <2>1. \A h \in ready' \cup {timer'} : h # NoTimer /\ h.cid = cid' => h.what = "produce"
    BY <1>1, <1>4, <1>6
  <2>2. QED
    BY <1>1, <1>3, <2>1 DEF Produces, Excluded, get_scheduled_producer
<1>10. Awake'
  <2>1. timer' # NoTimer /\ timer'.at <= now' + 1
    BY <1>1, <1>2, <1>4 DEF TimerSet
  <2>2. \A s : AwakeFor(s)'
    BY <2>1 DEF AwakeFor, RetryDelay
  <2>3. QED
    BY <2>2 DEF Awake
<1>11. QED
  BY <1>1, <1>5, <1>7, <1>8, <1>9, <1>10 DEF LoopInv

\* Operators pause and resume production, change options and take snapshots; the irreversible
\* block grows old.
LEMMA OperatorPreserves ==
    ASSUME LoopInv, pause \/ resume \/ lib_ages \/ update_runtime_options \/ write_snapshot
    PROVE  LoopInv'
<1> USE DEF loop_vars
<1>1. LoopTypes /\ Marked(signed, watermark) /\ signed \in SUBSET Slotted
  BY DEF LoopInv, LoopTypes
<1>2. paused \in BOOLEAN /\ lib_old \in BOOLEAN /\ mode \in Mode
  BY <1>1 DEF LoopTypes
<1>3. ASSUME NEW n \in NodeRecord, n.pending = NoBlock, n.watermark = watermark,
             schedule_production_loop(n), UNCHANGED <<now, ready, signed>>
      PROVE  LoopInv'
  <2>1. now' = now /\ ready' \subseteq ready /\ signed' \in SUBSET Slotted /\ Marked(signed', n.watermark)
    BY <1>1, <1>3
  <2>2. QED
    BY <1>3, <2>1, AbortedPreserves
<1>4. CASE pause \/ lib_ages
  <2>1. production_disabled_by_policy(Node)'
    BY <1>4 DEF pause, lib_ages, production_disabled_by_policy, Node
  <2>2. /\ paused' \in BOOLEAN /\ lib_old' \in BOOLEAN
        /\ UNCHANGED <<now, head, watermark, enabled, mode, loop_vars, ready, signed>>
    BY <1>2, <1>4, Zenon DEF pause, lib_ages
  <2>3. QED
    BY <2>1, <2>2, PolicyPreserves
<1>5. CASE resume
  <2>1. CASE mode = "speculating"
    <3> DEFINE n == [Aborted(Node) EXCEPT !.paused = FALSE]
    <3>1. n \in NodeRecord /\ n.pending = NoBlock /\ n.watermark = watermark
      BY <1>1, NodeTypes, Zenon DEF NodeRecord, Aborted, Node
    <3>2. schedule_production_loop(n) /\ UNCHANGED <<now, ready, signed>>
      BY <1>5, <2>1 DEF resume, Resumes
    <3> HIDE DEF n
    <3>3. QED
      BY <1>3, <3>1, <3>2
  <2>2. CASE mode # "speculating"
    <3>1. /\ paused' \in BOOLEAN /\ lib_old' \in BOOLEAN /\ mode = "producing"
          /\ UNCHANGED <<now, head, watermark, enabled, mode, loop_vars, ready, signed>>
      BY <1>2, <1>5, <2>2, Zenon DEF resume, Resumes, Mode
    <3>2. QED
      BY <3>1, PolicyPreserves
  <2>3. QED
    BY <2>1, <2>2
<1>6. CASE update_runtime_options
  <2>1. PICK old \in BOOLEAN :
            IF mode = "speculating"
            THEN schedule_production_loop([Aborted(Node) EXCEPT !.lib_old = old])
            ELSE lib_old' = old /\ UNCHANGED <<head, watermark, enabled, paused, mode, loop_vars>>
    BY <1>6 DEF update_runtime_options
  <2>2. UNCHANGED <<now, ready, signed>>
    BY <1>6 DEF update_runtime_options
  <2>3. CASE mode = "speculating"
    <3> DEFINE n == [Aborted(Node) EXCEPT !.lib_old = old]
    <3>1. n \in NodeRecord /\ n.pending = NoBlock /\ n.watermark = watermark
      BY <1>1, NodeTypes, Zenon DEF NodeRecord, Aborted, Node
    <3>2. schedule_production_loop(n)
      BY <2>1, <2>3
    <3> HIDE DEF n
    <3>3. QED
      BY <1>3, <2>2, <3>1, <3>2
  <2>4. CASE mode # "speculating"
    <3>1. /\ paused' \in BOOLEAN /\ lib_old' \in BOOLEAN /\ mode = "producing"
          /\ UNCHANGED <<now, head, watermark, enabled, mode, loop_vars, ready, signed>>
      BY <1>2, <2>1, <2>2, <2>4 DEF Mode
    <3>2. QED
      BY <3>1, PolicyPreserves
  <2>5. QED
    BY <2>3, <2>4
<1>7. CASE write_snapshot
  <2>1. schedule_production_loop(Aborted(Node)) /\ UNCHANGED <<now, ready, signed>>
    BY <1>7 DEF write_snapshot
  <2>2. Aborted(Node).watermark = watermark
    BY DEF Aborted, Node
  <2>3. QED
    BY <1>1, <1>3, <2>1, <2>2, NodeTypes
<1>8. QED
  BY <1>4, <1>5, <1>6, <1>7

\* The number of a block from the network is positive.
LEMMA IncomingTypes ==
    ASSUME LoopTypes, NEW n \in Max({1, head.num - 1})..Min({head.num + 1, MaxNum}),
           NEW s \in 1..(now \div Interval + Ahead)
    PROVE  [num |-> n, slot |-> s] \in Slotted
<1>1. head.num - 1 \in Int
  BY SMTT(30) DEF LoopTypes, Slotted
<1>2. \A x \in Int : Max({1, x}) \in Int /\ Max({1, x}) >= 1
  <2> SUFFICES ASSUME NEW x \in Int  PROVE Max({1, x}) \in Int /\ Max({1, x}) >= 1
    OBVIOUS
  <2>1. \E y \in {1, x} : \A z \in {1, x} : y >= z
    OBVIOUS
  <2>2. QED
    BY <2>1 DEF Max
<1>3. n \in Nat
  <2> DEFINE a == Max({1, head.num - 1})
             z == Min({head.num + 1, MaxNum})
  <2>1. a \in Int /\ a >= 1
    BY <1>1, <1>2
  <2>2. n \in a..z
    OBVIOUS
  <2> HIDE DEF a, z
  <2>3. QED
    BY <2>1, <2>2
<1>4. s \in Nat
  OBVIOUS
<1>5. QED
  BY <1>3, <1>4 DEF Slotted

\* Every handler preserves the invariant.
LEMMA LoopNext ==
    ASSUME LoopInv, [Next]_vars
    PROVE  LoopInv'
<1>1. CASE UNCHANGED vars
  <2> USE DEF vars, node_vars, loop_vars
  <2>1. LoopTypes' /\ Timers' /\ Marked(signed, watermark)'
    BY <1>1 DEF LoopInv, LoopTypes, Timers, Marked, get_scheduled_producer
  <2>2. Produces'
    BY <1>1 DEF LoopInv, Produces, Excluded, get_scheduled_producer, block_deadline
  <2>3. mode' = "speculating" => Speculates(Node)'
    BY <1>1, Zenon DEF LoopInv, Speculates, Node, ModeFor, production_disabled_by_policy, Excluded,
                get_scheduled_producer
  <2>4. Chances' = Chances
    BY <1>1, Zenon DEF Chances, Excluded, get_scheduled_producer
  <2>5. Awake'
    BY <1>1, <2>4 DEF LoopInv, Awake, AwakeFor, RetryDelay, production_disabled_by_policy, Node
  <2>6. QED
    BY <2>1, <2>2, <2>3, <2>5 DEF LoopInv
<1>2. CASE tick \/ timer_expires
  BY <1>2, ClockPreserves
<1>3. CASE \E h \in ready : run_handler(h)
  BY <1>3, HandlerPreserves
<1>4. CASE \E n \in Max({1, head.num - 1})..Min({head.num + 1, MaxNum}),
              s \in 1..(now \div Interval + Ahead) :
              n <= s /\ on_incoming_block([num |-> n, slot |-> s])
  <2>1. PICK n \in Max({1, head.num - 1})..Min({head.num + 1, MaxNum}),
             s \in 1..(now \div Interval + Ahead) : on_incoming_block([num |-> n, slot |-> s])
    BY <1>4
  <2>2. [num |-> n, slot |-> s] \in Slotted
    BY IncomingTypes, Zenon DEF LoopInv
  <2>3. QED
    BY <2>1, <2>2, BlockPreserves
<1>5. CASE on_incoming_transaction
  BY <1>5, TransactionPreserves
<1>6. CASE pause \/ resume \/ lib_ages \/ update_runtime_options \/ write_snapshot
  BY <1>6, OperatorPreserves
<1>7. QED
  BY <1>1, <1>2, <1>3, <1>4, <1>5, <1>6, Zenon DEF Next

\* The invariant of the loop holds in every state: a block being produced builds on the head above
\* the watermark and only its own timer can seal it, and the node is awake in time.
THEOREM LoopInvariant == Spec => []LoopInv
<1>1. Init => LoopInv
  BY LoopInit
<1>2. LoopInv /\ [Next]_vars => LoopInv'
  BY LoopNext
<1>3. QED
  BY <1>1, <1>2, PTL DEF Spec

\* A step that seals a block is the step of the timer that was set for it.
LEMMA SealingStep ==
    ASSUME LoopInv, [Next]_vars, signed' # signed
    PROVE  /\ mode = "producing" /\ pending # NoBlock
           /\ signed' = signed \cup {[num |-> pending.num, slot |-> pending.slot]}
           /\ \E h \in ready : h.cid = cid /\ h.what = "produce"
<1>1. ASSUME UNCHANGED signed  PROVE FALSE
  BY <1>1
<1>2. PICK h \in ready : run_handler(h)
  BY <1>1, Zenon DEF Next, vars, tick, timer_expires, on_incoming_block, on_incoming_transaction, pause,
              resume, lib_ages, update_runtime_options, write_snapshot
<1>3. IsCurrent(h) /\ h.what = "produce" /\ maybe_produce_block
  BY <1>1, <1>2 DEF run_handler
<1>4. QED
  BY <1>1, <1>3 DEF maybe_produce_block, IsCurrent

\* A producer of this node never signs two blocks of one slot or one number, nor goes back in
\* either: start_block refuses what the watermarks exclude, and both they and the pending block
\* are still what they were when the block is sealed.
THEOREM ProducersSignOnce == Spec => SignsOnce
<1> DEFINE A == \A b \in signed' \ signed : \A c \in signed :
                    get_scheduled_producer(c.slot) = get_scheduled_producer(b.slot)
                    => c.num < b.num /\ c.slot < b.slot
<1>1. LoopInv /\ [Next]_vars => [A]_vars
  <2> SUFFICES ASSUME LoopInv, [Next]_vars, NEW b \in signed' \ signed  
               PROVE  \A c \in signed :
                          get_scheduled_producer(c.slot) = get_scheduled_producer(b.slot)
                          => c.num < b.num /\ c.slot < b.slot
    OBVIOUS
  <2>1. signed' # signed
    OBVIOUS
  <2>2. mode = "producing" /\ pending # NoBlock /\ b = [num |-> pending.num, slot |-> pending.slot]
    BY <2>1, SealingStep
  <2>3. QED
    BY <2>2, SealedIsMarked, Zenon
<1>2. QED
  BY <1>1, LoopInvariant, PTL DEF Spec, SignsOnce

\* A block is sealed on the head it was started on, and before its deadline only when it is full:
\* the handlers that give up the block or start another set the timer anew.
THEOREM BlocksSealedInTime == Spec => SealedInTime
<1> DEFINE A == signed' # signed => /\ pending.num = head.num + 1 /\ pending.slot > head.slot
                                    /\ pending.full \/ now >= block_deadline(pending.slot)
<1>1. LoopInv /\ [Next]_vars => [A]_vars
  <2> SUFFICES ASSUME LoopInv, [Next]_vars, signed' # signed
               PROVE  /\ pending.num = head.num + 1 /\ pending.slot > head.slot
                      /\ pending.full \/ now >= block_deadline(pending.slot)
    OBVIOUS
  <2>1. mode = "producing" /\ pending # NoBlock
    BY SealingStep
  <2>2. PICK h \in ready : h.cid = cid /\ h.what = "produce"
    BY SealingStep
  <2>3. h # NoTimer
    BY <2>2, SMTT(30) DEF NoTimer
  <2>4. /\ pending.num = head.num + 1 /\ pending.slot > head.slot
        /\ pending.full \/ h.at >= block_deadline(pending.slot)
    BY <2>1, <2>2, <2>3 DEF LoopInv, Produces
  <2>5. h.at \in Nat /\ now \in Nat /\ h.at <= now
    BY DEF LoopInv, LoopTypes, Timers, Handler
  <2>6. block_deadline(pending.slot) \in Int
    <3> DEFINE off == IF pending.slot % Repetitions = Repetitions - 1 THEN LastOffset ELSE Offset
    <3>1. Interval \in Nat /\ off \in Nat /\ pending.slot \in Nat
      BY LoopAssumption, SMTT(30) DEF LoopInv, LoopTypes, Pending
    <3>2. pending.slot * Interval \in Nat
      BY <3>1, SMTT(30)
    <3> HIDE DEF off
    <3>3. pending.slot * Interval - off \in Int
      BY <3>1, <3>2
    <3>4. QED
      BY <3>3 DEF block_deadline, off
  <2>7. pending.full \/ now >= block_deadline(pending.slot)
    <3> DEFINE d == block_deadline(pending.slot)
    <3> HIDE DEF d
    <3>1. pending.full \/ now >= d
      BY <2>4, <2>5, <2>6, SMTT(30) DEF d
    <3>2. QED
      BY <3>1 DEF d
  <2>8. QED
    BY <2>4, <2>7
<1>2. QED
  BY <1>1, LoopInvariant, PTL DEF Spec, SealedInTime

\* Unless policy forbids it to produce, the node is never asleep when a slot of one of its
\* producers begins: whatever handlers have run, a timer is set that goes off by then, or at once
\* when a block could not be started, or a handler is about to run.
THEOREM NodeAwakeInTime == Spec => []AwakeInTime
<1>1. LoopInv => AwakeInTime
  <2> SUFFICES ASSUME LoopInv, ~production_disabled_by_policy(Node), Chances # {}
               PROVE  \/ timer # NoTimer /\ timer.at <= Max({(Min(Chances) - 1) * Interval, now + RetryDelay})
                      \/ \E h \in ready : h.cid = cid
    BY DEF AwakeInTime
  <2> DEFINE s == Min(Chances)
             a == (s - 1) * Interval
             r == now + RetryDelay
  <2>1. s \in Chances
    <3>1. Chances \subseteq Nat
      BY SMTT(30) DEF Chances
    <3>2. QED
      BY <3>1, LeastOfNumbers, Zenon
  <2>2. AwakeFor(s)
    BY <2>1 DEF LoopInv, Awake
  <2>3. s \in 1..(MaxTime + Interval)
    BY <2>1 DEF Chances
  <2> HIDE DEF s
  <2>4. a \in Nat
    <3>1. s - 1 \in Nat /\ Interval \in Nat
      BY <2>3, LoopAssumption, SMTT(30)
    <3>2. QED
      BY <3>1
  <2>5. r \in Nat /\ timer.at \in Nat
    BY SMTT(30) DEF LoopInv, LoopTypes, Handler, RetryDelay
  <2>6. CASE \E h \in ready : h.cid = cid
    BY <2>6
  <2>7. CASE timer # NoTimer /\ (timer.at <= a \/ timer.at <= r)
    <3> HIDE DEF a, r
    <3>1. Max({a, r}) \in Nat /\ Max({a, r}) >= a /\ Max({a, r}) >= r
      BY <2>4, <2>5, GreaterOfTwo
    <3> DEFINE m == Max({a, r})
    <3> HIDE DEF m
    <3>2. timer.at <= m
      BY <2>4, <2>5, <2>7, <3>1, SMTT(30) DEF m
    <3>3. QED
      BY <2>7, <3>2 DEF m, a, r, s
  <2>8. QED
    BY <2>2, <2>6, <2>7 DEF AwakeFor
<1>2. QED
  BY <1>1, LoopInvariant, PTL
==============================================================================
