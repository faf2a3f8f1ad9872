----------------------- MODULE TransactionQueuesProofs -----------------------
(***************************************************************************)
(* What becomes of a transaction in TransactionQueues, for any number of   *)
(* transactions, requests and blocks.                                      *)
(***************************************************************************)
EXTENDS TransactionQueues, Naturals, FiniteSetsExt, FiniteSetTheorems, WellFoundedInduction,
        SequenceTheorems, TLAPS

-----------------------------------------------------------------------------
(* Sums over finite sets, as MapThenSumSet computes them: they exist, do   *)
(* not depend on the order of the elements, and split. Induction is over   *)
(* sets of numbers.                                                        *)

Pick(s) == CHOOSE x \in s : TRUE
SumOver(f, S) == MapThenSumSet(LAMBDA t : f[t], S)

\* g gives every set of D the sum of f over it, taking the elements in the order of Pick.
AddsUp(f, D, g) == \A s \in D : g[s] = IF s = {} THEN 0 ELSE f[Pick(s)] + g[s \ {Pick(s)}]
Sums(f, D, g) == g \in [D -> Nat] /\ AddsUp(f, D, g)

\* Induction over the numbers, for a set of them.
LEMMA NumberInduction ==
    ASSUME NEW P, 0 \in P, \A n \in Nat : n \in P => n + 1 \in P
    PROVE  Nat \subseteq P
<1> SUFFICES ASSUME Nat \ P # {}  PROVE FALSE
  OBVIOUS
<1>1. PICK n \in Nat \ P : \A m \in Nat \ P : ~(<<m, n>> \in OpToRel(<, Nat))
  BY NatLessThanWellFounded, WFMin, Zenon
<1>2. \A m \in Nat \ P : ~(m < n)
  BY <1>1, Zenon DEF OpToRel
<1>3. n # 0 /\ n - 1 \in Nat /\ n - 1 < n /\ (n - 1) + 1 = n
  OBVIOUS
<1>4. QED
  BY <1>2, <1>3

\* The set over which to sum is finite: there is such a g.
LEMMA SumsExist ==
    ASSUME NEW S, IsFiniteSet(S), NEW f, \A t \in S : f[t] \in Nat
    PROVE  \E g : Sums(f, SUBSET S, g)
<1> DEFINE D(n) == {s \in SUBSET S : Cardinality(s) <= n}
           Has(n) == \E g : Sums(f, D(n), g)
           Good == {n \in Nat : Has(n)}
<1>1. \A s \in SUBSET S : IsFiniteSet(s) /\ Cardinality(s) \in Nat
  BY FS_Subset, FS_CardinalityType
<1>2. \A s \in SUBSET S : s # {} => Pick(s) \in s /\ Cardinality(s \ {Pick(s)}) = Cardinality(s) - 1
  <2>1. \A s : s # {} => Pick(s) \in s
    BY DEF Pick
  <2>2. QED
    BY <1>1, <2>1, FS_RemoveElement
<1>3. 0 \in Good
  <2>1. \A s \in D(0) : s = {}
    BY <1>1, FS_EmptySet
  <2>2. Sums(f, D(0), [s \in D(0) |-> 0])
    BY <2>1 DEF Sums, AddsUp
  <2>3. QED
    BY <2>2, Zenon
<1>4. ASSUME NEW n \in Nat, n \in Good  PROVE n + 1 \in Good
  <2>1. PICK g : Sums(f, D(n), g)
    BY <1>4
  <2> DEFINE h == [s \in D(n + 1) |-> IF s = {} THEN 0 ELSE f[Pick(s)] + g[s \ {Pick(s)}]]
  <2>2. \A s \in D(n + 1) : s # {} => /\ Pick(s) \in S /\ s \ {Pick(s)} \in D(n) /\ s \ {Pick(s)} \in D(n + 1)
                                     /\ f[Pick(s)] \in Nat /\ g[s \ {Pick(s)}] \in Nat
    <3>1. \A s \in D(n + 1) : s # {} => Pick(s) \in S /\ s \ {Pick(s)} \in D(n) /\ s \ {Pick(s)} \in D(n + 1)
      BY <1>1, <1>2
    <3>2. QED
      BY <2>1, <3>1 DEF Sums, AddsUp
  <2>3. \A s \in D(n) : s \in D(n + 1) /\ h[s] = g[s]
    <3>1. \A s \in D(n) : s \in D(n + 1)
      BY <1>1
    <3>2. QED
      BY <2>1, <3>1 DEF Sums, AddsUp
  <2>4. Sums(f, D(n + 1), h)
    <3>1. h \in [D(n + 1) -> Nat]
      BY <2>2
    <3>2. \A s \in D(n + 1) : s # {} => h[s \ {Pick(s)}] = g[s \ {Pick(s)}]
      BY <2>2, <2>3, Zenon
    <3>3. QED
      BY <3>1, <3>2, Zenon DEF Sums, AddsUp
  <2> HIDE DEF h
  <2>5. Has(n + 1)
    BY <2>4, Zenon
  <2> HIDE DEF Has
  <2>6. QED
    BY <2>5
<1>5. Nat \subseteq Good
  <2> HIDE DEF Good
  <2>1. QED
    BY <1>3, <1>4, NumberInduction
<1>6. D(Cardinality(S)) = SUBSET S
  BY <1>1, FS_Subset
<1>7. QED
  BY <1>1, <1>5, <1>6, Zenon

\* MapThenSumSet computes the value of such a function, and looks only at the numbers of its set.
LEMMA SumValue ==
    ASSUME NEW S, IsFiniteSet(S), NEW f, \A t \in S : f[t] \in Nat,
           NEW T, T \subseteq S, NEW e, \A t \in T : e[t] = f[t],
           NEW g, Sums(f, SUBSET S, g)
    PROVE  SumOver(e, T) = g[T]
<1> DEFINE h == CHOOSE k : k = [s \in SUBSET T |-> IF s = {} THEN 0 ELSE e[Pick(s)] + k[s \ {Pick(s)}]]
<1>1. SumOver(e, T) = h[T]
  BY DEF SumOver, MapThenSumSet, MapThenFoldSet, Pick
<1>2. AddsUp(e, SUBSET T, h)
  <2>1. PICK k : Sums(e, SUBSET T, k)
    <3>1. IsFiniteSet(T) /\ \A t \in T : e[t] \in Nat
      BY FS_Subset
    <3>2. QED
      BY <3>1, SumsExist
  <2>2. k = [s \in SUBSET T |-> IF s = {} THEN 0 ELSE e[Pick(s)] + k[s \ {Pick(s)}]]
    BY <2>1 DEF Sums, AddsUp
  <2>3. h = [s \in SUBSET T |-> IF s = {} THEN 0 ELSE e[Pick(s)] + h[s \ {Pick(s)}]]
    BY <2>2, Zenon
  <2> HIDE DEF h
  <2>4. QED
    BY <2>3, Zenon DEF AddsUp
<1> HIDE DEF h
<1> DEFINE Same == {n \in Nat : \A s \in SUBSET T : Cardinality(s) <= n => h[s] = g[s]}
<1>3. \A s \in SUBSET T : s \in SUBSET S /\ IsFiniteSet(s) /\ Cardinality(s) \in Nat
  BY FS_Subset, FS_CardinalityType
<1>4. \A s \in SUBSET T : s # {} => /\ Pick(s) \in s /\ s \ {Pick(s)} \in SUBSET T
                                   /\ Cardinality(s \ {Pick(s)}) = Cardinality(s) - 1
  <2>1. \A s : s # {} => Pick(s) \in s
    BY DEF Pick
  <2>2. QED
    BY <1>3, <2>1, FS_RemoveElement
<1>5. 0 \in Same
  <2>1. \A s \in SUBSET T : Cardinality(s) <= 0 => s = {}
    BY <1>3, FS_EmptySet
  <2>2. {} \in SUBSET T /\ {} \in SUBSET S
    OBVIOUS
  <2>3. h[{}] = g[{}]
    BY <1>2, <2>2, Zenon DEF Sums, AddsUp
  <2>4. QED
    BY <2>1, <2>3, Zenon
<1>6. ASSUME NEW n \in Nat, n \in Same  PROVE n + 1 \in Same
  <2> SUFFICES ASSUME NEW s \in SUBSET T, Cardinality(s) <= n + 1  PROVE h[s] = g[s]
    OBVIOUS
  <2>1. CASE s = {}
    BY <1>3, <1>2, <2>1, Zenon DEF Sums, AddsUp
  <2>2. CASE s # {}
    <3>1. Cardinality(s \ {Pick(s)}) <= n
      <4>1. Cardinality(s \ {Pick(s)}) = Cardinality(s) - 1 /\ Cardinality(s) \in Nat
        BY <1>3, <1>4, <2>2
      <4>2. QED
        BY <4>1
    <3>2. h[s \ {Pick(s)}] = g[s \ {Pick(s)}] /\ e[Pick(s)] = f[Pick(s)]
      BY <1>4, <1>6, <2>2, <3>1
    <3>3. QED
      BY <1>3, <1>2, <2>2, <3>2, Zenon DEF Sums, AddsUp
  <2>3. QED
    BY <2>1, <2>2
<1>7. Nat \subseteq Same
  <2> HIDE DEF Same
  <2>1. QED
    BY <1>5, <1>6, NumberInduction
<1>8. Cardinality(T) \in Same
  BY <1>3, <1>7
<1>9. QED
  BY <1>3, <1>8, <1>1

\* The order of the elements does not matter.
LEMMA SumsRemove ==
    ASSUME NEW S, IsFiniteSet(S), NEW f, \A t \in S : f[t] \in Nat,
           NEW g, Sums(f, SUBSET S, g), NEW s \in SUBSET S, NEW x \in s
    PROVE  g[s] = f[x] + g[s \ {x}]
<1> DEFINE Fine == {n \in Nat : \A r \in SUBSET S : Cardinality(r) <= n =>
                        \A y \in r : g[r] = f[y] + g[r \ {y}]}
<1>1. \A r \in SUBSET S : IsFiniteSet(r) /\ Cardinality(r) \in Nat /\ g[r] \in Nat
  BY FS_Subset, FS_CardinalityType DEF Sums
<1>2. \A r \in SUBSET S : \A y \in r : r \ {y} \in SUBSET S /\ Cardinality(r \ {y}) = Cardinality(r) - 1
  BY <1>1, FS_RemoveElement, Zenon
<1>3. 0 \in Fine
  <2>1. \A r \in SUBSET S : Cardinality(r) <= 0 => r = {}
    BY <1>1, FS_EmptySet
  <2>2. QED
    BY <2>1
<1>4. ASSUME NEW n \in Nat, n \in Fine  PROVE n + 1 \in Fine
  <2> SUFFICES ASSUME NEW r \in SUBSET S, Cardinality(r) <= n + 1, NEW y \in r
               PROVE  g[r] = f[y] + g[r \ {y}]
    OBVIOUS
  <2> DEFINE z == Pick(r)
  <2>1. z \in r
    BY DEF Pick
  <2>2. g[r] = f[z] + g[r \ {z}]
    BY DEF Sums, AddsUp
  <2>3. CASE z = y
    BY <2>2, <2>3
  <2>4. CASE z # y
    <3> HIDE DEF z
    <3>1. y \in r \ {z} /\ z \in r \ {y} /\ r \ {y} \in SUBSET S /\ r \ {z} \in SUBSET S
      BY <2>1, <2>4
    <3>2. Cardinality(r \ {y}) <= n /\ Cardinality(r \ {z}) <= n
      <4>1. Cardinality(r) \in Nat /\ Cardinality(r \ {y}) = Cardinality(r) - 1
            /\ Cardinality(r \ {z}) = Cardinality(r) - 1
        BY <1>1, <1>2, <2>1
      <4>2. QED
        BY <4>1
    <3>3. g[r \ {z}] = f[y] + g[(r \ {z}) \ {y}] /\ g[r \ {y}] = f[z] + g[(r \ {y}) \ {z}]
      BY <1>4, <3>1, <3>2
    <3>4. (r \ {z}) \ {y} = (r \ {y}) \ {z} /\ (r \ {y}) \ {z} \in SUBSET S
      OBVIOUS
    <3>5. f[y] \in Nat /\ f[z] \in Nat /\ g[(r \ {y}) \ {z}] \in Nat
      BY <1>1, <2>1, <3>4
    <3> DEFINE u == g[(r \ {y}) \ {z}]
               v == g[r \ {y}]
               w == g[r \ {z}]
    <3>6. u \in Nat /\ v = f[z] + u /\ w = f[y] + u /\ g[r] = f[z] + w
      BY <2>2, <3>3, <3>4, <3>5, Zenon
    <3> HIDE DEF u, v, w
    <3>7. g[r] = f[y] + v
      BY <3>5, <3>6
    <3>8. QED
      BY <3>7 DEF v
  <2>5. QED
    BY <2>3, <2>4
<1>5. Nat \subseteq Fine
  <2> HIDE DEF Fine
  <2>1. QED
    BY <1>3, <1>4, NumberInduction
<1>6. Cardinality(s) \in Fine
  BY <1>1, <1>5, Zenon
<1>7. QED
  BY <1>1, <1>6

\* What the sums are used for: a sum is a number, depends on the numbers of its set, and grows with
\* every element.
LEMMA SumFacts ==
    ASSUME NEW S, IsFiniteSet(S), NEW f, \A t \in S : f[t] \in Nat
    PROVE  /\ SumOver(f, {}) = 0
           /\ SumOver(f, S) \in Nat
           /\ \A e : (\A t \in S : e[t] = f[t]) => SumOver(e, S) = SumOver(f, S)
           /\ \A x \in S : SumOver(f, S) = f[x] + SumOver(f, S \ {x})
<1>1. PICK g : Sums(f, SUBSET S, g)
  BY SumsExist, Zenon
<1>2. \A T \in SUBSET S : SumOver(f, T) = g[T]
  BY <1>1, SumValue
<1>3. ASSUME NEW e, \A t \in S : e[t] = f[t]  PROVE SumOver(e, S) = SumOver(f, S)
  BY <1>1, <1>2, <1>3, SumValue
<1>4. SumOver(f, {}) = 0 /\ SumOver(f, S) \in Nat
  <2>1. {} \in SUBSET S /\ S \in SUBSET S
    OBVIOUS
  <2>2. g[{}] = 0
    BY <1>1, <2>1, Zenon DEF Sums, AddsUp
  <2>3. g[S] \in Nat
    BY <1>1, <2>1 DEF Sums
  <2>4. QED
    BY <1>2, <2>1, <2>2, <2>3
<1>5. ASSUME NEW x \in S  PROVE SumOver(f, S) = f[x] + SumOver(f, S \ {x})
  <2>1. S \in SUBSET S /\ S \ {x} \in SUBSET S
    OBVIOUS
  <2>2. g[S] = f[x] + g[S \ {x}]
    BY <1>1, <2>1, SumsRemove
  <2>3. QED
    BY <1>2, <2>1, <2>2
<1>6. QED
  BY <1>3, <1>4, <1>5

\* A sum is the sum over a part and over the rest.
LEMMA SumSplit ==
    ASSUME NEW S, IsFiniteSet(S), NEW f, \A t \in S : f[t] \in Nat, NEW B \in SUBSET S
    PROVE  SumOver(f, S) = SumOver(f, B) + SumOver(f, S \ B)
<1> DEFINE Fine == {n \in Nat : \A r \in SUBSET S : Cardinality(r) <= n =>
                        SumOver(f, S) = SumOver(f, r) + SumOver(f, S \ r)}
<1>1. \A r \in SUBSET S : IsFiniteSet(r) /\ Cardinality(r) \in Nat /\ SumOver(f, r) \in Nat
  <2>1. \A r \in SUBSET S : IsFiniteSet(r) /\ Cardinality(r) \in Nat
    BY FS_Subset, FS_CardinalityType
  <2>2. ASSUME NEW r \in SUBSET S  PROVE SumOver(f, r) \in Nat
    <3>1. \A t \in r : f[t] \in Nat
      OBVIOUS
    <3>2. QED
      BY <2>1, <3>1, SumFacts, Zenon
  <2>3. QED
    BY <2>1, <2>2
<1>2. SumOver(f, {}) = 0
  BY SumFacts
<1>3. 0 \in Fine
  <2>1. \A r \in SUBSET S : Cardinality(r) <= 0 => r = {}
    BY <1>1, FS_EmptySet
  <2>2. S \ {} = S /\ S \in SUBSET S
    OBVIOUS
  <2>3. SumOver(f, S) = SumOver(f, {}) + SumOver(f, S \ {})
    BY <1>1, <1>2, <2>2
  <2>4. QED
    BY <2>1, <2>3, Zenon
<1>4. ASSUME NEW n \in Nat, n \in Fine  PROVE n + 1 \in Fine
  <2> SUFFICES ASSUME NEW r \in SUBSET S, Cardinality(r) <= n + 1
               PROVE  SumOver(f, S) = SumOver(f, r) + SumOver(f, S \ r)
    OBVIOUS
  <2>1. CASE r = {}
    <3>1. Cardinality(r) <= n
      BY <2>1, FS_EmptySet
    <3>2. QED
      BY <1>4, <3>1
  <2>2. ASSUME NEW x \in r  PROVE SumOver(f, S) = SumOver(f, r) + SumOver(f, S \ r)
    <3> DEFINE q == r \ {x}
               p == S \ q
    <3>1. q \in SUBSET S /\ p \in SUBSET S /\ x \in p /\ p \ {x} = S \ r /\ S \ r \in SUBSET S
      OBVIOUS
    <3>2. Cardinality(q) <= n
      <4>1. Cardinality(r) \in Nat /\ Cardinality(q) = Cardinality(r) - 1
        BY <1>1, FS_RemoveElement
      <4> HIDE DEF q
      <4>2. QED
        BY <4>1
    <3>3. SumOver(f, S) = SumOver(f, q) + SumOver(f, p)
      BY <1>4, <3>1, <3>2
    <3>4. SumOver(f, r) = f[x] + SumOver(f, q)
      <4>1. IsFiniteSet(r) /\ \A t \in r : f[t] \in Nat
        BY <1>1
      <4>2. QED
        BY <4>1, SumFacts
    <3>5. SumOver(f, p) = f[x] + SumOver(f, S \ r)
      <4>1. IsFiniteSet(p) /\ \A t \in p : f[t] \in Nat
        BY <1>1
      <4> HIDE DEF p
      <4>2. QED
        BY <3>1, <4>1, SumFacts
    <3> HIDE DEF p, q
    <3>6. SumOver(f, q) \in Nat /\ SumOver(f, S \ r) \in Nat /\ f[x] \in Nat
      BY <1>1, <3>1
    <3>7. QED
      BY <3>3, <3>4, <3>5, <3>6
  <2>3. QED
    BY <2>1, <2>2
<1>5. Nat \subseteq Fine
  <2> HIDE DEF Fine
  <2>1. QED
    BY <1>3, <1>4, NumberInduction
<1>6. Cardinality(B) \in Fine
  BY <1>1, <1>5
<1>7. QED
  BY <1>1, <1>6

-----------------------------------------------------------------------------
(* The queues.                                                             *)

Kinds == {"persisted", "forked", "aborted"}

\* The state is well-typed.
QueueTypes ==
    /\ mode \in {"producing", "speculating"} /\ building \in BOOLEAN
    /\ chain \in Seq(SUBSET Trx) /\ chain # <<>>
    /\ block \in SUBSET Trx
    /\ unapplied \in [Trx -> Kinds \cup {"none"}]
    /\ incoming \in Seq(Request)
    /\ phase \in {"start", "idle", "unapplied", "incoming"}
    /\ todo \in SUBSET Trx
    /\ answers \in [Request -> Seq({"accepted", "rejected"})]
    /\ dropped \in SUBSET Trx

\* No request is in the queue twice, or in it and answered, or answered twice.
WaitsOnce ==
    /\ \A i, j \in DOMAIN incoming : incoming[i] = incoming[j] => i = j
    /\ \A i \in DOMAIN incoming : answers[incoming[i]] = <<>>
    /\ \A r \in Request : Len(answers[r]) <= 1

\* No transaction is in two blocks of the chain.
ChainDisjoint == \A i, j \in DOMAIN chain : i # j => chain[i] \cap chain[j] = {}

\* The inductive invariant: NotAgain needs that a forked block shares nothing with the blocks
\* below it.
QueueInv ==
    QueueTypes /\ WaitsOnce /\ (CanProduce => NotLost) /\ NotAgain /\ ChainDisjoint

-----------------------------------------------------------------------------
(* What the operators compute.                                             *)

\* The queue's operations give every transaction a type again; what they leave alone keeps it.
LEMMA UnappliedOps ==
    ASSUME NEW u \in [Trx -> Kinds \cup {"none"}], NEW S \in SUBSET Trx
    PROVE  /\ add_aborted(u, S) \in [Trx -> Kinds \cup {"none"}]
           /\ add_forked(u, S) \in [Trx -> Kinds \cup {"none"}]
           /\ clear_applied(u, S) \in [Trx -> Kinds \cup {"none"}]
  BY DEF add_aborted, add_forked, clear_applied, Kinds

\* The transactions of a chain that grows by one block.
LEMMA InChainAppend ==
    ASSUME NEW c \in Seq(SUBSET Trx), NEW S \in SUBSET Trx
    PROVE  /\ Append(c, S) \in Seq(SUBSET Trx) /\ Append(c, S) # <<>>
           /\ Len(Append(c, S)) = Len(c) + 1
           /\ UNION ToSet(Append(c, S)) = (UNION ToSet(c)) \cup S
<1>1. Append(c, S) \in Seq(SUBSET Trx) /\ Len(Append(c, S)) = Len(c) + 1
  OBVIOUS
<1>2. ToSet(Append(c, S)) = ToSet(c) \cup {S}
  BY DEF ToSet
<1>3. QED
  BY <1>1, <1>2

\* The transactions of a chain are those of its last block and of the blocks before it.
LEMMA InChainFront ==
    ASSUME NEW c \in Seq(SUBSET Trx), c # <<>>
    PROVE  /\ Front(c) \in Seq(SUBSET Trx) /\ Len(Front(c)) = Len(c) - 1
           /\ \A i \in 1..(Len(c) - 1) : Front(c)[i] = c[i]
           /\ Last(c) \in SUBSET Trx
           /\ UNION ToSet(c) = (UNION ToSet(Front(c))) \cup Last(c)
<1>1. Len(c) \in Nat \ {0}
  OBVIOUS
<1>2. Front(c) = [i \in 1..(Len(c) - 1) |-> c[i]]
  BY <1>1 DEF Front
<1>3. Front(c) \in Seq(SUBSET Trx) /\ Len(Front(c)) = Len(c) - 1 /\ Last(c) \in SUBSET Trx
  BY <1>1, <1>2 DEF Last
<1>4. ToSet(c) = ToSet(Front(c)) \cup {Last(c)}
  BY <1>1, <1>2, <1>3 DEF ToSet, Last
<1>5. QED
  BY <1>2, <1>3, <1>4

-----------------------------------------------------------------------------
(* A request is processed.                                                 *)

\* incoming_transaction_queue::add, or an answer: the request waits once or is answered once.
LEMMA WaitsOrAnswered ==
    ASSUME QueueInv, NEW r \in Request, NEW q \in Seq(Request),
           answers[r] = <<>>, \A i \in DOMAIN q : q[i] # r /\ answers[q[i]] = <<>>,
           \A i, j \in DOMAIN q : q[i] = q[j] => i = j,
           \/ incoming' = Append(q, r) /\ UNCHANGED answers
           \/ \E what \in {"accepted", "rejected"} : incoming' = q /\ Answer(r, what)
    PROVE  /\ incoming' \in Seq(Request)
           /\ answers' \in [Request -> Seq({"accepted", "rejected"})]
           /\ WaitsOnce'
<1> USE DEF QueueInv, QueueTypes
<1>1. CASE incoming' = Append(q, r) /\ UNCHANGED answers
  <2>1. incoming' \in Seq(Request) /\ Len(incoming') = Len(q) + 1
    BY <1>1
  <2>2. \A i \in DOMAIN incoming' : incoming'[i] = IF i = Len(q) + 1 THEN r ELSE q[i]
    BY <1>1
  <2>3. \A i \in DOMAIN incoming' : i # Len(q) + 1 => i \in DOMAIN q
    BY <2>1
  <2>4. QED
    BY <1>1, <2>1, <2>2, <2>3, SMTT(30) DEF WaitsOnce
<1>2. ASSUME NEW what \in {"accepted", "rejected"}, incoming' = q, Answer(r, what)
      PROVE  /\ incoming' \in Seq(Request)
             /\ answers' \in [Request -> Seq({"accepted", "rejected"})]
             /\ WaitsOnce'
  <2>1. answers' = [answers EXCEPT ![r] = <<what>>]
    BY <1>2 DEF Answer
  <2>2. QED
    BY <1>2, <2>1 DEF WaitsOnce
<1>3. QED
  BY <1>1, <1>2

\* process_incoming_transaction_async keeps the invariant for whoever calls it.
LEMMA ProcessPreserves ==
    ASSUME QueueInv, NEW r \in Request, NEW q \in Seq(Request), NEW ends \in BOOLEAN,
           answers[r] = <<>>, \A i \in DOMAIN q : q[i] # r /\ answers[q[i]] = <<>>,
           \A i, j \in DOMAIN q : q[i] = q[j] => i = j,
           process(r, q, ends)
    PROVE  /\ block' \in SUBSET Trx /\ unapplied' \in [Trx -> Kinds \cup {"none"}]
           /\ incoming' \in Seq(Request)
           /\ answers' \in [Request -> Seq({"accepted", "rejected"})]
           /\ WaitsOnce' /\ (CanProduce => NotLost)' /\ NotAgain'
           /\ UNCHANGED <<mode, building, chain, dropped>>
<1> USE DEF QueueInv, QueueTypes
<1> DEFINE t == TrxOf[r]
<1>1. t \in Trx
  BY QueuesAssumption
<1>2. UNCHANGED <<mode, building, chain, dropped>>
  BY DEF process
<1>3. \/ incoming' = Append(q, r) /\ UNCHANGED answers
      \/ \E what \in {"accepted", "rejected"} : incoming' = q /\ Answer(r, what)
  BY DEF process, Add
<1>4. /\ incoming' \in Seq(Request)
      /\ answers' \in [Request -> Seq({"accepted", "rejected"})]
      /\ WaitsOnce'
  BY <1>3, WaitsOrAnswered, Zenon
<1>5. InChain' = InChain /\ HeadTime' = HeadTime
  BY <1>2 DEF InChain, HeadTime
<1>6. CASE UNCHANGED <<block, unapplied>> /\ (UNCHANGED answers \/ Answer(r, "rejected"))
  <2>1. Accepted' \subseteq Accepted
    <3>1. CASE UNCHANGED answers
      BY <3>1 DEF Accepted
    <3>2. CASE Answer(r, "rejected")
      <4>1. answers' = [answers EXCEPT ![r] = <<"rejected">>]
        BY <3>2 DEF Answer
      <4>2. \A x \in Request : "accepted" \in ToSet(answers'[x]) => "accepted" \in ToSet(answers[x])
        BY <4>1 DEF ToSet
      <4>3. QED
        BY <4>2 DEF Accepted
    <3>3. QED
      BY <1>6, <3>1, <3>2
  <2>2. NotLost' \/ ~NotLost
    BY <1>2, <1>5, <1>6, <2>1 DEF NotLost
  <2>3. NotAgain'
    BY <1>5, <1>6 DEF NotAgain, OfType
  <2>4. QED
    BY <1>2, <1>4, <1>6, <2>2, <2>3
<1>7. CASE /\ ~Rejects(t) /\ Answer(r, "accepted") /\ block' = block \cup {t}
           /\ unapplied' \in {unapplied, add_persisted(unapplied, t)}
  <2>1. Accepted' \subseteq Accepted \cup {t}
    <3>1. answers' = [answers EXCEPT ![r] = <<"accepted">>]
      BY <1>7 DEF Answer
    <3>2. \A x \in Request : x # r /\ "accepted" \in ToSet(answers'[x])
                              => "accepted" \in ToSet(answers[x])
      BY <3>1
    <3>3. QED
      BY <3>2 DEF Accepted
  <2>2. /\ unapplied' \in [Trx -> Kinds \cup {"none"}]
        /\ \A x \in Trx : unapplied'[x] = unapplied[x] \/ unapplied'[x] = "persisted"
    BY <1>1, <1>7 DEF add_persisted, Kinds
  <2>3. NotLost' \/ ~NotLost
    <3>1. Accepted \subseteq Trx
      BY QueuesAssumption DEF Accepted
    <3>2. \A x \in Trx : unapplied[x] # "none" => unapplied'[x] # "none"
      BY <2>2
    <3>3. QED
      BY <1>1, <1>2, <1>5, <1>7, <2>1, <3>1, <3>2 DEF NotLost
  <2>4. NotAgain'
    BY <1>1, <1>5, <1>7, <2>2 DEF NotAgain, OfType, Rejects
  <2>5. QED
    BY <1>1, <1>2, <1>4, <1>7, <2>2, <2>3, <2>4
<1>8. QED
  BY <1>6, <1>7 DEF process, Add

-----------------------------------------------------------------------------
(* The steps.                                                              *)

\* A request that arrives, and one that is taken from the queue.
LEMMA RequestPreserves ==
    ASSUME QueueInv,
           (\E r \in Request : on_incoming_transaction(r)) \/ process_incoming
    PROVE  QueueInv'
<1>1. ASSUME NEW r \in Request, on_incoming_transaction(r)  PROVE QueueInv'
  <2>1. /\ answers[r] = <<>> /\ \A i \in DOMAIN incoming : incoming[i] # r
        /\ UNCHANGED <<phase, todo>>
        /\ \E ends \in BOOLEAN : process(r, incoming, ends)
    BY <1>1 DEF on_incoming_transaction, Received, ToSet
  <2>2. /\ incoming \in Seq(Request) /\ \A i \in DOMAIN incoming : answers[incoming[i]] = <<>>
        /\ \A i, j \in DOMAIN incoming : incoming[i] = incoming[j] => i = j
    BY DEF QueueInv, QueueTypes, WaitsOnce
  <2>3. /\ block' \in SUBSET Trx /\ unapplied' \in [Trx -> Kinds \cup {"none"}]
        /\ incoming' \in Seq(Request)
        /\ answers' \in [Request -> Seq({"accepted", "rejected"})]
        /\ WaitsOnce' /\ (CanProduce => NotLost)' /\ NotAgain'
        /\ UNCHANGED <<mode, building, chain, dropped>>
    BY <2>1, <2>2, ProcessPreserves
  <2>4. QED
    BY <2>1, <2>3 DEF QueueInv, QueueTypes, ChainDisjoint
<1>2. ASSUME process_incoming  PROVE QueueInv'
  <2> DEFINE r == Head(incoming)
             q == Tail(incoming)
  <2>1. /\ phase' \in {phase, "idle"} /\ UNCHANGED todo /\ incoming # <<>>
        /\ \E ends \in BOOLEAN : process(r, q, ends)
    BY <1>2 DEF process_incoming
  <2>2. /\ r \in Request /\ q \in Seq(Request) /\ r = incoming[1] /\ 1 \in DOMAIN incoming
        /\ \A i \in DOMAIN q : i + 1 \in DOMAIN incoming /\ q[i] = incoming[i + 1] /\ i \in Nat \ {0}
    BY <2>1 DEF QueueInv, QueueTypes
  <2>3. /\ answers[r] = <<>> /\ \A i \in DOMAIN q : q[i] # r /\ answers[q[i]] = <<>>
        /\ \A i, j \in DOMAIN q : q[i] = q[j] => i = j
    BY <2>2 DEF QueueInv, WaitsOnce
  <2> HIDE DEF r, q
  <2>4. /\ block' \in SUBSET Trx /\ unapplied' \in [Trx -> Kinds \cup {"none"}]
        /\ incoming' \in Seq(Request)
        /\ answers' \in [Request -> Seq({"accepted", "rejected"})]
        /\ WaitsOnce' /\ (CanProduce => NotLost)' /\ NotAgain'
        /\ UNCHANGED <<mode, building, chain, dropped>>
    BY <2>1, <2>2, <2>3, ProcessPreserves
  <2>5. QED
    BY <2>1, <2>4 DEF QueueInv, QueueTypes, ChainDisjoint
<1>3. QED
  BY <1>1, <1>2

\* The steps that only move start_block on.
LEMMA ControlPreserves ==
    ASSUME QueueInv,
           \/ start_waits \/ start_exhausted \/ unapplied_done \/ incoming_done
           \/ schedule_production_loop \/ UNCHANGED vars
    PROVE  QueueInv'
<1>1. /\ UNCHANGED <<building, chain, block, unapplied, incoming, answers, dropped>>
      /\ phase' \in {"start", "idle", "unapplied", "incoming"}
      /\ mode' \in {"producing", "speculating"} /\ todo' \in SUBSET Trx
  BY DEF QueueInv, QueueTypes, start_waits, start_exhausted, unapplied_done, incoming_done,
         schedule_production_loop, vars, queue_vars
<1>2. QueueTypes' /\ WaitsOnce' /\ ChainDisjoint'
  BY <1>1 DEF QueueInv, QueueTypes, WaitsOnce, ChainDisjoint
<1>3. (CanProduce => NotLost)' /\ NotAgain'
  BY <1>1 DEF QueueInv, NotLost, NotAgain, Accepted, InChain, HeadTime, OfType
<1>4. QED
  BY <1>2, <1>3 DEF QueueInv

\* Aborting the pending block: every transaction of it is in the queue, unless the node does not
\* produce.
LEMMA AbortedKeeps ==
    ASSUME QueueInv
    PROVE  /\ Aborted \in [Trx -> Kinds \cup {"none"}]
           /\ \A t \in Trx : unapplied[t] # "none" => Aborted[t] # "none"
           /\ CanProduce => \A t \in block : Aborted[t] # "none"
           /\ \A t \in Trx : Aborted[t] \in {"forked", "aborted"} => t \notin InChain
<1> USE DEF QueueInv, QueueTypes
<1>1. CASE CanProduce
  <2>1. Aborted = [t \in Trx |-> IF t \in block /\ unapplied[t] = "none" THEN "aborted" ELSE unapplied[t]]
    BY <1>1 DEF Aborted, add_aborted
  <2>2. QED
    BY <2>1 DEF Kinds, NotAgain, OfType
<1>2. CASE ~CanProduce
  BY <1>2 DEF Aborted, add_aborted, Kinds, NotAgain, OfType
<1>3. QED
  BY <1>1, <1>2

\* start_block: what it takes from the queue has expired.
LEMMA StartPreserves ==
    ASSUME QueueInv, start_block
    PROVE  QueueInv'
<1>1. /\ UNCHANGED <<chain, incoming, answers, dropped>> /\ block' = {}
      /\ mode' \in {"producing", "speculating"} /\ building' \in BOOLEAN
      /\ phase' \in {"idle", "unapplied"} /\ todo' \in SUBSET Trx
  BY Zenon DEF start_block
<1>2. /\ unapplied' \in [Trx -> Kinds \cup {"none"}]
      /\ \A t \in Trx : \/ unapplied'[t] = Aborted[t]
                        \/ unapplied'[t] = "none" /\ Expiry[t] <= HeadTime + 1
  <2>1. CASE unapplied' = Aborted
    BY <2>1, AbortedKeeps
  <2>2. ASSUME NEW S \in SUBSET {t \in Trx : Aborted[t] # "none" /\ Expiry[t] <= HeadTime + 1},
               unapplied' = [t \in Trx |-> IF t \in S THEN "none" ELSE Aborted[t]]
        PROVE  <1>2!1 /\ <1>2!2
    BY <2>2, AbortedKeeps
  <2>3. QED
    BY <2>1, <2>2, Zenon DEF start_block
<1>3. InChain' = InChain /\ HeadTime' = HeadTime /\ Accepted' = Accepted /\ Accepted \subseteq Trx
  BY <1>1, QueuesAssumption DEF InChain, HeadTime, Accepted
<1>4. (CanProduce => NotLost)'
  BY <1>1, <1>2, <1>3, AbortedKeeps DEF NotLost, QueueInv
<1>5. NotAgain'
  BY <1>1, <1>2, <1>3, AbortedKeeps DEF NotAgain, OfType
<1>6. QED
  BY <1>1, <1>2, <1>4, <1>5 DEF QueueInv, QueueTypes, WaitsOnce, ChainDisjoint

\* process_unapplied_trxs: a transaction that leaves the queue is in the chain, in the block or
\* given up.
LEMMA UnappliedPreserves ==
    ASSUME QueueInv, NEW t \in Trx, process_unapplied(t)
    PROVE  QueueInv'
<1>1. /\ UNCHANGED <<mode, building, chain, incoming, phase, answers>>
      /\ todo' \in SUBSET Trx
  BY DEF process_unapplied, QueueInv, QueueTypes
<1>2. /\ unapplied' \in {unapplied, [unapplied EXCEPT ![t] = "none"]}
      /\ block' \in {block, block \cup {t}} /\ dropped' \in {dropped, dropped \cup {t}}
      /\ block' # block => t \notin InChain
      /\ unapplied' # unapplied => t \in InChain \cup block' \cup dropped'
  BY DEF process_unapplied
<1>3. InChain' = InChain /\ HeadTime' = HeadTime /\ Accepted' = Accepted /\ Accepted \subseteq Trx
  BY <1>1, QueuesAssumption DEF InChain, HeadTime, Accepted
<1>4. unapplied' \in [Trx -> Kinds \cup {"none"}]
  BY <1>2, Zenon DEF QueueInv, QueueTypes
<1>5. \A x \in Trx : unapplied'[x] = unapplied[x] \/ (x = t /\ unapplied'[x] = "none" /\ unapplied' # unapplied)
  BY <1>2 DEF QueueInv, QueueTypes
<1>6. (CanProduce => NotLost)'
  BY <1>1, <1>2, <1>3, <1>5 DEF NotLost, QueueInv
<1>7. NotAgain'
  BY <1>2, <1>3, <1>5 DEF NotAgain, OfType, QueueInv
<1>8. QED
  BY <1>1, <1>2, <1>4, <1>6, <1>7 DEF QueueInv, QueueTypes, WaitsOnce, ChainDisjoint

\* produce_block: the block was disjoint from the chain.
LEMMA ProducePreserves ==
    ASSUME QueueInv, produce_block
    PROVE  QueueInv'
<1> USE DEF QueueInv, QueueTypes
<1>1. /\ chain' = Append(chain, block) /\ block' = {} /\ building' = FALSE /\ phase' = "start"
      /\ unapplied' = clear_applied(unapplied, block)
      /\ UNCHANGED <<mode, incoming, todo, answers, dropped>>
  BY DEF produce_block
<1>2. /\ chain' \in Seq(SUBSET Trx) /\ chain' # <<>>
      /\ InChain' = InChain \cup block /\ HeadTime' = HeadTime + 1 /\ HeadTime \in Nat
  <2>1. /\ chain' \in Seq(SUBSET Trx) /\ chain' # <<>> /\ Len(chain') = Len(chain) + 1
        /\ UNION ToSet(chain') = (UNION ToSet(chain)) \cup block
    <3>1. chain \in Seq(SUBSET Trx) /\ block \in SUBSET Trx /\ chain' = Append(chain, block)
      BY <1>1
    <3>2. QED
      BY ONLY <3>1, InChainAppend, Zenon
  <2>2. HeadTime' = HeadTime + 1 /\ HeadTime \in Nat
    BY <2>1 DEF HeadTime
  <2>3. InChain' = InChain \cup block
    BY ONLY <2>1 DEF InChain
  <2>4. QED
    BY <2>1, <2>2, <2>3
<1>3. unapplied' \in [Trx -> Kinds \cup {"none"}]
  BY <1>1, UnappliedOps
<1>4. \A x \in Trx : \/ unapplied'[x] = unapplied[x] /\ (x \in block => unapplied[x] = "persisted")
                     \/ unapplied'[x] = "none" /\ (x \in block \/ unapplied[x] = "none")
  BY <1>1 DEF clear_applied
<1>5. Accepted' = Accepted /\ Accepted \subseteq Trx
  BY <1>1, QueuesAssumption DEF Accepted
<1>6. (CanProduce => NotLost)'
  BY <1>1, <1>2, <1>4, <1>5, QueuesAssumption, SMTT(30) DEF NotLost
<1>7. NotAgain'
  BY <1>1, <1>2, <1>4 DEF NotAgain, OfType
<1>8. ChainDisjoint'
  <2>1. \A i \in DOMAIN chain : chain[i] \cap block = {}
    BY DEF NotAgain, InChain, ToSet
  <2>2. \A i \in DOMAIN chain' : \/ i \in DOMAIN chain /\ chain'[i] = chain[i]
                                 \/ i = Len(chain) + 1 /\ chain'[i] = block
    BY <1>1
  <2>3. QED
    BY <2>1, <2>2, Zenon DEF ChainDisjoint
<1>9. QED
  BY <1>1, <1>2, <1>3, <1>6, <1>7, <1>8, Zenon DEF WaitsOnce

\* on_incoming_block: the transactions of the block that leaves the chain are in the queue, those of
\* the new blocks are not.
LEMMA BlockPreserves ==
    ASSUME QueueInv, NEW S \in SUBSET Trx, NEW T \in SUBSET Trx, on_incoming_block(S, T)
    PROVE  QueueInv'
<1> DEFINE old == Last(chain)
           Below == UNION ToSet(Front(chain))
           forked == add_forked(Aborted, old)
<1>1. /\ block' = {} /\ building' = FALSE /\ phase' = "start"
      /\ UNCHANGED <<mode, incoming, todo, answers>>
  BY DEF on_incoming_block
<1>2. chain \in Seq(SUBSET Trx) /\ chain # <<>>
  BY DEF QueueInv, QueueTypes
<1>3. /\ Front(chain) \in Seq(SUBSET Trx) /\ Len(Front(chain)) = Len(chain) - 1
      /\ \A i \in 1..(Len(chain) - 1) : Front(chain)[i] = chain[i]
      /\ old \in SUBSET Trx
      /\ InChain = Below \cup old
  BY ONLY <1>2, InChainFront, Zenon DEF InChain
<1>4. Below \cap old = {}
  <2>1. \A i \in DOMAIN Front(chain) : Front(chain)[i] \cap old = {}
    <3>1. Len(chain) \in DOMAIN chain /\ old = chain[Len(chain)]
      BY <1>2 DEF Last
    <3>2. \A i \in DOMAIN Front(chain) : i \in DOMAIN chain /\ i # Len(chain) /\ Front(chain)[i] = chain[i]
      BY <1>2, <1>3
    <3>3. QED
      BY <3>1, <3>2 DEF QueueInv, ChainDisjoint
  <2>2. QED
    BY ONLY <2>1 DEF ToSet
<1>5. /\ forked \in [Trx -> Kinds \cup {"none"}]
      /\ \A t \in Trx : Aborted[t] # "none" => forked[t] # "none"
      /\ CanProduce => \A t \in old : forked[t] # "none"
      /\ \A t \in Trx : forked[t] \in {"forked", "aborted"} => t \notin Below
      /\ \A t \in Trx : forked[t] \in {"forked", "aborted"} => t \notin InChain \/ t \in old
  <2>1. Aborted \in [Trx -> Kinds \cup {"none"}]
    BY AbortedKeeps
  <2>2. CASE CanProduce
    <3>1. forked = [t \in Trx |-> IF t \in old /\ Aborted[t] = "none" THEN "forked" ELSE Aborted[t]]
      BY <2>2 DEF add_forked
    <3> HIDE DEF forked, Below, old
    <3>2. QED
      BY <1>3, <1>4, <2>1, <3>1, AbortedKeeps DEF Kinds
  <2>3. CASE ~CanProduce
    <3>1. forked = Aborted
      BY <2>3 DEF add_forked
    <3> HIDE DEF forked, Below, old
    <3>2. QED
      BY <1>3, <1>4, <2>1, <2>3, <3>1, AbortedKeeps
  <2>4. QED
    BY <2>2, <2>3, Zenon
<1>6. Accepted' = Accepted /\ Accepted \subseteq Trx
  BY <1>1, QueuesAssumption DEF Accepted
<1>7. HeadTime \in Nat
  BY <1>2 DEF HeadTime
<1> HIDE DEF old, Below, forked
<1>8. CASE /\ S \cap InChain = {} /\ chain' = Append(chain, S)
           /\ unapplied' = clear_applied(Aborted, S) /\ UNCHANGED dropped
  <2>1. /\ chain' \in Seq(SUBSET Trx) /\ chain' # <<>> /\ Len(chain') = Len(chain) + 1
        /\ InChain' = InChain \cup S
    BY ONLY <1>2, <1>8, S \in SUBSET Trx, InChainAppend, Zenon DEF InChain
  <2>2. HeadTime' = HeadTime + 1
    BY <2>1 DEF HeadTime
  <2>3. /\ unapplied' \in [Trx -> Kinds \cup {"none"}]
        /\ \A x \in Trx : unapplied'[x] = IF x \in S /\ Aborted[x] # "persisted" THEN "none" ELSE Aborted[x]
    BY <1>8, AbortedKeeps, UnappliedOps DEF clear_applied
  <2>4. (CanProduce => NotLost)'
    BY <1>1, <1>6, <1>7, <1>8, <2>1, <2>2, <2>3, AbortedKeeps, QueuesAssumption, SMTT(30) DEF NotLost, QueueInv
  <2>5. NotAgain'
    BY <1>1, <2>1, <2>3, AbortedKeeps DEF NotAgain, OfType
  <2>6. ChainDisjoint'
    <3>1. \A i \in DOMAIN chain : chain[i] \cap S = {}
      BY <1>8 DEF InChain, ToSet
    <3>2. \A i \in DOMAIN chain' : \/ i \in DOMAIN chain /\ chain'[i] = chain[i]
                                   \/ i = Len(chain) + 1 /\ chain'[i] = S
      BY <1>2, <1>8
    <3>3. QED
      BY <3>1, <3>2 DEF ChainDisjoint, QueueInv
  <2>7. QED
    BY <1>1, <1>8, <2>1, <2>3, <2>4, <2>5, <2>6, Zenon DEF QueueInv, QueueTypes, WaitsOnce
<1>9. CASE /\ (S \cup T) \cap Below = {} /\ S \cap T = {} /\ chain' = Front(chain) \o <<S, T>>
           /\ unapplied' = clear_applied(forked, S \cup T) /\ UNCHANGED dropped
  <2> DEFINE c == Front(chain)
  <2>1. /\ chain' \in Seq(SUBSET Trx) /\ Len(chain') = Len(c) + 2
        /\ \A i \in 1..Len(c) : chain'[i] = c[i]
        /\ chain'[Len(c) + 1] = S /\ chain'[Len(c) + 2] = T
        /\ InChain' = Below \cup S \cup T
    <3>1. c \in Seq(SUBSET Trx) /\ chain' = c \o <<S, T>>
      BY <1>3, <1>9
    <3>2. InChain' = UNION ToSet(chain') /\ Below = UNION ToSet(c)
      BY DEF InChain, Below
    <3> HIDE DEF c
    <3>3. chain' \in Seq(SUBSET Trx) /\ Len(chain') = Len(c) + 2
      BY <3>1
    <3>4. /\ \A i \in 1..Len(c) : chain'[i] = c[i]
          /\ chain'[Len(c) + 1] = S /\ chain'[Len(c) + 2] = T
      BY <3>1
    <3>5. DOMAIN chain' = (DOMAIN c) \cup {Len(c) + 1, Len(c) + 2} /\ DOMAIN c = 1..Len(c)
      BY ONLY <3>1, <3>3
    <3>6. ToSet(chain') = ToSet(c) \cup {S, T}
      BY ONLY <3>4, <3>5 DEF ToSet
    <3>7. QED
      BY ONLY <3>2, <3>3, <3>4, <3>6, SMTT(30)
  <2>2. HeadTime' = HeadTime + 1 /\ chain' # <<>> /\ Len(c) \in Nat /\ Len(c) = Len(chain) - 1
    BY <1>2, <1>3, <2>1 DEF HeadTime
  <2>3. /\ unapplied' \in [Trx -> Kinds \cup {"none"}]
        /\ \A x \in Trx : unapplied'[x] =
              IF x \in S \cup T /\ forked[x] # "persisted" THEN "none" ELSE forked[x]
    BY <1>5, <1>9, UnappliedOps DEF clear_applied
  <2>4. (CanProduce => NotLost)'
    <3> SUFFICES ASSUME CanProduce, NEW x \in Accepted
                 PROVE  \/ x \in InChain' \cup block' \cup dropped'
                        \/ unapplied'[x] # "none" \/ Expiry[x] <= HeadTime' + 1
      BY <1>6 DEF NotLost
    <3>1. \/ x \in InChain \cup block \cup dropped
          \/ unapplied[x] # "none" \/ Expiry[x] <= HeadTime + 1
      BY DEF NotLost, QueueInv
    <3>2. x \in Trx /\ Expiry[x] \in Nat
      BY <1>6, QueuesAssumption
    <3>3. x \in block \/ x \in old \/ unapplied[x] # "none" => forked[x] # "none"
      BY <1>5, <3>2, AbortedKeeps
    <3>4. CASE Expiry[x] <= HeadTime + 1
      BY <1>7, <2>2, <3>2, <3>4
    <3>5. CASE x \in InChain \cup block \cup dropped \/ unapplied[x] # "none"
      BY <1>3, <1>9, <2>1, <2>3, <3>2, <3>3, <3>5, Zenon
    <3>6. QED
      BY <3>1, <3>4, <3>5
  <2>5. NotAgain'
    BY <1>1, <1>5, <2>1, <2>3 DEF NotAgain, OfType
  <2>6. ChainDisjoint'
    <3>1. \A i \in DOMAIN c : c[i] \cap S = {} /\ c[i] \cap T = {}
      BY <1>9 DEF Below, ToSet
    <3>2. \A i \in DOMAIN chain' : \/ i \in DOMAIN c /\ i \in DOMAIN chain /\ chain'[i] = c[i] /\ c[i] = chain[i]
                                   \/ i = Len(c) + 1 /\ chain'[i] = S
                                   \/ i = Len(c) + 2 /\ chain'[i] = T
      BY <1>2, <1>3, <2>1, <2>2
    <3> HIDE DEF c
    <3>3. QED
      BY <1>9, <3>1, <3>2 DEF ChainDisjoint, QueueInv
  <2>7. QED
    BY <1>1, <1>9, <2>1, <2>2, <2>3, <2>4, <2>5, <2>6, Zenon DEF QueueInv, QueueTypes, WaitsOnce
<1>10. CASE /\ UNCHANGED chain /\ unapplied' = clear_applied(clear_applied(forked, S), old)
            /\ dropped' = dropped \cup S
  <2>1. InChain' = InChain /\ HeadTime' = HeadTime
    BY <1>10 DEF InChain, HeadTime
  <2>2. /\ unapplied' \in [Trx -> Kinds \cup {"none"}]
        /\ \A x \in Trx : unapplied'[x] =
              IF x \in S \cup old /\ forked[x] # "persisted" THEN "none" ELSE forked[x]
    BY <1>3, <1>5, <1>10, UnappliedOps DEF clear_applied
  <2>3. (CanProduce => NotLost)'
    BY <1>1, <1>3, <1>5, <1>6, <1>10, <2>1, <2>2, AbortedKeeps, Zenon DEF NotLost, QueueInv
  <2>4. NotAgain'
    BY <1>1, <1>5, <2>1, <2>2 DEF NotAgain, OfType
  <2>5. QED
    BY <1>1, <1>10, <2>2, <2>3, <2>4, Zenon DEF QueueInv, QueueTypes, WaitsOnce, ChainDisjoint
<1>11. QED
  BY <1>8, <1>9, <1>10, Zenon DEF on_incoming_block, old, Below, forked

-----------------------------------------------------------------------------
(* The theorems.                                                           *)

\* The queues start empty.
LEMMA QueueInit == Init => QueueInv
  <1> SUFFICES ASSUME Init  PROVE QueueInv
    OBVIOUS
  <1> USE DEF Init
  <1>1. chain \in Seq(SUBSET Trx) /\ Len(chain) = 1 /\ chain[1] = {} /\ InChain = {}
    BY DEF InChain, ToSet
  <1>2. Accepted = {}
    BY DEF Accepted, ToSet
  <1>3. QED
    <2>1. QueueTypes
      <3>1. answers \in [Request -> Seq({"accepted", "rejected"})] /\ incoming \in Seq(Request)
        OBVIOUS
      <3>2. unapplied \in [Trx -> Kinds \cup {"none"}] /\ chain # <<>>
        BY <1>1
      <3>3. QED
        BY <1>1, <3>1, <3>2, Zenon DEF QueueTypes
    <2>2. WaitsOnce
      BY DEF WaitsOnce
    <2>3. NotLost /\ NotAgain /\ ChainDisjoint
      BY <1>1, <1>2, SMTT(30) DEF NotLost, NotAgain, ChainDisjoint
    <2>4. QED
      BY <2>1, <2>2, <2>3 DEF QueueInv

\* The inductive invariant holds in every state of the producer plugin's queues.
THEOREM QueuesInvariant == Spec => []QueueInv
<1>1. QueueInv /\ [Next]_vars => QueueInv'
  BY RequestPreserves, ControlPreserves, StartPreserves, UnappliedPreserves, ProducePreserves,
     BlockPreserves DEF Next
<1>2. QED
  BY <1>1, QueueInit, PTL DEF Spec

\* Every request is answered once and not while it waits, on a producer or not.
THEOREM RequestsAnsweredOnce == Spec => []AnsweredOnce
<1>1. QueueInv => AnsweredOnce
  <2> SUFFICES ASSUME QueueInv, NEW r \in Request
               PROVE  Len(answers[r]) + Cardinality({i \in DOMAIN incoming : incoming[i] = r}) <= 1
    BY DEF AnsweredOnce
  <2> DEFINE W == {i \in DOMAIN incoming : incoming[i] = r}
             n == Len(answers[r])
  <2>1. n \in 0..1 /\ (W # {} => n = 0) /\ \A i, j \in W : i = j
    <3>1. answers[r] \in Seq({"accepted", "rejected"}) /\ n <= 1
      BY DEF QueueInv, QueueTypes, WaitsOnce
    <3>2. n \in 0..1
      <4>1. n \in Nat
        BY ONLY <3>1, LenProperties
      <4> HIDE DEF n
      <4>2. QED
        BY <3>1, <4>1
    <3>3. W # {} => answers[r] = <<>>
      BY DEF QueueInv, WaitsOnce
    <3>4. \A i, j \in W : i = j
      BY DEF QueueInv, WaitsOnce
    <3>5. QED
      BY <3>2, <3>3, <3>4
  <2>2. Cardinality(W) = 0 \/ (Cardinality(W) = 1 /\ W # {})
    <3> HIDE DEF W
    <3>1. CASE W = {}
      BY <3>1, FS_EmptySet
    <3>2. ASSUME NEW i \in W  PROVE Cardinality(W) = 1 /\ W # {}
      <4>1. W = {i}
        BY <2>1
      <4>2. QED
        BY <4>1, FS_Singleton
    <3>3. QED
      BY <3>1, <3>2
  <2> HIDE DEF W, n
  <2>3. n + Cardinality(W) <= 1
    BY <2>1, <2>2
  <2>4. QED
    BY <2>3 DEF W, n
<1>2. QED
  BY <1>1, QueuesInvariant, PTL

\* On a node that may produce, a transaction is answered once, an accepted one is never lost before
\* it expires, and one in the chain is not executed again.
THEOREM TransactionsAreKept ==
    ASSUME CanProduce
    PROVE  Spec => []TransactionsKept
<1>1. QueueInv /\ AnsweredOnce => TransactionsKept
  BY DEF QueueInv, TransactionsKept
<1>2. QED
  BY <1>1, QueuesInvariant, RequestsAnsweredOnce, PTL

-----------------------------------------------------------------------------
(* What accounts are billed.                                               *)

\* The bills, well-typed.
BillTypes ==
    /\ trx_cache \in [Trx -> Nat] /\ cached \in SUBSET Trx
    /\ pending_cpu \in [Account -> Nat] /\ block_cache \in [Account -> Nat]

Mine(a, S) == {t \in S : AccountOf[t] = a}

\* The bill of an account, as a sum, before a step and after it.
LEMMA BillByDefinition ==
    \A a \in Account : BillOf(a, cached) = SumOver(trx_cache, Mine(a, cached))
  BY DEF BillOf, SumOver, Mine

\* The same in the next state.
LEMMA BillByDefinitionNext ==
    \A a \in Account : BillOf(a, cached)' = SumOver(trx_cache', Mine(a, cached'))
<1>1. (\A a \in Account : BillOf(a, cached) = SumOver(trx_cache, Mine(a, cached)))'
  BY BillByDefinition, PTL
<1>2. QED
  BY <1>1

\* A bill is a sum over transactions of the account.
LEMMA BillIsSum ==
    ASSUME BillTypes, NEW a \in Account, NEW S \in SUBSET Trx
    PROVE  /\ IsFiniteSet(Mine(a, S)) /\ \A t \in Mine(a, S) : trx_cache[t] \in Nat
           /\ BillOf(a, S) = SumOver(trx_cache, Mine(a, S))
           /\ BillOf(a, S) \in Nat
           /\ \A T \in SUBSET S : BillOf(a, S) = BillOf(a, T) + BillOf(a, S \ T)
<1>1. \A T \in SUBSET Trx : IsFiniteSet(Mine(a, T)) /\ \A t \in Mine(a, T) : trx_cache[t] \in Nat
  BY QueuesAssumption, FS_Subset DEF Mine, BillTypes
<1>2. \A T \in SUBSET Trx : BillOf(a, T) = SumOver(trx_cache, Mine(a, T))
  BY DEF BillOf, SumOver, Mine
<1>3. BillOf(a, S) \in Nat
  BY <1>1, <1>2, SumFacts
<1>4. ASSUME NEW T \in SUBSET S  PROVE BillOf(a, S) = BillOf(a, T) + BillOf(a, S \ T)
  <2>1. Mine(a, T) \in SUBSET Mine(a, S) /\ Mine(a, S \ T) = Mine(a, S) \ Mine(a, T)
    BY DEF Mine
  <2>2. SumOver(trx_cache, Mine(a, S)) =
            SumOver(trx_cache, Mine(a, T)) + SumOver(trx_cache, Mine(a, S) \ Mine(a, T))
    BY <1>1, <2>1, SumSplit
  <2>3. QED
    BY <1>2, <2>1, <2>2
<1>5. QED
  BY <1>1, <1>2, <1>3, <1>4

Balanced == \A a \in Account : pending_cpu[a] = BillOf(a, cached)
BlockCovered == \A a \in Account : block_cache[a] <= pending_cpu[a]

\* subjective_bill adds the same number to the entries, the sum and the block's part of it.
LEMMA BillKeepsBalance ==
    ASSUME BillTypes, Balanced, NEW t \in Trx, NEW bill \in Nat, subjective_bill(t, bill)
    PROVE  BillTypes' /\ Balanced' /\ cached' \subseteq cached \cup {t} /\ (BlockCovered => BlockCovered')
<1>1. CASE t \in cached
  <2>1. UNCHANGED billing_vars
    BY <1>1 DEF subjective_bill
  <2>2. QED
    <3>1. Balanced'
      BY <2>1, BillByDefinition, BillByDefinitionNext DEF billing_vars, Balanced
    <3>2. QED
      BY <2>1, <3>1 DEF billing_vars, BillTypes, BlockCovered
<1>2. CASE t \notin cached
  <2> DEFINE b == AccountOf[t]
  <2>1. /\ b \in Account
        /\ cached' = cached \cup {t} /\ trx_cache' = [trx_cache EXCEPT ![t] = bill]
        /\ pending_cpu' = [pending_cpu EXCEPT ![b] = @ + bill]
        /\ block_cache' = [block_cache EXCEPT ![b] = @ + bill]
    BY <1>2, QueuesAssumption DEF subjective_bill
  <2>2. BillTypes'
    BY <2>1 DEF BillTypes
  <2>3. ASSUME NEW a \in Account  PROVE pending_cpu'[a] = BillOf(a, cached)'
    <3>1. BillOf(a, cached)' = SumOver(trx_cache', Mine(a, cached'))
      BY BillByDefinitionNext
    <3>2. /\ IsFiniteSet(Mine(a, cached)) /\ \A x \in Mine(a, cached) : trx_cache[x] \in Nat
          /\ pending_cpu[a] = SumOver(trx_cache, Mine(a, cached)) /\ pending_cpu[a] \in Nat
      BY BillIsSum DEF Balanced, BillTypes
    <3>3. \A x \in Mine(a, cached) : trx_cache'[x] = trx_cache[x]
      BY <1>2, <2>1 DEF Mine, BillTypes
    <3>4. SumOver(trx_cache', Mine(a, cached)) = SumOver(trx_cache, Mine(a, cached))
      BY <3>2, <3>3, SumFacts
    <3>5. CASE a = b
      <4>1. /\ Mine(a, cached') = Mine(a, cached) \cup {t} /\ t \notin Mine(a, cached)
            /\ (Mine(a, cached) \cup {t}) \ {t} = Mine(a, cached)
        BY <1>2, <2>1, <3>5 DEF Mine
      <4>2. trx_cache'[t] = bill /\ pending_cpu'[a] = pending_cpu[a] + bill
        BY <2>1, <3>5 DEF BillTypes
      <4>3. IsFiniteSet(Mine(a, cached')) /\ \A x \in Mine(a, cached') : trx_cache'[x] \in Nat
        BY <3>2, <3>3, <4>1, <4>2, FS_AddElement, SMTT(30)
      <4>4. SumOver(trx_cache', Mine(a, cached')) = bill + SumOver(trx_cache', Mine(a, cached))
        <5>1. SumOver(trx_cache', Mine(a, cached')) = trx_cache'[t] + SumOver(trx_cache', Mine(a, cached') \ {t})
          BY <4>1, <4>3, SumFacts
        <5>2. QED
          BY <4>1, <4>2, <5>1
      <4>5. QED
        BY <3>1, <3>2, <3>4, <4>2, <4>4, SMTT(30)
    <3>6. CASE a # b
      <4>1. Mine(a, cached') = Mine(a, cached) /\ pending_cpu'[a] = pending_cpu[a]
        BY <2>1, <3>6 DEF Mine, BillTypes
      <4>2. QED
        BY <3>1, <3>2, <3>4, <4>1
    <3>7. QED
      BY <3>5, <3>6
  <2>4. BlockCovered => BlockCovered'
    BY <2>1 DEF BlockCovered, BillTypes
  <2>5. QED
    BY <2>1, <2>2, <2>3, <2>4 DEF Balanced
<1>3. QED
  BY <1>1, <1>2

\* Entries that go take their sum along.
LEMMA ForgetKeepsBalance ==
    ASSUME BillTypes, Balanced, NEW S \in SUBSET cached, Forget(S)
    PROVE  /\ trx_cache' \in [Trx -> Nat] /\ cached' \in SUBSET Trx /\ cached' = cached \ S
           /\ pending_cpu' \in [Account -> Nat] /\ Balanced'
<1>1. /\ trx_cache' = [t \in Trx |-> IF t \in S THEN 0 ELSE trx_cache[t]] /\ cached' = cached \ S
      /\ pending_cpu' = [a \in Account |-> pending_cpu[a] - BillOf(a, S)]
  BY DEF Forget
<1>2. trx_cache' \in [Trx -> Nat] /\ cached' \in SUBSET Trx
  BY <1>1 DEF BillTypes
<1>3. ASSUME NEW a \in Account
      PROVE  pending_cpu'[a] \in Nat /\ pending_cpu'[a] = BillOf(a, cached)'
  <2>1. BillOf(a, cached)' = SumOver(trx_cache', Mine(a, cached \ S))
    BY <1>1, BillByDefinitionNext
  <2>2. cached \in SUBSET Trx /\ S \in SUBSET Trx /\ cached \ S \in SUBSET Trx
    BY DEF BillTypes
  <2>3. SumOver(trx_cache', Mine(a, cached \ S)) = BillOf(a, cached \ S)
    <3>1. \A t \in Mine(a, cached \ S) : trx_cache'[t] = trx_cache[t]
      BY <1>1, <2>2 DEF Mine
    <3>2. /\ IsFiniteSet(Mine(a, cached \ S)) /\ \A t \in Mine(a, cached \ S) : trx_cache[t] \in Nat
          /\ BillOf(a, cached \ S) = SumOver(trx_cache, Mine(a, cached \ S))
      BY <2>2, BillIsSum
    <3>3. QED
      BY <3>1, <3>2, SumFacts, Zenon
  <2>4. /\ BillOf(a, cached) = BillOf(a, S) + BillOf(a, cached \ S)
        /\ BillOf(a, S) \in Nat /\ BillOf(a, cached \ S) \in Nat
    BY <2>2, BillIsSum
  <2>5. pending_cpu'[a] = BillOf(a, cached) - BillOf(a, S)
    BY <1>1 DEF Balanced
  <2>6. QED
    BY <2>1, <2>3, <2>4, <2>5, SMTT(30)
<1>4. QED
  BY <1>1, <1>2, <1>3, Zenon DEF Balanced

BillInv == BillTypes /\ BillsAddUp

\* What a step does to the bills while the pending block is built and the chain stands.
LEMMA BuildingKeepsBills ==
    ASSUME QueueInv, BillInv, UNCHANGED <<building, chain>>,
           \/ UNCHANGED <<trx_cache, cached, pending_cpu, block_cache>>
           \/ \E t \in Trx \ InChain, bill \in Bills : subjective_bill(t, bill)
    PROVE  BillInv'
<1>1. InChain' = InChain
  BY DEF InChain
<1>2. BillTypes /\ Balanced /\ cached \cap InChain = {} /\ (building => BlockCovered)
  BY DEF BillInv, BillsAddUp, Balanced, BlockCovered
<1>3. CASE UNCHANGED <<trx_cache, cached, pending_cpu, block_cache>>
  <2>1. BillTypes' /\ BlockCovered' = BlockCovered
    BY <1>2, <1>3 DEF BillTypes, BlockCovered
  <2>2. Balanced'
    BY <1>2, <1>3, BillByDefinition, BillByDefinitionNext DEF Balanced
  <2>3. QED
    BY <1>1, <1>2, <1>3, <2>1, <2>2 DEF BillInv, BillsAddUp, Balanced, BlockCovered
<1>4. ASSUME NEW t \in Trx \ InChain, NEW bill \in Bills, subjective_bill(t, bill)
      PROVE  BillInv'
  <2>1. BillTypes' /\ Balanced' /\ cached' \subseteq cached \cup {t} /\ (BlockCovered => BlockCovered')
    BY <1>2, <1>4, QueuesAssumption, BillKeepsBalance
  <2>2. QED
    BY <1>1, <1>2, <2>1, Zenon DEF BillInv, BillsAddUp, Balanced, BlockCovered
<1>5. QED
  BY <1>3, <1>4

\* The entries that a block, or the time, removes.
LEMMA ForgettingKeepsBills ==
    ASSUME BillInv, NEW S \in SUBSET cached, Forget(S),
           \/ building' = FALSE /\ UNCHANGED block_cache
           \/ block_cache' = Nothing,
           (cached \ S) \cap InChain' = {}
    PROVE  BillInv'
<1>1. BillTypes /\ Balanced
  BY DEF BillInv, BillsAddUp, Balanced
<1>2. /\ trx_cache' \in [Trx -> Nat] /\ cached' \in SUBSET Trx /\ cached' = cached \ S
      /\ pending_cpu' \in [Account -> Nat] /\ Balanced'
  BY <1>1, ForgetKeepsBalance
<1>3. block_cache' \in [Account -> Nat]
  BY <1>1 DEF BillTypes, Nothing
<1>4. building' => BlockCovered'
  BY <1>2 DEF BlockCovered, Nothing
<1>5. QED
  BY <1>2, <1>3, <1>4, Zenon DEF BillInv, BillTypes, BillsAddUp, Balanced, BlockCovered

\* Every step keeps the bills.
LEMMA BillsPreserved ==
    ASSUME QueueInv, BillInv, [Next]_vars
    PROVE  BillInv'
<1> DEFINE Same == UNCHANGED <<trx_cache, cached, pending_cpu, block_cache>>
           Bill == \E t \in Trx \ InChain, bill \in Bills : subjective_bill(t, bill)
<1>1. ASSUME NEW r \in Request, NEW q, NEW ends \in BOOLEAN, process(r, q, ends)  PROVE BillInv'
  <2>1. TrxOf[r] \in Trx
    BY QueuesAssumption
  <2>2. UNCHANGED <<building, chain>>
    BY <1>1 DEF process
  <2>3. Same \/ Bill
    BY <1>1, <2>1, Zenon DEF process, Rejects, subjective_bill_failure, billing_vars
  <2>4. QED
    BY <2>2, <2>3, BuildingKeepsBills
<1>2. CASE \E r \in Request : on_incoming_transaction(r)
  BY <1>1, <1>2 DEF on_incoming_transaction
<1>3. CASE process_incoming
  <2>1. Head(incoming) \in Request
    BY <1>3 DEF process_incoming, QueueInv, QueueTypes
  <2>2. QED
    BY <1>1, <1>3, <2>1 DEF process_incoming
<1>4. CASE start_waits \/ start_exhausted \/ unapplied_done \/ incoming_done
           \/ schedule_production_loop \/ UNCHANGED vars
  <2>1. UNCHANGED <<building, chain>> /\ Same
    BY <1>4 DEF start_waits, start_exhausted, unapplied_done, incoming_done,
                schedule_production_loop, vars, queue_vars, billing_vars
  <2>2. QED
    BY <2>1, BuildingKeepsBills
<1>5. ASSUME NEW t \in Trx, process_unapplied(t)  PROVE BillInv'
  <2>1. UNCHANGED <<building, chain>> /\ (Same \/ Bill)
    BY <1>5, Zenon DEF process_unapplied, subjective_bill_failure, billing_vars
  <2>2. QED
    BY <2>1, BuildingKeepsBills
<1>6. CASE start_block
  <2>1. block_cache' = Nothing /\ InChain' = InChain
    BY <1>6 DEF start_block, ClearedBlockCache, InChain
  <2>2. BillTypes /\ Balanced /\ cached \cap InChain = {}
    BY DEF BillInv, BillsAddUp, Balanced
  <2>3. CASE UNCHANGED <<trx_cache, cached, pending_cpu>>
    <3>1. Balanced' /\ BillTypes'
      BY <2>1, <2>2, <2>3, BillByDefinition, BillByDefinitionNext DEF Balanced, BillTypes, Nothing
    <3>2. BlockCovered'
      BY <2>1, <2>2, <2>3 DEF BlockCovered, BillTypes, Nothing
    <3>3. QED
      BY <2>1, <2>2, <2>3, <3>1, <3>2 DEF BillInv, BillsAddUp, Balanced, BlockCovered
  <2>4. ASSUME NEW B \in SUBSET Expirable(HeadTime + 1), RemoveExpired(B)  PROVE BillInv'
    <3>1. B \in SUBSET cached /\ Forget(B)
      BY <2>4 DEF Expirable, RemoveExpired
    <3>2. QED
      BY <2>1, <2>2, <3>1, ForgettingKeepsBills
  <2>5. QED
    BY <1>6, <2>3, <2>4, Zenon DEF start_block
<1>7. CASE produce_block
  <2>1. Forget(block \cap cached) /\ building' = FALSE /\ UNCHANGED block_cache
        /\ chain' = Append(chain, block)
    BY <1>7 DEF produce_block, billing_on_block
  <2>2. InChain' = InChain \cup block
    BY <2>1, InChainAppend, Zenon DEF QueueInv, QueueTypes, InChain
  <2>3. cached \cap InChain = {}
    BY DEF BillInv, BillsAddUp
  <2>4. QED
    BY <2>1, <2>2, <2>3, ForgettingKeepsBills, Zenon
<1>8. ASSUME NEW S \in SUBSET Trx, NEW T \in SUBSET Trx, on_incoming_block(S, T)  PROVE BillInv'
  <2>1. building' = FALSE /\ cached \cap InChain = {}
    BY <1>8, Zenon DEF on_incoming_block, BillInv, BillsAddUp
  <2>2. PICK R : billing_on_block(R) /\ InChain' \subseteq InChain \cup R
    <3>1. CASE chain' = Append(chain, S) /\ billing_on_block(S)
      BY <3>1, InChainAppend, Zenon DEF QueueInv, QueueTypes, InChain
    <3>2. CASE chain' = Front(chain) \o <<S, T>> /\ billing_on_block(S \cup T)
      <4>1. Front(chain) \in Seq(SUBSET Trx) /\ InChain = (UNION ToSet(Front(chain))) \cup Last(chain)
        BY InChainFront, Zenon DEF QueueInv, QueueTypes, InChain
      <4>2. ToSet(chain') \subseteq ToSet(Front(chain)) \cup {S, T}
        BY <3>2, <4>1, SMTT(30) DEF ToSet
      <4>3. InChain' \subseteq InChain \cup (S \cup T)
        BY <4>1, <4>2 DEF InChain
      <4>4. QED
        BY <3>2, <4>3
    <3>3. CASE UNCHANGED chain /\ billing_on_block(S \cup Last(chain))
      BY <3>3 DEF InChain
    <3>4. QED
      BY <1>8, <3>1, <3>2, <3>3 DEF on_incoming_block
  <2>3. QED
    BY <2>1, <2>2, ForgettingKeepsBills, Zenon DEF billing_on_block
<1>9. QED
  BY <1>2, <1>3, <1>4, <1>5, <1>6, <1>7, <1>8 DEF Next

\* What an account is billed for transactions that may still be in a block is the sum of its
\* entries, none of which is in the chain, and covers what the pending block bills.
THEOREM BillsAlwaysAddUp == Spec => []BillsAddUp
<1>1. Init => BillInv
  <2> SUFFICES ASSUME Init  PROVE BillInv
    OBVIOUS
  <2>1. trx_cache = [t \in Trx |-> 0] /\ cached = {} /\ pending_cpu = Nothing /\ block_cache = Nothing
        /\ building = FALSE
    BY DEF Init, BillingInit
  <2>2. BillTypes
    BY <2>1 DEF BillTypes, Nothing
  <2>3. \A a \in Account : pending_cpu[a] = BillOf(a, cached)
    <3>1. SumOver(trx_cache, {}) = 0
      BY SumFacts, FS_EmptySet
    <3>2. \A a \in Account : Mine(a, cached) = {} /\ pending_cpu[a] = 0
      BY <2>1 DEF Mine, Nothing
    <3>3. QED
      BY <3>1, <3>2, BillByDefinition
  <2>4. QED
    BY <2>1, <2>2, <2>3 DEF BillInv, BillsAddUp
<1>2. QueueInv /\ BillInv /\ [Next]_vars => BillInv'
  BY BillsPreserved
<1>3. BillInv => BillsAddUp
  BY DEF BillInv
<1>4. QED
  BY <1>1, <1>2, <1>3, QueuesInvariant, PTL DEF Spec
==============================================================================
