---------------------------- MODULE ChainProofs -----------------------------
(***************************************************************************)
(* The invariants and action properties of ForkDatabase.  Then the chains  *)
(* and branches the controller works on, and what holds of them, of the    *)
(* block log, the reversible blocks, the undo sessions of the chain state  *)
(* and the fork database in every phase of a call, and what the steps have *)
(* in common: for every tree of blocks and every set of invalid blocks.    *)
(***************************************************************************)
EXTENDS Controller, WellFoundedInduction, TLAPS

(***************************************************************************)
(* Facts about the order of chain selection and about the front of the     *)
(* index by_lib_block_num, for every tree of blocks.                       *)
(***************************************************************************)

\* Every non-empty set of natural numbers has a least element.
LEMMA LeastNat ==
    ASSUME NEW T, T \subseteq Nat, T # {}
    PROVE  \E n \in T : \A m \in T : n <= m
<1>1. PICK n \in T : \A m \in T : ~ (<<m, n>> \in OpToRel(<, Nat))
  BY NatLessThanWellFounded, WFMin, Zenon
<1>2. \A m \in T : ~ (m < n)
  BY <1>1, Zenon DEF OpToRel
<1>3. QED
  BY <1>2

\* first_preferred is a strict order, total up to ties in both numbers.
LEMMA PreferredOrder ==
    ASSUME NEW a \in Block, NEW b \in Block, NEW c \in Block
    PROVE  /\ ~first_preferred(a, a)
           /\ first_preferred(a, b) => ~first_preferred(b, a)
           /\ first_preferred(a, b) /\ first_preferred(b, c) => first_preferred(a, c)
           /\ ~first_preferred(a, b) /\ ~first_preferred(b, c) => ~first_preferred(a, c)
  BY TreeAssumption DEF first_preferred

\* A block is preferred over the block it builds on.
LEMMA ChildPreferred ==
    ASSUME NEW b \in Received
    PROVE  /\ Prev[b] \in Block
           /\ Num[Prev[b]] < Num[b]
           /\ first_preferred(b, Prev[b])
  BY TreeAssumption DEF first_preferred, Received

\* Where some block of S is beaten by none, First(S) is a block of S that
\* precedes every other one, and so is beaten by none either.
LEMMA FirstIsBest ==
    ASSUME NEW S \in SUBSET Block, NEW b \in S,
           \A c \in S : ~first_preferred(c, b)
    PROVE  /\ First(S) \in S
           /\ \A c \in S : ~first_preferred(c, First(S))
<1> DEFINE Best == {x \in S : ~first_preferred(b, x)}
           Ranks == {Rank[x] : x \in Best}
<1>1. b \in Best
  BY PreferredOrder
<1>2. Ranks \subseteq Nat /\ Ranks # {}
  BY <1>1, RankAssumption
<1>3. PICK r \in Ranks : \A m \in Ranks : r <= m
  BY <1>2, LeastNat, Zenon
<1>4. PICK f \in Best : r = Rank[f]
  BY <1>3
<1>5. \A c \in S : ~first_preferred(c, f)
  BY <1>4, PreferredOrder
<1>6. \A c \in S \ {f} : Precedes(f, c)
  <2>1. SUFFICES ASSUME NEW c \in S \ {f}, ~first_preferred(f, c)
                 PROVE  Rank[f] < Rank[c]
    BY <1>5 DEF Precedes
  <2>2. c \in Best
    BY <1>4, <2>1, <1>5, PreferredOrder
  <2>3. Rank[f] <= Rank[c]
    BY <2>2, <1>3, <1>4
  <2>4. QED
    BY <2>1, <2>3, RankAssumption
<1>7. /\ First(S) \in S
      /\ \A c \in S \ {First(S)} : Precedes(First(S), c)
  BY <1>4, <1>6 DEF First
<1>8. \A c \in S : ~first_preferred(c, First(S))
  BY <1>7, PreferredOrder DEF Precedes
<1>9. QED
  BY <1>7, <1>8

\* A non-empty set of blocks with bounded numbers has a block none beats.
LEMMA BestExists ==
    ASSUME NEW S \in SUBSET Received, S # {},
           NEW M \in Nat, \A b \in S : Num[b] <= M
    PROVE  \E b \in S : \A c \in S : ~first_preferred(c, b)
<1> DEFINE LibGap == {M - Lib[b] : b \in S}
<1>0. \A b \in S : M - Num[b] \in Nat
  <2>1. SUFFICES ASSUME NEW b \in S
                 PROVE  M - Num[b] \in Nat
    OBVIOUS
  <2>2. Num[b] \in Nat
    BY TreeAssumption DEF Received
  <2>3. QED
    BY <2>2
<1>1. LibGap \subseteq Nat /\ LibGap # {}
  BY TreeAssumption DEF Received
<1>2. PICK l \in LibGap : \A m \in LibGap : l <= m
  BY <1>1, LeastNat, Zenon
<1> DEFINE Top == {b \in S : M - Lib[b] = l}
           NumGap == {M - Num[b] : b \in Top}
<1>3. NumGap \subseteq Nat /\ NumGap # {}
  <2>1. Top # {}
    BY <1>2
  <2>2. QED
    BY <2>1, <1>0
<1>4. PICK n \in NumGap : \A m \in NumGap : n <= m
  BY <1>3, LeastNat, Zenon
<1>5. PICK b \in Top : n = M - Num[b]
  BY <1>4
<1>6. ASSUME NEW c \in S
      PROVE  ~first_preferred(c, b)
  <2>1. M - Lib[b] <= M - Lib[c]
    BY <1>2, <1>5
  <2>2. Lib[c] <= Lib[b]
    BY <2>1, TreeAssumption DEF Received
  <2>3. Lib[c] = Lib[b] => M - Num[b] <= M - Num[c]
    BY <1>4, <1>5
  <2>4. Lib[c] = Lib[b] => Num[c] <= Num[b]
    BY <2>3, TreeAssumption DEF Received
  <2>5. QED
    BY <2>2, <2>4, TreeAssumption DEF first_preferred, Received
<1>7. QED
  BY <1>5, <1>6

\* In a set of blocks that all link to the set or to r, every block builds on
\* r and is preferred over it.
LEMMA TreeOverRoot ==
    ASSUME NEW T \in SUBSET Received, NEW r \in Block,
           \A b \in T : Prev[b] \in T \cup {r}
    PROVE  \A b \in T : r \in Ancestry[b] /\ first_preferred(b, r)
<1> DEFINE Good(b) == r \in Ancestry[b] /\ first_preferred(b, r)
           Bad == {b \in T : ~Good(b)}
           Nums == {Num[b] : b \in Bad}
<1>1. SUFFICES ASSUME Bad # {} PROVE FALSE
  OBVIOUS
<1>2. Nums \subseteq Nat /\ Nums # {}
  BY <1>1, TreeAssumption DEF Received
<1>3. PICK n \in Nums : \A m \in Nums : n <= m
  BY <1>2, LeastNat, Zenon
<1>4. PICK b \in Bad : n = Num[b]
  BY <1>3
<1>5. b \in Received /\ Prev[b] \in Block /\ b \in Block
  BY <1>4, TreeAssumption DEF Received
<1>6. /\ Num[Prev[b]] < Num[b]
      /\ first_preferred(b, Prev[b])
      /\ Ancestry[b] = {b} \cup Ancestry[Prev[b]]
  BY <1>5, ChildPreferred, AncestryAssumption
<1>7. CASE Prev[b] = r
  <2>1. r \in Ancestry[r]
    BY AncestryAssumption DEF Received
  <2>2. QED
    BY <1>4, <1>6, <1>7, <2>1
<1>8. CASE Prev[b] # r
  <2>1. Prev[b] \in T
    BY <1>4, <1>8
  <2>2. Prev[b] \notin Bad
    <3>1. SUFFICES ASSUME Prev[b] \in Bad PROVE FALSE
      OBVIOUS
    <3>2. Num[b] <= Num[Prev[b]]
      BY <1>3, <1>4, <3>1
    <3>3. Num[b] \in Nat /\ Num[Prev[b]] \in Nat
      BY <1>5, TreeAssumption
    <3>4. QED
      BY <3>2, <3>3, <1>6
  <2>3. Good(Prev[b])
    BY <2>1, <2>2
  <2>4. Good(b)
    BY <2>3, <1>5, <1>6, PreferredOrder
  <2>5. QED
    BY <1>4, <2>4
<1>9. QED
  BY <1>7, <1>8

\* A block builds on no block with a greater number.
LEMMA AncestryBelow ==
    ASSUME NEW b \in Block, NEW a \in Ancestry[b]
    PROVE  a \in Block /\ Num[a] <= Num[b]
<1> DEFINE Bad == {c \in Block : \E d \in Ancestry[c] : ~(Num[d] <= Num[c])}
           Nums == {Num[c] : c \in Bad}
<1>1. a \in Block
  BY AncestryAssumption
<1>2. SUFFICES ASSUME Bad # {} PROVE FALSE
  BY <1>1
<1>3. Nums \subseteq Nat /\ Nums # {}
  BY <1>2, TreeAssumption
<1>4. PICK n \in Nums : \A m \in Nums : n <= m
  BY <1>3, LeastNat, Zenon
<1>5. PICK c \in Bad : n = Num[c]
  BY <1>4
<1>6. PICK d \in Ancestry[c] : ~(Num[d] <= Num[c])
  BY <1>5
<1>7. c # Genesis
  BY <1>6, AncestryAssumption, TreeAssumption
<1>8. /\ Num[Prev[c]] < Num[c]
      /\ Prev[c] \in Block
      /\ d \in Ancestry[Prev[c]] \/ d = c
  BY <1>5, <1>6, <1>7, ChildPreferred, AncestryAssumption DEF Received
<1>9. Num[c] \in Nat /\ Num[Prev[c]] \in Nat /\ Num[d] \in Nat
  BY <1>8, <1>5, TreeAssumption, AncestryAssumption
<1>10. d # c
  BY <1>6, <1>9
<1>11. Prev[c] \in Bad
  BY <1>6, <1>8, <1>9, <1>10
<1>12. Num[c] <= Num[Prev[c]]
  BY <1>4, <1>5, <1>11
<1>13. QED
  BY <1>8, <1>9, <1>12

-----------------------------------------------------------------------------

\* Only finitely many blocks are ever added, so that their numbers are bounded.
NumsBounded == \E M \in Nat : \A b \in index : Num[b] <= M

\* The inductive invariant: chain selection is right because the database is
\* one tree whose validated part is connected to the root.
IInv == TypeOK /\ OneTree /\ HeadIsBest /\ ValidatedPrefix /\ NumsBounded

\* remove_queue(idx, id) holds id, only blocks of idx besides, and every block
\* of idx that builds on one of its blocks; it is the least such set.
LEMMA RemoveQueue ==
    ASSUME NEW idx, NEW id
    PROVE  /\ id \in remove_queue(idx, id)
           /\ remove_queue(idx, id) \subseteq idx \cup {id}
           /\ \A c \in idx : Prev[c] \in remove_queue(idx, id)
                             => c \in remove_queue(idx, id)
           /\ \A S \in SUBSET (idx \cup {id}) :
                 (id \in S /\ \A c \in idx : Prev[c] \in S => c \in S)
                 => remove_queue(idx, id) \subseteq S
<1>1. id \in remove_queue(idx, id)
  BY DEF remove_queue
<1>2. remove_queue(idx, id) \subseteq idx \cup {id}
  BY DEF remove_queue
<1>3. \A c \in idx : Prev[c] \in remove_queue(idx, id)
                     => c \in remove_queue(idx, id)
  <2>1. SUFFICES ASSUME NEW c \in idx, Prev[c] \in remove_queue(idx, id),
                        NEW S \in SUBSET (idx \cup {id}),
                        id \in S, \A d \in idx : Prev[d] \in S => d \in S
                 PROVE  c \in S
    BY DEF remove_queue
  <2>2. Prev[c] \in S
    BY <2>1 DEF remove_queue
  <2>3. QED
    BY <2>1, <2>2
<1>4. \A S \in SUBSET (idx \cup {id}) :
         (id \in S /\ \A c \in idx : Prev[c] \in S => c \in S)
         => remove_queue(idx, id) \subseteq S
  BY DEF remove_queue
<1>5. QED
  BY <1>1, <1>2, <1>3, <1>4

\* Where a validated block exists, the head is one.
LEMMA HeadIsValidated ==
    ASSUME TypeOK, OneTree, HeadIsBest, validated # {}
    PROVE  fork_head \in validated
<1>1. SUFFICES ASSUME fork_head = root PROVE FALSE
  BY DEF OneTree
<1>2. PICK b \in validated : TRUE
  OBVIOUS
<1>3. first_preferred(b, root)
  BY <1>2 DEF OneTree, TypeOK
<1>4. QED
  BY <1>1, <1>3 DEF HeadIsBest

\* What add leaves as the head is a validated block, or the old head where
\* there is none, and no validated block beats it.
LEMMA HeadAfterAddIsBest ==
    ASSUME TypeOK, OneTree, HeadIsBest
    PROVE  LET h == HeadAfterAdd(validated, fork_head)
           IN  /\ h \in validated \cup {root}
               /\ \A b \in validated : ~first_preferred(b, h)
<1>1. CASE validated = {}
  BY <1>1 DEF HeadAfterAdd, OneTree
<1>2. CASE validated # {}
  <2>1. fork_head \in validated
    BY <1>2, HeadIsValidated
  <2>2. validated \in SUBSET Block
    BY DEF TypeOK, Received
  <2>3. /\ First(validated) \in validated
        /\ \A b \in validated : ~first_preferred(b, First(validated))
    BY <2>1, <2>2, FirstIsBest DEF HeadIsBest
  <2>4. QED
    BY <1>2, <2>3 DEF HeadAfterAdd
<1>3. QED
  BY <1>1, <1>2

\* Likewise for mark_valid(h).
LEMMA HeadAfterMarkIsBest ==
    ASSUME TypeOK, OneTree, HeadIsBest, NEW h \in index
    PROVE  LET V == validated \cup {h}
               n == HeadAfterMark(V, fork_head)
           IN  /\ n \in V \cup {root}
               /\ \A b \in V : ~first_preferred(b, n)
               /\ n = fork_head \/ first_preferred(n, fork_head)
<1> DEFINE V == validated \cup {h}
<1>1. V \in SUBSET Block /\ h \in Block /\ fork_head \in Block
  BY DEF TypeOK, Received
<1>2. \E b \in V : \A c \in V : ~first_preferred(c, b)
  <2>1. CASE first_preferred(h, fork_head)
    <3>1. ASSUME NEW c \in validated
          PROVE  ~first_preferred(c, h)
      <4>1. c \in Block /\ ~first_preferred(c, fork_head)
        BY <1>1 DEF HeadIsBest
      <4>2. QED
        BY <4>1, <1>1, <2>1, PreferredOrder
    <3>2. QED
      BY <3>1, <1>1, PreferredOrder
  <2>2. CASE ~first_preferred(h, fork_head)
    <3>1. fork_head # root
      BY <2>2 DEF OneTree
    <3>2. fork_head \in V
      BY <3>1 DEF OneTree
    <3>3. QED
      BY <2>2, <3>2 DEF HeadIsBest
  <2>3. QED
    BY <2>1, <2>2
<1>3. First(V) \in V /\ \A c \in V : ~first_preferred(c, First(V))
  BY <1>1, <1>2, FirstIsBest
<1>4. CASE first_preferred(First(V), fork_head)
  BY <1>3, <1>4 DEF HeadAfterMark
<1>5. CASE ~first_preferred(First(V), fork_head)
  <2>1. ASSUME NEW c \in V
        PROVE  ~first_preferred(c, fork_head)
    <3>1. c \in Block /\ First(V) \in Block
      BY <1>1, <1>3
    <3>2. QED
      BY <3>1, <1>1, <1>3, <1>5, PreferredOrder
  <2>2. fork_head \in V \cup {root}
    BY DEF OneTree
  <2>3. QED
    BY <1>5, <2>1, <2>2 DEF HeadAfterMark
<1>6. QED
  BY <1>4, <1>5

-----------------------------------------------------------------------------
(* The inductive step, one lemma per operation.                            *)

\* A call of add keeps the invariant: the new block links to the tree, and the
\* head it re-reads is the best of the validated blocks.
LEMMA AddPreserves ==
    ASSUME IInv, NEW n \in Block, add(n)
    PROVE  IInv'
<1> USE DEF IInv
<1>1. fork_head' \in validated \cup {root}
      /\ \A b \in validated : ~first_preferred(b, fork_head')
  BY HeadAfterAddIsBest DEF add
<1>2. TypeOK'
  BY <1>1 DEF TypeOK, add, Received
<1>3. Prev[n] \in index \cup {root}
  BY DEF add, Linkable
<1>4. \A b \in index' : Prev[b] \in index' \cup {root'}
  BY <1>3 DEF OneTree, Linkable, add
<1>5. \A b \in index' : first_preferred(b, root')
  BY <1>2, <1>4, TreeOverRoot DEF TypeOK
<1>6. OneTree'
  BY <1>1, <1>4, <1>5 DEF OneTree, Linkable, add
<1>7. HeadIsBest'
  BY <1>1 DEF HeadIsBest, add
<1>8. ValidatedPrefix'
  BY DEF ValidatedPrefix, add
<1>9. NumsBounded'
  <2>1. PICK M \in Nat : \A b \in index : Num[b] <= M
    BY DEF NumsBounded
  <2>2. \A b \in index : Num[b] \in Nat
    BY TreeAssumption, Zenon DEF TypeOK, Received
  <2>3. Num[n] \in Nat
    BY TreeAssumption
  <2>4. \A b \in index \cup {n} : Num[b] <= M + Num[n]
    BY <2>1, <2>2, <2>3
  <2>5. QED
    BY <2>3, <2>4 DEF NumsBounded, add
<1>10. QED
  BY <1>2, <1>6, <1>7, <1>8, <1>9

\* A call of mark_valid on a block with a valid parent keeps the invariant.
LEMMA MarkValidPreserves ==
    ASSUME IInv, NEW h \in Block, mark_valid(h)
    PROVE  IInv'
<1> USE DEF IInv
<1>1. h \in index /\ validated' = validated \cup {h}
  BY DEF mark_valid
<1>2. fork_head' \in validated' \cup {root}
      /\ \A b \in validated' : ~first_preferred(b, fork_head')
  BY <1>1, HeadAfterMarkIsBest DEF mark_valid
<1>3. TypeOK'
  BY <1>1, <1>2 DEF TypeOK, mark_valid, Received
<1>4. OneTree'
  BY <1>2 DEF OneTree, Linkable, mark_valid
<1>5. HeadIsBest'
  BY <1>2 DEF HeadIsBest
<1>6. ValidatedPrefix'
  BY DEF ValidatedPrefix, mark_valid
<1>7. NumsBounded'
  BY DEF NumsBounded, mark_valid
<1>8. QED
  BY <1>3, <1>4, <1>5, <1>6, <1>7

\* A call of remove takes a block with all that builds on it, so what is left is
\* still one tree, and the head is never among what it takes.
LEMMA RemovePreserves ==
    ASSUME IInv, NEW id \in Block, remove(id)
    PROVE  IInv'
<1> USE DEF IInv
<1> DEFINE Q == remove_queue(index, id)
<1>1. /\ id \in Q
      /\ \A c \in index : Prev[c] \in Q => c \in Q
  BY RemoveQueue
<1>2. /\ id \in index
      /\ fork_head \notin Q
      /\ index' = index \ Q
      /\ validated' = validated \ Q
      /\ root' = root
      /\ fork_head' = fork_head
  BY DEF remove
<1> HIDE DEF Q
<1>3. TypeOK'
  BY <1>2 DEF TypeOK
<1>4. OneTree'
  BY <1>1, <1>2 DEF OneTree, Linkable
<1>5. HeadIsBest'
  BY <1>2 DEF HeadIsBest
<1>6. ValidatedPrefix'
  BY <1>1, <1>2 DEF ValidatedPrefix, TypeOK
<1>7. NumsBounded'
  BY <1>2 DEF NumsBounded
<1>8. QED
  BY <1>3, <1>4, <1>5, <1>6, <1>7

\* What advance_root(id) keeps links to the new root or to what it keeps.
LEMMA KeptLinks ==
    ASSUME IInv, NEW id \in index
    PROVE  LET kept == (index \ {id}) \ Orphaned(id)
           IN  /\ root \in Orphaned(id)
               /\ \A b \in kept : Prev[b] \in kept \cup {id}
<1> USE DEF IInv
<1> DEFINE Q == Orphaned(id)
<1>1. root \in Q /\ \A c \in index \ {id} : Prev[c] \in Q => c \in Q
  BY RemoveQueue DEF Orphaned
<1> HIDE DEF Q
<1>2. \A b \in (index \ {id}) \ Q : Prev[b] \in ((index \ {id}) \ Q) \cup {id}
  BY <1>1 DEF OneTree, Linkable
<1>3. QED
  BY <1>1, <1>2 DEF Q

\* A call of advance_root keeps the invariant with the new root for the old.
LEMMA AdvanceRootPreserves ==
    ASSUME IInv, NEW id \in Block, advance_root(id)
    PROVE  IInv'
<1> USE DEF IInv
<1> DEFINE Q == Orphaned(id)
<1>1. /\ id \in validated
      /\ fork_head \notin Q
      /\ index' = (index \ {id}) \ Q
      /\ validated' = (validated \ {id}) \ Q
      /\ root' = id
      /\ fork_head' = fork_head
  BY DEF advance_root
<1>2. root \in Q /\ \A b \in index' : Prev[b] \in index' \cup {id}
  BY <1>1, KeptLinks DEF TypeOK
<1> HIDE DEF Q
<1>3. TypeOK'
  BY <1>1 DEF TypeOK
<1>4. \A b \in index' : first_preferred(b, id)
  BY <1>1, <1>2, <1>3, TreeOverRoot DEF TypeOK
<1>5. OneTree'
  BY <1>1, <1>2, <1>4 DEF OneTree, Linkable
<1>6. HeadIsBest'
  BY <1>1 DEF HeadIsBest
<1>7. ValidatedPrefix'
  <2>1. SUFFICES ASSUME NEW b \in validated' PROVE Prev[b] \in validated' \cup {id}
    BY <1>1 DEF ValidatedPrefix
  <2>2. Prev[b] \in validated \cup {root} /\ b \in index'
    BY <1>1, <2>1 DEF ValidatedPrefix, TypeOK
  <2>3. Prev[b] \in index' \cup {id}
    BY <1>2, <2>2
  <2>4. Prev[b] # root \/ Prev[b] = id
    BY <1>1, <1>2, <2>3
  <2>5. QED
    BY <1>1, <2>2, <2>3, <2>4
<1>8. NumsBounded'
  BY <1>1 DEF NumsBounded
<1>9. QED
  BY <1>3, <1>5, <1>6, <1>7, <1>8

-----------------------------------------------------------------------------
(* The theorems.                                                           *)

\* Every step of the specification keeps the inductive invariant.
LEMMA NextPreserves ==
    ASSUME IInv, [Next]_vars
    PROVE  IInv'
<1>1. CASE \E b \in Block : add(b)
  BY <1>1, AddPreserves
<1>2. CASE \E b \in Block : mark_valid(b)
  BY <1>2, MarkValidPreserves
<1>3. CASE \E b \in Block : remove(b)
  BY <1>3, RemovePreserves
<1>4. CASE \E b \in Block : advance_root(b)
  BY <1>4, AdvanceRootPreserves
<1>5. CASE \E b \in Block : reset(b)
  BY <1>5 DEF reset, IInv, TypeOK, OneTree, HeadIsBest, ValidatedPrefix, NumsBounded
<1>6. CASE rollback_head_to_root
  BY <1>6 DEF rollback_head_to_root, IInv, TypeOK, OneTree, Linkable, HeadIsBest,
              ValidatedPrefix, NumsBounded
<1>7. CASE UNCHANGED vars
  BY <1>7 DEF vars, IInv, TypeOK, OneTree, Linkable, HeadIsBest, ValidatedPrefix,
              NumsBounded
<1>8. QED
  BY <1>1, <1>2, <1>3, <1>4, <1>5, <1>6, <1>7 DEF Next

\* The inductive invariant holds of every reachable state of the database.
THEOREM Invariant == Spec => []IInv
<1>1. Init => IInv
  BY TreeAssumption DEF Init, IInv, TypeOK, OneTree, HeadIsBest, ValidatedPrefix,
                        NumsBounded
<1>2. IInv /\ [Next]_vars => IInv'
  BY NextPreserves
<1>3. QED
  BY <1>1, <1>2, PTL DEF Spec

\* The state is always well-typed.
THEOREM TypeCorrect == Spec => []TypeOK
<1>1. IInv => TypeOK
  BY DEF IInv
<1>2. QED
  BY <1>1, Invariant, PTL

\* The database is always one tree over its root: no call orphans a branch.
THEOREM StaysOneTree == Spec => []OneTree
<1>1. IInv => OneTree
  BY DEF IInv
<1>2. QED
  BY <1>1, Invariant, PTL

\* The head is always a best validated block.
THEOREM HeadStaysBest == Spec => []HeadIsBest
<1>1. IInv => HeadIsBest
  BY DEF IInv
<1>2. QED
  BY <1>1, Invariant, PTL

\* A validated block always builds on validated blocks.
THEOREM PrefixStaysValidated == Spec => []ValidatedPrefix
<1>1. IInv => ValidatedPrefix
  BY DEF IInv
<1>2. QED
  BY <1>1, Invariant, PTL

\* pending_head is the head, or an unvalidated block that beats it, and no block of the database
\* beats it.
LEMMA PendingHead ==
    ASSUME IInv
    PROVE  /\ PendingHeadIsBest
           /\ \/ pending_head = fork_head
              \/ pending_head \in index \ validated /\ first_preferred(pending_head, fork_head)
<1> DEFINE U == index \ validated
<1>1. U \in SUBSET Received /\ U \in SUBSET Block /\ fork_head \in Block /\ index \subseteq Block
  BY DEF IInv, TypeOK, Received
<1>2. CASE U = {}
  <2>1. pending_head = fork_head
    BY <1>2 DEF pending_head
  <2>2. QED
    BY <1>2, <2>1 DEF PendingHeadIsBest, IInv, HeadIsBest, TypeOK
<1>3. CASE U # {}
  <2>1. PICK M \in Nat : \A c \in U : Num[c] <= M
    BY DEF IInv, NumsBounded
  <2>2. \E u \in U : \A c \in U : ~first_preferred(c, u)
    BY <1>1, <1>3, <2>1, BestExists, Zenon
  <2>3. First(U) \in U /\ \A c \in U : ~first_preferred(c, First(U))
    BY <1>1, <2>2, FirstIsBest
  <2>4. First(U) \in Block
    BY <1>1, <2>3
  <2>5. \A b \in index : b \in U \/ ~first_preferred(b, fork_head)
    BY DEF IInv, HeadIsBest
  <2>6. CASE first_preferred(First(U), fork_head)
    <3>1. pending_head = First(U)
      BY <1>3, <2>6 DEF pending_head
    <3>2. QED
      BY <1>1, <2>3, <2>4, <2>5, <2>6, <3>1, PreferredOrder DEF PendingHeadIsBest
  <2>7. CASE ~first_preferred(First(U), fork_head)
    <3>1. pending_head = fork_head
      BY <2>7 DEF pending_head
    <3>2. \A b \in U : ~first_preferred(b, fork_head)
      BY <1>1, <2>3, <2>4, <2>7, PreferredOrder
    <3>3. QED
      BY <2>5, <3>1, <3>2 DEF PendingHeadIsBest
  <2>8. QED
    BY <2>6, <2>7
<1>4. QED
  BY <1>2, <1>3

\* pending_head always returns a best block of the whole database.
THEOREM PendingHeadStaysBest == Spec => []PendingHeadIsBest
<1>1. IInv => PendingHeadIsBest
  BY PendingHead
<1>2. QED
  BY <1>1, Invariant, PTL

\* Whatever an advance_root keeps builds on the new root, and so does the head;
\* the new root builds on the old one.
LEMMA AdvanceStep ==
    ASSUME IInv, NEW id \in Block, advance_root(id)
    PROVE  /\ root \in Ancestry[id]
           /\ \A b \in index' : id \in Ancestry[b]
           /\ id \in Ancestry[fork_head']
<1> USE DEF IInv
<1>1. /\ id \in index
      /\ index' = (index \ {id}) \ Orphaned(id)
      /\ fork_head \notin Orphaned(id)
      /\ fork_head' = fork_head
  BY DEF advance_root, TypeOK
<1>2. root \in Ancestry[id]
  BY <1>1, TreeOverRoot DEF OneTree, Linkable, TypeOK
<1>3. root \in Orphaned(id) /\ \A b \in index' : Prev[b] \in index' \cup {id}
  BY <1>1, KeptLinks
<1>4. \A b \in index' : id \in Ancestry[b]
  BY <1>1, <1>3, TreeOverRoot, Zenon DEF TypeOK
<1>5. fork_head \in index' \cup {id}
  BY <1>1, <1>3 DEF OneTree, TypeOK
<1>6. id \in Ancestry[id]
  BY AncestryAssumption DEF Received
<1>7. QED
  BY <1>1, <1>2, <1>4, <1>5, <1>6

\* What is irreversible stays irreversible: the root only moves along the
\* branch of the head.
THEOREM RootOnlyAdvances == Spec => RootAdvances
<1>1. ASSUME IInv, [Next]_vars PROVE [RootStep]_vars
  <2>1. CASE \E b \in Block : advance_root(b)
    <3>1. PICK id \in Block : advance_root(id)
      BY <2>1
    <3>2. root' = id /\ id \in validated
      BY <3>1 DEF advance_root
    <3>3. QED
      BY <1>1, <3>1, <3>2, AdvanceStep DEF RootStep
  <2>2. CASE \E b \in Block : reset(b)
    BY <2>2 DEF RootStep
  <2>3. CASE root' = root
    BY <2>3 DEF RootStep
  <2>4. CASE UNCHANGED vars
    BY <2>4
  <2>5. QED
    BY <1>1, <2>1, <2>2, <2>3, <2>4
    DEF Next, add, mark_valid, remove, rollback_head_to_root
<1>2. QED
  BY <1>1, Invariant, PTL DEF Spec, RootAdvances

\* advance_root drops a block exactly when it does not build on the new root.
THEOREM AdvanceOnlyDropsForks == Spec => AdvanceKeepsBranches
<1>1. ASSUME IInv, [Next]_vars PROVE [KeepStep]_vars
  <2>1. CASE \E b \in Block : advance_root(b)
    <3>1. PICK id \in Block : advance_root(id)
      BY <2>1
    <3>2. /\ root' = id
          /\ id \in index
          /\ index' = (index \ {id}) \ Orphaned(id)
      BY <1>1, <3>1 DEF advance_root, IInv, TypeOK
    <3>3. \A b \in index' : id \in Ancestry[b]
      BY <1>1, <3>1, AdvanceStep
    <3> DEFINE rest == index \ {id}
               Off == {b \in rest \cup {root} : id \notin Ancestry[b]}
    <3>4. Orphaned(id) \subseteq Off
      <4>1. id \notin Ancestry[root]
        <5>1. SUFFICES ASSUME id \in Ancestry[root] PROVE FALSE
          OBVIOUS
        <5>2. Num[id] <= Num[root]
          BY <1>1, <5>1, AncestryBelow DEF IInv, TypeOK
        <5>3. first_preferred(id, root) /\ root \in Ancestry[id]
          BY <1>1, <3>1, <3>2, AdvanceStep DEF IInv, OneTree
        <5>4. Num[root] <= Num[Prev[id]] /\ Prev[id] \in Block
          <6>1. id \in Received
            BY <1>1, <3>2 DEF IInv, TypeOK
          <6>2. root \in Ancestry[Prev[id]] \/ root = id
            BY <5>3, <6>1, AncestryAssumption
          <6>3. root # id
            BY <3>1, <5>3, PreferredOrder
          <6>4. QED
            BY <6>1, <6>2, <6>3, ChildPreferred, AncestryBelow
        <5>5. Num[Prev[id]] < Num[id]
          BY <1>1, <3>2, ChildPreferred DEF IInv, TypeOK
        <5>6. Num[Prev[id]] \in Nat /\ Num[id] \in Nat /\ Num[root] \in Nat
          BY <1>1, <5>4, TreeAssumption DEF IInv, TypeOK
        <5>7. QED
          BY <5>2, <5>4, <5>5, <5>6
      <4>2. \A c \in rest : Prev[c] \in Off => c \in Off
        BY <1>1, AncestryAssumption DEF IInv, TypeOK
      <4>3. Off \in SUBSET (rest \cup {root}) /\ root \in Off
        BY <4>1
      <4> HIDE DEF Off
      <4>4. remove_queue(rest, root) \subseteq Off
        BY <4>2, <4>3, RemoveQueue
      <4>5. QED
        BY <4>4 DEF Orphaned
    <3>5. index' = {b \in index \ {id} : id \in Ancestry[b]}
      BY <3>2, <3>3, <3>4
    <3>6. QED
      BY <3>2, <3>5 DEF KeepStep
  <2>2. CASE \E b \in Block : reset(b)
    BY <2>2 DEF KeepStep
  <2>3. CASE root' = root
    BY <2>3 DEF KeepStep
  <2>4. CASE UNCHANGED vars
    BY <2>4
  <2>5. QED
    BY <1>1, <2>1, <2>2, <2>3, <2>4
    DEF Next, add, mark_valid, remove, rollback_head_to_root
<1>2. QED
  BY <1>1, Invariant, PTL DEF Spec, AdvanceKeepsBranches

\* The head only moves to a block that is at least as good as the old one.
THEOREM HeadOnlyImproves == Spec => HeadNeverWorsens
<1>1. ASSUME IInv, [Next]_vars PROVE [HeadStep]_vars
  <2> USE <1>1 DEF IInv
  <2>1. fork_head \in Block
    BY DEF TypeOK
  <2>2. CASE fork_head' = fork_head
    BY <2>1, <2>2, PreferredOrder DEF HeadStep
  <2>3. CASE \E b \in Block : add(b)
    <3>1. fork_head' = HeadAfterAdd(validated, fork_head)
      BY <2>3 DEF add
    <3>2. CASE validated = {}
      BY <2>2, <3>1, <3>2 DEF HeadAfterAdd
    <3>3. CASE validated # {}
      BY <3>1, <3>3, HeadAfterAddIsBest, HeadIsValidated DEF HeadStep
    <3>4. QED
      BY <3>2, <3>3
  <2>4. CASE \E b \in Block : mark_valid(b)
    <3>1. PICK h \in Block : mark_valid(h)
      BY <2>4
    <3>2. h \in index /\ fork_head' = HeadAfterMark(validated \cup {h}, fork_head)
      BY <3>1 DEF mark_valid
    <3>3. fork_head' \in Block
      BY <3>2, HeadAfterMarkIsBest DEF TypeOK, Received
    <3>4. fork_head' = fork_head \/ first_preferred(fork_head', fork_head)
      BY <3>2, HeadAfterMarkIsBest
    <3>5. QED
      BY <2>1, <2>2, <3>3, <3>4, PreferredOrder DEF HeadStep
  <2>5. CASE (\E b \in Block : reset(b)) \/ rollback_head_to_root
    BY <2>5 DEF HeadStep
  <2>6. CASE \E b \in Block : remove(b) \/ advance_root(b)
    BY <2>2, <2>6 DEF remove, advance_root
  <2>7. CASE UNCHANGED vars
    BY <2>7
  <2>8. QED
    BY <2>3, <2>4, <2>5, <2>6, <2>7 DEF Next
<1>2. QED
  BY <1>1, Invariant, PTL DEF Spec, HeadNeverWorsens

-----------------------------------------------------------------------------
(* The tree of blocks: what a block builds on is one block per number, and *)
(* two branches part at one block.                                         *)

\* The blocks that h builds on, down to r but without r.
Above(h, r) == {b \in Ancestry[h] : Num[b] > Num[r]}

\* Induction along the links: a set with the genesis block and with every block whose previous
\* block it has, has every block.
LEMMA TreeInduction ==
    ASSUME NEW S, Genesis \in S, \A b \in Received : Prev[b] \in S => b \in S
    PROVE  Block \subseteq S
<1> DEFINE Bad == Block \ S
           Nums == {Num[b] : b \in Bad}
<1>1. SUFFICES ASSUME Bad # {} PROVE FALSE
  OBVIOUS
<1>2. Nums \subseteq Nat /\ Nums # {}
  BY <1>1, TreeAssumption
<1>3. PICK n \in Nums : \A m \in Nums : n <= m
  BY <1>2, LeastNat, Zenon
<1>4. PICK b \in Bad : n = Num[b]
  BY <1>3
<1>5. b \in Received
  BY <1>4 DEF Received
<1>6. Prev[b] \in Bad
  BY <1>4, <1>5, ChildPreferred
<1>7. Num[b] <= Num[Prev[b]]
  BY <1>3, <1>4, <1>6
<1>8. Num[Prev[b]] < Num[b] /\ Num[b] \in Nat /\ Num[Prev[b]] \in Nat
  BY <1>5, <1>6, ChildPreferred, TreeAssumption DEF Received
<1>9. QED
  BY <1>7, <1>8

\* A block builds on itself and on the genesis block.
LEMMA AncestryEnds ==
    ASSUME NEW b \in Block
    PROVE  b \in Ancestry[b] /\ Genesis \in Ancestry[b] /\ Ancestry[b] \subseteq Block
<1> DEFINE S == {c \in Block : c \in Ancestry[c] /\ Genesis \in Ancestry[c]}
<1>1. Genesis \in S
  BY AncestryAssumption, TreeAssumption
<1>2. ASSUME NEW c \in Received, Prev[c] \in S
      PROVE  c \in S
  BY <1>2, AncestryAssumption DEF Received
<1>3. Block \subseteq S
  <2> HIDE DEF S
  <2> QED BY <1>1, <1>2, TreeInduction
<1>4. QED
  BY <1>3, AncestryAssumption

\* What a block's ancestor builds on, the block builds on.
LEMMA AncestryTransitive ==
    ASSUME NEW b \in Block, NEW a \in Ancestry[b]
    PROVE  Ancestry[a] \subseteq Ancestry[b]
<1> DEFINE S == {c \in Block : \A d \in Ancestry[c] : Ancestry[d] \subseteq Ancestry[c]}
<1>1. Genesis \in S
  BY AncestryAssumption, TreeAssumption
<1>2. ASSUME NEW c \in Received, Prev[c] \in S
      PROVE  c \in S
  BY <1>2, AncestryAssumption DEF Received
<1>3. Block \subseteq S
  <2> HIDE DEF S
  <2> QED BY <1>1, <1>2, TreeInduction
<1>4. QED
  BY <1>3

\* A block builds on one block of a number.
LEMMA AncestryUnique ==
    ASSUME NEW b \in Block, NEW a \in Ancestry[b], NEW c \in Ancestry[b], Num[a] = Num[c]
    PROVE  a = c
<1> DEFINE S == {d \in Block : \A x, y \in Ancestry[d] : Num[x] = Num[y] => x = y}
<1>1. Genesis \in S
  BY AncestryAssumption, TreeAssumption
<1>2. ASSUME NEW d \in Received, Prev[d] \in S
      PROVE  d \in S
  <2>1. Ancestry[d] = {d} \cup Ancestry[Prev[d]] /\ d \in Block /\ Prev[d] \in Block
    BY AncestryAssumption, ChildPreferred DEF Received
  <2>2. ASSUME NEW x \in Ancestry[Prev[d]]
        PROVE  Num[x] # Num[d]
    <3>1. x \in Block /\ Num[x] <= Num[Prev[d]]
      BY <2>1, AncestryBelow
    <3>2. QED
      BY <2>1, <3>1, ChildPreferred, TreeAssumption
  <2>3. \A x, y \in Ancestry[Prev[d]] : Num[x] = Num[y] => x = y
    BY <1>2
  <2>4. \A x, y \in Ancestry[d] : Num[x] = Num[y] => x = y
    BY <2>1, <2>2, <2>3
  <2>5. QED
    BY <2>1, <2>4
<1>3. Block \subseteq S
  <2> HIDE DEF S
  <2> QED BY <1>1, <1>2, TreeInduction
<1>4. QED
  BY <1>3

\* Of two blocks that one block builds on, the later builds on the earlier.
LEMMA AncestryLinear ==
    ASSUME NEW b \in Block, NEW a \in Ancestry[b], NEW c \in Ancestry[b], Num[a] <= Num[c]
    PROVE  a \in Ancestry[c]
<1> DEFINE S == {d \in Block : \A x, y \in Ancestry[d] : Num[x] <= Num[y] => x \in Ancestry[y]}
<1>1. Genesis \in S
  BY AncestryAssumption, TreeAssumption
<1>2. ASSUME NEW d \in Received, Prev[d] \in S
      PROVE  d \in S
  <2>1. Ancestry[d] = {d} \cup Ancestry[Prev[d]] /\ d \in Block /\ Prev[d] \in Block
    BY AncestryAssumption, ChildPreferred DEF Received
  <2>2. ASSUME NEW y \in Ancestry[Prev[d]]
        PROVE  ~(Num[d] <= Num[y])
    <3>1. y \in Block /\ Num[y] <= Num[Prev[d]]
      BY <2>1, AncestryBelow
    <3>2. QED
      BY <2>1, <3>1, ChildPreferred, TreeAssumption
  <2>3. \A x, y \in Ancestry[Prev[d]] : Num[x] <= Num[y] => x \in Ancestry[y]
    BY <1>2
  <2>4. \A x, y \in Ancestry[d] : Num[x] <= Num[y] => x \in Ancestry[y]
    BY <2>1, <2>2, <2>3
  <2>5. QED
    BY <2>1, <2>4
<1>3. Block \subseteq S
  <2> HIDE DEF S
  <2> QED BY <1>1, <1>2, TreeInduction
<1>4. QED
  BY <1>3

\* Between a block and one it builds on, every number has a block.
LEMMA AncestryNumbers ==
    ASSUME NEW b \in Block, NEW a \in Ancestry[b], NEW n \in Nat, Num[a] <= n, n <= Num[b]
    PROVE  \E c \in Ancestry[b] : Num[c] = n /\ a \in Ancestry[c]
<1> DEFINE S == {d \in Block : \A x \in Ancestry[d] : \A k \in Nat :
                    Num[x] <= k /\ k <= Num[d] => \E c \in Ancestry[d] : Num[c] = k}
<1>1. Genesis \in S
  BY AncestryAssumption, TreeAssumption
<1>2. ASSUME NEW d \in Received, Prev[d] \in S
      PROVE  d \in S
  <2>1. Ancestry[d] = {d} \cup Ancestry[Prev[d]] /\ d \in Block /\ Prev[d] \in Block
    BY AncestryAssumption, ChildPreferred DEF Received
  <2>2. Num[d] = Num[Prev[d]] + 1 /\ Num[d] \in Nat /\ Num[Prev[d]] \in Nat
    BY <2>1, TreeAssumption DEF Received
  <2>3. ASSUME NEW x \in Ancestry[d], NEW k \in Nat, Num[x] <= k, k <= Num[d]
        PROVE  \E c \in Ancestry[d] : Num[c] = k
    <3>1. CASE k = Num[d]
      BY <3>1, <2>1
    <3>2. CASE k # Num[d]
      <4>1. k <= Num[Prev[d]]
        BY <2>2, <2>3, <3>2
      <4>2. x \in Ancestry[Prev[d]]
        BY <2>1, <2>2, <2>3, <3>2
      <4>3. QED
        BY <1>2, <2>1, <2>3, <4>1, <4>2
    <3>3. QED
      BY <3>1, <3>2
  <2>4. QED
    BY <2>1, <2>3
<1>3. Block \subseteq S
  <2> HIDE DEF S
  <2> QED BY <1>1, <1>2, TreeInduction
<1>4. PICK c \in Ancestry[b] : Num[c] = n
  BY <1>3
<1>5. a \in Ancestry[c]
  BY <1>4, AncestryLinear
<1>6. QED
  BY <1>4, <1>5

\* A block on top of another one: what it builds on besides itself, and below itself.
LEMMA AncestryStep ==
    ASSUME NEW b \in Block, NEW a \in Ancestry[b], a # b
    PROVE  b \in Received /\ Prev[b] \in Block /\ a \in Ancestry[Prev[b]] /\ Num[a] < Num[b]
<1>1. b \in Received
  BY AncestryAssumption DEF Received
<1>2. Prev[b] \in Block /\ a \in Ancestry[Prev[b]] /\ Num[Prev[b]] < Num[b]
  BY <1>1, AncestryAssumption, ChildPreferred
<1>3. a \in Block /\ Num[a] <= Num[Prev[b]]
  BY <1>2, AncestryBelow
<1>4. QED
  BY <1>1, <1>2, <1>3, TreeAssumption

\* A block builds on the block before any block it builds on.
LEMMA AncestryPrev ==
    ASSUME NEW b \in Block, NEW a \in Ancestry[b], a \in Received
    PROVE  Prev[a] \in Ancestry[b] /\ Prev[a] \in Ancestry[a]
<1>1. a \in Block /\ Prev[a] \in Block
  BY AncestryAssumption, ChildPreferred DEF Received
<1>2. Prev[a] \in Ancestry[a]
  BY <1>1, AncestryEnds, AncestryAssumption
<1>3. QED
  BY <1>2, AncestryTransitive

\* Two branches part at one block: above it they have nothing in common, up to it everything.
LEMMA ForkPoint ==
    ASSUME NEW a \in Block, NEW b \in Block
    PROVE  \E p \in Block :
              /\ p \in Ancestry[a] /\ p \in Ancestry[b]
              /\ Ancestry[a] \ Ancestry[b] = Above(a, p)
              /\ Ancestry[b] \ Ancestry[a] = Above(b, p)
<1> DEFINE Parts(c, p) == /\ p \in Ancestry[c] /\ p \in Ancestry[b]
                          /\ Ancestry[c] \ Ancestry[b] = Above(c, p)
                          /\ Ancestry[b] \ Ancestry[c] = Above(b, p)
           S == {c \in Block : \E p \in Block : Parts(c, p)}
<1>1. ASSUME NEW c \in Block, c \in Ancestry[b]
      PROVE  Parts(c, c)
  <2>1. c \in Ancestry[c] /\ Ancestry[c] \subseteq Ancestry[b] /\ Ancestry[b] \subseteq Block
    BY <1>1, AncestryEnds, AncestryTransitive
  <2>2. Above(c, c) = {}
    <3>1. ASSUME NEW x \in Ancestry[c] PROVE ~(Num[x] > Num[c])
      BY AncestryBelow, TreeAssumption
    <3>2. QED
      BY <3>1 DEF Above
  <2>3. ASSUME NEW x \in Ancestry[b]
        PROVE  x \in Ancestry[c] <=> ~(Num[x] > Num[c])
    <3>1. x \in Block /\ Num[x] \in Nat /\ Num[c] \in Nat
      BY <2>1, TreeAssumption
    <3>2. x \in Ancestry[c] => Num[x] <= Num[c]
      BY AncestryBelow
    <3>3. Num[x] <= Num[c] => x \in Ancestry[c]
      BY <1>1, AncestryLinear
    <3>4. QED
      BY <3>1, <3>2, <3>3
  <2>4. QED
    BY <1>1, <2>1, <2>2, <2>3 DEF Above
<1>2. Genesis \in S
  BY <1>1, AncestryEnds, TreeAssumption
<1>3. ASSUME NEW c \in Received, Prev[c] \in S
      PROVE  c \in S
  <2>1. CASE c \in Ancestry[b]
    BY <2>1, <1>1 DEF Received
  <2>2. CASE c \notin Ancestry[b]
    <3>1. PICK p \in Block : Parts(Prev[c], p)
      BY <1>3
    <3>2. Ancestry[c] = {c} \cup Ancestry[Prev[c]] /\ c \in Block /\ Prev[c] \in Block
      BY AncestryAssumption, ChildPreferred DEF Received
    <3>3. Num[c] > Num[p]
      <4>1. Num[p] <= Num[Prev[c]]
        BY <3>1, <3>2, AncestryBelow
      <4>2. QED
        BY <4>1, <3>2, ChildPreferred, TreeAssumption
    <3>4. Above(c, p) = {c} \cup Above(Prev[c], p)
      BY <3>2, <3>3 DEF Above
    <3>5. Parts(c, p)
      BY <2>2, <3>1, <3>2, <3>4
    <3>6. QED
      BY <3>2, <3>5
  <2>3. QED
    BY <2>1, <2>2
<1>4. Block \subseteq S
  <2> HIDE DEF S
  <2> QED BY <1>2, <1>3, TreeInduction
<1>5. QED
  BY <1>4

-----------------------------------------------------------------------------
(* Sequences.                                                              *)

\* A sequence is a function from the numbers up to its length.
LEMMA SeqLen ==
    ASSUME NEW S, NEW s \in Seq(S)
    PROVE  Len(s) \in Nat /\ DOMAIN s = 1..Len(s) /\ s \in [1..Len(s) -> S]
OBVIOUS

\* Only the empty sequence has length 0.
LEMMA SeqEmpty ==
    ASSUME NEW S
    PROVE  <<>> \in Seq(S) /\ Len(<<>>) = 0 /\ \A s \in Seq(S) : s # <<>> => Len(s) \in Nat \ {0}
OBVIOUS

\* A part of a sequence.
LEMMA SeqPart ==
    ASSUME NEW S, NEW s, NEW from \in Int, NEW to \in Int, \A i \in from..to : s[i] \in S
    PROVE  LET part == SubSeq(s, from, to)
           IN  /\ part \in Seq(S) /\ Len(part) = IF from <= to THEN to - from + 1 ELSE 0
               /\ \A i \in 1..(to - from + 1) : part[i] = s[from + i - 1]
OBVIOUS

\* A sequence with one more element.
LEMMA SeqAppend ==
    ASSUME NEW S, NEW s \in Seq(S), NEW x \in S
    PROVE  LET t == Append(s, x)
           IN  /\ t \in Seq(S) /\ t # <<>> /\ Len(t) = Len(s) + 1
               /\ t[Len(s) + 1] = x /\ \A i \in 1..Len(s) : t[i] = s[i]
OBVIOUS

\* A sequence without its first element.
LEMMA SeqTail ==
    ASSUME NEW S, NEW s \in Seq(S), s # <<>>
    PROVE  /\ Head(s) \in S /\ Tail(s) \in Seq(S) /\ Len(Tail(s)) = Len(s) - 1
           /\ \A i \in 1..Len(Tail(s)) : Tail(s)[i] = s[i + 1]
OBVIOUS

-----------------------------------------------------------------------------
(* The chains the controller keeps as sequences: what fetching, appending, *)
(* popping and committing do to a chain.                                   *)

\* The blocks in a sequence.
Elems(s) == {s[i] : i \in DOMAIN s}

\* A chain that starts on p.
Links(s, p) == s # <<>> /\ Elems(s) \subseteq Received /\ IsChain(s) /\ Prev[s[1]] = p

\* Along a chain every block builds on the ones before, and the numbers go up by one.
LEMMA ChainOrder ==
    ASSUME NEW s \in Seq(Block), IsChain(s), NEW i \in 1 .. Len(s), NEW j \in 1 .. Len(s), i <= j
    PROVE  s[i] \in Ancestry[s[j]] /\ Num[s[j]] = Num[s[i]] + (j - i)
<1> DEFINE Good(k) == s[i] \in Ancestry[s[k]] /\ Num[s[k]] = Num[s[i]] + (k - i)
           Bad == {k \in 1 .. Len(s) : i <= k /\ ~Good(k)}
<1>1. SUFFICES ASSUME Bad # {} PROVE FALSE
  OBVIOUS
<1>2. Len(s) \in Nat
  BY SeqLen
<1>3. Bad \subseteq Nat
  BY <1>2
<1>4. PICK k \in Bad : \A m \in Bad : k <= m
  BY <1>1, <1>3, LeastNat, Zenon
<1>5. k \in 1 .. Len(s) /\ i <= k /\ ~Good(k) /\ k \in Nat /\ i \in Nat
  BY <1>2, <1>4
<1>6. k # i
  BY <1>5, AncestryEnds, TreeAssumption
<1>7. k \in 2 .. Len(s) /\ k - 1 \in 1 .. Len(s) /\ i <= k - 1
  BY <1>2, <1>5, <1>6
<1>8. Good(k - 1)
  <2>1. k - 1 \notin Bad
    BY <1>4, <1>5
  <2>2. QED
    BY <2>1, <1>7
<1>9. s[k] \in Received /\ Prev[s[k]] = s[k - 1]
  BY <1>7 DEF IsChain
<1>10. s[i] \in Ancestry[s[k]]
  BY <1>8, <1>9, AncestryAssumption
<1>11. Num[s[k]] = Num[s[k - 1]] + 1 /\ Num[s[i]] \in Nat
  <2>1. s[i] \in Block
    BY <1>5
  <2>2. QED
    BY <2>1, <1>9, TreeAssumption, Zenon DEF Received
<1>12. QED
  BY <1>5, <1>8, <1>10, <1>11

\* The ends of a chain, and the blocks in it.
LEMMA ChainEnds ==
    ASSUME NEW s \in Seq(Block), s # <<>>, IsChain(s)
    PROVE  /\ Len(s) \in Nat /\ Len(s) >= 1
           /\ Head(s) = s[1] /\ Head(s) \in Block /\ Last(s) = s[Len(s)] /\ Last(s) \in Block
           /\ Head(s) \in Ancestry[Last(s)] /\ Num[Last(s)] = Num[Head(s)] + Len(s) - 1
           /\ Elems(s) = {b \in Ancestry[Last(s)] : Num[b] >= Num[Head(s)]}
<1>1. Len(s) \in Nat /\ Len(s) >= 1 /\ DOMAIN s = 1 .. Len(s)
  BY SeqLen, SeqEmpty
<1>2. Head(s) = s[1] /\ Head(s) \in Block /\ Last(s) = s[Len(s)] /\ Last(s) \in Block
  BY <1>1 DEF Last
<1>3. /\ Head(s) \in Ancestry[Last(s)] /\ Num[Last(s)] = Num[Head(s)] + Len(s) - 1
  <2>1. 1 \in 1 .. Len(s) /\ Len(s) \in 1 .. Len(s) /\ 1 <= Len(s)
    BY <1>1
  <2>2. s[1] \in Ancestry[s[Len(s)]] /\ Num[s[Len(s)]] = Num[s[1]] + (Len(s) - 1)
    BY <2>1, ChainOrder
  <2>3. QED
    BY <1>1, <1>2, <2>2, TreeAssumption
<1>4. ASSUME NEW i \in 1 .. Len(s)
      PROVE  s[i] \in Ancestry[Last(s)] /\ Num[s[i]] = Num[Head(s)] + (i - 1)
  <2>1. 1 \in 1 .. Len(s) /\ Len(s) \in 1 .. Len(s) /\ 1 <= i /\ i <= Len(s)
    BY <1>1
  <2>2. s[i] \in Ancestry[s[Len(s)]] /\ Num[s[i]] = Num[s[1]] + (i - 1)
    BY <2>1, ChainOrder
  <2>3. QED
    BY <1>2, <2>2
<1>5. ASSUME NEW b \in Ancestry[Last(s)], Num[b] >= Num[Head(s)]
      PROVE  \E i \in 1 .. Len(s) : b = s[i]
  <2>1. b \in Block /\ Num[b] <= Num[Last(s)] /\ Num[b] \in Nat /\ Num[Head(s)] \in Nat
    BY <1>2, AncestryBelow, TreeAssumption
  <2> DEFINE i == Num[b] - Num[Head(s)] + 1
  <2>2. i \in 1 .. Len(s) /\ Num[b] = Num[Head(s)] + (i - 1)
    BY <1>1, <1>3, <1>5, <2>1
  <2>3. s[i] \in Ancestry[Last(s)] /\ Num[s[i]] = Num[b]
    BY <2>2, <1>4
  <2>4. b = s[i]
    BY <1>2, <2>3, AncestryUnique
  <2>5. QED
    BY <2>2, <2>4
<1>6. Elems(s) \subseteq {b \in Ancestry[Last(s)] : Num[b] >= Num[Head(s)]}
  <2>1. ASSUME NEW i \in 1 .. Len(s) PROVE Num[s[i]] >= Num[Head(s)]
    BY <1>2, <1>4, TreeAssumption
  <2>2. QED
    BY <1>1, <1>4, <2>1 DEF Elems
<1>7. QED
  BY <1>1, <1>2, <1>3, <1>5, <1>6 DEF Elems

\* Appending to a chain a block that builds on its last.
LEMMA ChainAppend ==
    ASSUME NEW s \in Seq(Block), s # <<>>, IsChain(s), NEW b \in Received, Prev[b] = Last(s)
    PROVE  LET t == Append(s, b)
           IN  /\ t \in Seq(Block) /\ t # <<>> /\ IsChain(t)
               /\ Head(t) = Head(s) /\ Last(t) = b /\ Front(t) = s
               /\ Len(t) = Len(s) + 1 /\ Elems(t) = Elems(s) \cup {b}
<1> DEFINE t == Append(s, b)
<1>1. Len(s) \in Nat /\ Len(s) >= 1 /\ Head(s) = s[1] /\ Last(s) = s[Len(s)] /\ b \in Block
  BY ChainEnds DEF Received
<1>2. /\ t \in Seq(Block) /\ t # <<>> /\ Len(t) = Len(s) + 1 /\ t[Len(s) + 1] = b
      /\ \A i \in 1 .. Len(s) : t[i] = s[i]
  BY <1>1, SeqAppend
<1>3. Head(t) = Head(s) /\ Last(t) = b
  BY <1>1, <1>2 DEF Last
<1>4. IsChain(t)
  <2>1. ASSUME NEW i \in 2 .. Len(t)
        PROVE  t[i] \in Received /\ Prev[t[i]] = t[i - 1]
    <3>1. CASE i = Len(s) + 1
      BY <3>1, <1>1, <1>2
    <3>2. CASE i # Len(s) + 1
      <4>1. i \in 2 .. Len(s) /\ i \in 1 .. Len(s) /\ i - 1 \in 1 .. Len(s)
        BY <3>2, <1>1, <1>2
      <4>2. QED
        BY <4>1, <1>2 DEF IsChain
    <3>3. QED
      BY <3>1, <3>2
  <2>2. QED
    BY <2>1 DEF IsChain
<1>5. Front(t) = s
  <2>1. Front(t) = SubSeq(t, 1, Len(s))
    BY <1>1, <1>2 DEF Front
  <2>2. QED
    BY <2>1, <1>1, <1>2, SeqAppend
<1>6. Elems(t) = Elems(s) \cup {b}
  <2>1. DOMAIN t = 1 .. Len(s) + 1 /\ DOMAIN s = 1 .. Len(s)
    BY <1>2, SeqLen
  <2>2. QED
    BY <1>1, <1>2, <2>1 DEF Elems
<1>7. QED
  BY <1>2, <1>3, <1>4, <1>5, <1>6

\* Dropping the first block of a chain.
LEMMA ChainTail ==
    ASSUME NEW s \in Seq(Block), NEW p, Links(s, p), Len(s) # 1
    PROVE  /\ Tail(s) \in Seq(Block) /\ Links(Tail(s), Head(s)) /\ Last(Tail(s)) = Last(s)
           /\ Elems(Tail(s)) \subseteq Elems(s)
<1> DEFINE t == Tail(s)
<1>1. Len(s) \in Nat /\ Len(s) >= 2 /\ s # <<>> /\ IsChain(s) /\ DOMAIN s = 1 .. Len(s)
  <2>1. s # <<>> /\ IsChain(s)
    BY DEF Links
  <2>2. Len(s) \in Nat /\ Len(s) # 0 /\ DOMAIN s = 1 .. Len(s)
    BY <2>1, SeqLen, SeqEmpty
  <2>3. QED
    BY <2>1, <2>2
<1>2. t \in Seq(Block) /\ Len(t) = Len(s) - 1 /\ \A i \in 1 .. Len(s) - 1 : t[i] = s[i + 1]
  BY <1>1, SeqTail
<1>3. DOMAIN t = 1 .. Len(s) - 1 /\ t # <<>>
  BY <1>1, <1>2, SeqLen
<1>4. Elems(t) \subseteq Elems(s)
  <2>1. \A i \in 1 .. Len(s) - 1 : t[i] = s[i + 1] /\ i + 1 \in DOMAIN s
    BY <1>1, <1>2
  <2>2. QED
    BY <1>3, <2>1 DEF Elems
<1>5. IsChain(t)
  <2>1. ASSUME NEW i \in 2 .. Len(t)
        PROVE  t[i] \in Received /\ Prev[t[i]] = t[i - 1]
    <3>1. i + 1 \in 2 .. Len(s) /\ t[i] = s[i + 1] /\ t[i - 1] = s[(i + 1) - 1]
      BY <1>1, <1>2
    <3>2. QED
      BY <3>1, <1>1 DEF IsChain
  <2>2. QED
    BY <2>1 DEF IsChain
<1>6. Prev[t[1]] = Head(s)
  <2>1. 2 \in 2 .. Len(s) /\ t[1] = s[2] /\ Head(s) = s[1]
    BY <1>1, <1>2
  <2>2. Prev[s[2]] = s[2 - 1]
    BY <1>1, <2>1 DEF IsChain
  <2>3. QED
    BY <2>1, <2>2
<1>7. Last(t) = Last(s)
  <2>1. Len(s) - 1 \in 1 .. Len(s) - 1 /\ (Len(s) - 1) + 1 = Len(s)
    BY <1>1
  <2>2. QED
    BY <1>2, <2>1 DEF Last
<1>8. QED
  BY <1>2, <1>3, <1>4, <1>5, <1>6, <1>7 DEF Links

\* The first block of a chain on p, and its last.
LEMMA LinksEnds ==
    ASSUME NEW s \in Seq(Block), NEW p, Links(s, p)
    PROVE  /\ Len(s) \in Nat /\ Len(s) >= 1 /\ IsChain(s) /\ s # <<>>
           /\ Head(s) \in Received /\ Prev[Head(s)] = p /\ p \in Block /\ Last(s) \in Received
           /\ p \in Ancestry[Last(s)] /\ Elems(s) = Above(Last(s), p)
           /\ Num[Last(s)] = Num[p] + Len(s) /\ Head(s) \in Elems(s) /\ Last(s) \in Elems(s)
           /\ Len(s) = 1 => Last(s) = Head(s)
<1>1. IsChain(s) /\ s # <<>> /\ Elems(s) \subseteq Received /\ Prev[s[1]] = p
  BY DEF Links
<1>2. /\ Len(s) \in Nat /\ Len(s) >= 1
      /\ Head(s) = s[1] /\ Last(s) = s[Len(s)] /\ Head(s) \in Ancestry[Last(s)]
      /\ Num[Last(s)] = Num[Head(s)] + Len(s) - 1 /\ Last(s) \in Block
      /\ Elems(s) = {b \in Ancestry[Last(s)] : Num[b] >= Num[Head(s)]}
  BY <1>1, ChainEnds
<1>3. Head(s) \in Elems(s) /\ Last(s) \in Elems(s)
  <2>1. DOMAIN s = 1 .. Len(s)
    BY SeqLen
  <2>2. QED
    BY <1>2, <2>1 DEF Elems
<1>4. Head(s) \in Received /\ Last(s) \in Received /\ Prev[Head(s)] = p
  BY <1>1, <1>2, <1>3
<1>5. p \in Block /\ Num[Head(s)] = Num[p] + 1 /\ Num[p] \in Nat
  BY <1>4, TreeAssumption DEF Received
<1>6. p \in Ancestry[Last(s)]
  BY <1>2, <1>4, AncestryPrev
<1>7. Elems(s) = Above(Last(s), p)
  <2>1. ASSUME NEW b \in Ancestry[Last(s)]
        PROVE  Num[b] >= Num[Head(s)] <=> Num[b] > Num[p]
    <3>1. Num[b] \in Nat
      BY <1>2, AncestryBelow, TreeAssumption
    <3>2. QED
      BY <3>1, <1>5
  <2>2. QED
    BY <1>2, <2>1 DEF Above
<1>8. Num[Last(s)] = Num[p] + Len(s)
  BY <1>2, <1>5
<1>9. QED
  BY <1>1, <1>2, <1>3, <1>4, <1>5, <1>6, <1>7, <1>8

\* The greatest and the least of the numbers from m to n.
LEMMA MaxMinInterval ==
    ASSUME NEW m \in Nat, NEW n \in Nat, m <= n
    PROVE  Max(m .. n) = n /\ Min(m .. n) = m
<1>1. Max(m .. n) = n
  <2>1. n \in m .. n /\ \A y \in m .. n : n >= y
    OBVIOUS
  <2>2. \A x \in m .. n : (\A y \in m .. n : x >= y) => x = n
    OBVIOUS
  <2>3. QED
    BY <2>1, <2>2 DEF Max
<1>2. Min(m .. n) = m
  <2>1. m \in m .. n /\ \A y \in m .. n : m =< y
    OBVIOUS
  <2>2. \A x \in m .. n : (\A y \in m .. n : x =< y) => x = m
    OBVIOUS
  <2>3. QED
    BY <2>1, <2>2 DEF Min
<1>3. QED
  BY <1>1, <1>2

\* Oldest makes the chain from r to t of the blocks between them.
LEMMA OldestIsChain ==
    ASSUME NEW t \in Block, NEW r \in Ancestry[t], r # t
    PROVE  LET s == Oldest(Above(t, r))
           IN  s \in Seq(Block) /\ Links(s, r) /\ Last(s) = t /\ Elems(s) = Above(t, r)
<1> DEFINE S == Above(t, r)
           nums == {Num[b] : b \in S}
           n == Num[t] - Num[r]
           s == Oldest(S)
<1>1. r \in Block /\ Num[r] < Num[t] /\ Num[r] \in Nat /\ Num[t] \in Nat /\ t \in Ancestry[t] /\ n \in Nat \ {0}
  BY AncestryStep, AncestryEnds, AncestryBelow, TreeAssumption
<1>2. S \subseteq Block /\ t \in S
  BY <1>1, AncestryEnds DEF Above
<1>3. nums = (Num[r] + 1) .. Num[t]
  <2>1. ASSUME NEW b \in S PROVE Num[b] \in (Num[r] + 1) .. Num[t]
    <3>1. b \in Ancestry[t] /\ Num[b] > Num[r]
      BY DEF Above
    <3>2. Num[b] <= Num[t] /\ Num[b] \in Nat
      BY <3>1, AncestryBelow, TreeAssumption
    <3>3. QED
      BY <3>1, <3>2, <1>1
  <2>2. ASSUME NEW k \in (Num[r] + 1) .. Num[t] PROVE \E b \in S : Num[b] = k
    <3>1. k \in Nat /\ Num[r] <= k /\ k <= Num[t] /\ k > Num[r]
      BY <1>1
    <3>2. PICK b \in Ancestry[t] : Num[b] = k
      BY <3>1, AncestryNumbers
    <3>3. QED
      BY <3>1, <3>2 DEF Above
  <2>3. QED
    BY <2>1, <2>2
<1>4. Max(nums) = Num[t] /\ Min(nums) = Num[r] + 1
  <2>1. Num[r] + 1 \in Nat /\ Num[r] + 1 <= Num[t]
    BY <1>1
  <2>2. QED
    BY <2>1, <1>1, <1>3, MaxMinInterval, Zenon
<1> DEFINE At_(i) == CHOOSE b \in S : Num[b] = (Num[r] + 1) + i - 1
<1>5. s = [i \in 1 .. (Num[t] - (Num[r] + 1) + 1) |-> At_(i)]
  <2>1. S # {}
    BY <1>2
  <2> DEFINE f(M, m) == [i \in 1 .. (M - m + 1) |-> CHOOSE b \in S : Num[b] = m + i - 1]
  <2>2. s = f(Max(nums), Min(nums))
    BY <2>1, Zenon DEF Oldest
  <2>3. s = f(Num[t], Num[r] + 1)
    <3> HIDE DEF nums, S, s, f
    <3> QED BY <2>2, <1>4
  <2>4. QED
    BY <2>3
<1>6. Num[t] - (Num[r] + 1) + 1 = n
  BY <1>1
<1>7. ASSUME NEW i \in 1 .. n
      PROVE  s[i] \in S /\ Num[s[i]] = Num[r] + i
  <2>1. (Num[r] + 1) + i - 1 = Num[r] + i /\ Num[r] + i \in (Num[r] + 1) .. Num[t]
    BY <1>1
  <2>2. \E b \in S : Num[b] = Num[r] + i
    BY <2>1, <1>3
  <2>3. s[i] = CHOOSE b \in S : Num[b] = Num[r] + i
    <3> HIDE DEF n, s
    <3> QED BY <1>5, <1>6, <2>1
  <2>4. QED
    <3> HIDE DEF n, s, S
    <3> QED BY <2>2, <2>3
<1>8. s \in Seq(Block) /\ Len(s) = n
  <2>1. s = [i \in 1 .. n |-> s[i]]
    BY <1>5, <1>6
  <2>2. \A i \in 1 .. n : s[i] \in Block
    BY <1>2, <1>7
  <2>3. QED
    <3> HIDE DEF s, n
    <3> QED BY <1>1, <2>1, <2>2
<1> HIDE DEF s
<1>9. ASSUME NEW i \in 1 .. n, NEW c \in Ancestry[t], Num[c] = Num[r] + i
      PROVE  s[i] = c
  <2>1. s[i] \in Ancestry[t] /\ Num[s[i]] = Num[c]
    BY <1>7, <1>9 DEF Above
  <2>2. QED
    BY <2>1, AncestryUnique
<1>10. ASSUME NEW i \in 1 .. n
       PROVE  s[i] \in Received /\ Prev[s[i]] \in Ancestry[t] /\ Num[Prev[s[i]]] = Num[r] + i - 1
  <2>1. s[i] \in Ancestry[t] /\ s[i] \in Block /\ Num[s[i]] = Num[r] + i /\ Num[s[i]] # Num[r]
    BY <1>1, <1>2, <1>7 DEF Above
  <2>2. s[i] \in Received
    <3>1. SUFFICES ASSUME s[i] = Genesis PROVE FALSE
      BY <2>1 DEF Received
    <3>2. Num[Genesis] <= Num[r] /\ Num[Genesis] \in Nat
      BY <1>1, AncestryEnds, AncestryBelow, TreeAssumption
    <3>3. QED
      BY <3>1, <3>2, <2>1, <1>1
  <2>3. Prev[s[i]] \in Ancestry[t] /\ Num[s[i]] = Num[Prev[s[i]]] + 1 /\ Prev[s[i]] \in Block
    BY <2>1, <2>2, AncestryPrev, TreeAssumption, ChildPreferred DEF Received
  <2>4. Num[Prev[s[i]]] \in Nat
    BY <2>3, TreeAssumption
  <2>5. QED
    BY <2>1, <2>2, <2>3, <2>4, <1>1
<1>11. IsChain(s)
  <2>1. ASSUME NEW i \in 2 .. Len(s)
        PROVE  s[i] \in Received /\ Prev[s[i]] = s[i - 1]
    <3>1. i \in 1 .. n /\ i - 1 \in 1 .. n /\ Num[r] + i - 1 = Num[r] + (i - 1)
      BY <1>1, <1>8
    <3>2. s[i] \in Received /\ Prev[s[i]] \in Ancestry[t] /\ Num[Prev[s[i]]] = Num[r] + (i - 1)
      BY <3>1, <1>10
    <3>3. s[i - 1] = Prev[s[i]]
      <4> HIDE DEF n
      <4> QED BY <3>1, <3>2, <1>9
    <3>4. QED
      BY <3>2, <3>3
  <2>2. QED
    BY <2>1 DEF IsChain
<1>12. Prev[s[1]] = r
  <2>1. 1 \in 1 .. n
    BY <1>1
  <2>2. Prev[s[1]] \in Ancestry[t] /\ Num[Prev[s[1]]] = Num[r]
    BY <2>1, <1>1, <1>10
  <2>3. QED
    BY <2>2, AncestryUnique
<1>13. Last(s) = t
  <2>1. n \in 1 .. n /\ Num[t] = Num[r] + n
    BY <1>1
  <2>2. s[n] = t
    BY <2>1, <1>1, <1>9
  <2>3. QED
    BY <2>2, <1>8 DEF Last
<1>14. s # <<>> /\ Elems(s) \subseteq Received
  <2>1. DOMAIN s = 1 .. n
    BY <1>8, SeqLen
  <2>2. QED
    BY <2>1, <1>1, <1>8, <1>10 DEF Elems
<1>15. Links(s, r)
  BY <1>11, <1>12, <1>14 DEF Links
<1>16. Elems(s) = Above(t, r)
  BY <1>8, <1>13, <1>15, LinksEnds
<1>17. QED
  BY <1>8, <1>13, <1>15, <1>16 DEF s

-----------------------------------------------------------------------------
(* Branches of the fork database.                                          *)

\* The branch of a block of the database is what it builds on down to the root.
LEMMA BranchToRoot ==
    ASSUME IInv, NEW t \in index \cup {root}
    PROVE  /\ t \in Block /\ root \in Block /\ root \in Ancestry[t] /\ root \notin index
           /\ Ancestry[t] \cap index = Above(t, root)
<1>1. index \subseteq Received /\ index \subseteq Block /\ root \in Block /\ t \in Block
  BY DEF IInv, TypeOK, Received
<1>2. \A b \in index : root \in Ancestry[b] /\ first_preferred(b, root)
  <2>1. index \in SUBSET Received /\ \A b \in index : Prev[b] \in index \cup {root}
    BY DEF IInv, TypeOK, OneTree, Linkable
  <2>2. QED
    BY <2>1, <1>1, TreeOverRoot
<1>3. root \notin index
  BY <1>1, <1>2, PreferredOrder
<1>4. \A b \in index : Num[b] > Num[root]
  BY <1>1, <1>2, <1>3, AncestryStep, TreeAssumption, Zenon
<1>5. root \in Ancestry[t]
  BY <1>1, <1>2, AncestryEnds
<1> DEFINE S == {c \in Block : c \in index \cup {root} =>
                    \A b \in Ancestry[c] : Num[b] > Num[root] => b \in index}
<1>6. ASSUME NEW b \in Ancestry[root] PROVE ~(Num[b] > Num[root])
  <2>1. b \in Block /\ Num[b] <= Num[root]
    BY <1>1, AncestryBelow
  <2>2. QED
    BY <1>1, <2>1, TreeAssumption
<1>7. Genesis \in S
  BY <1>1, <1>6, TreeAssumption DEF Received
<1>8. ASSUME NEW c \in Received, Prev[c] \in S
      PROVE  c \in S
  <2>1. c \in Block /\ Ancestry[c] = {c} \cup Ancestry[Prev[c]]
    BY AncestryAssumption DEF Received
  <2>2. CASE c \in index
    <3>1. Prev[c] \in index \cup {root}
      BY <2>2 DEF IInv, OneTree, Linkable
    <3>2. QED
      BY <1>8, <2>1, <2>2, <3>1
  <2>3. CASE c \notin index
    BY <1>6, <2>1, <2>3
  <2>4. QED
    BY <2>2, <2>3
<1>9. Block \subseteq S
  <2> HIDE DEF S
  <2> QED BY <1>7, <1>8, TreeInduction
<1>10. \A b \in Ancestry[t] : Num[b] > Num[root] => b \in index
  BY <1>1, <1>9
<1>11. QED
  BY <1>1, <1>3, <1>4, <1>5, <1>10 DEF Above

-----------------------------------------------------------------------------
(* The root of the fork database and the block log.                        *)

\* The calls during which the fork database may be older than the log.
Starting == {"down", "init", "replay_log"}

\* The fork database as it is after a crash or a broken off replay.
Fresh == index = {} /\ fork_head = root /\ root \in Elems(blog)

LogIsChain == blog \in Seq(Block) /\ blog # <<>> /\ Head(blog) = Genesis /\ IsChain(blog)

TaskShape(t) ==
    /\ DOMAIN t = {"op", "todo", "done", "undone", "caller", "why"}
    /\ t.caller \in {"idle", "best_loop", "replay_rev"}

\* The log is one chain from the genesis block on, and its last block is the root of the fork
\* database, except while the log grows and where the database has nothing but its root.
RootInv ==
    /\ TaskShape(task)
    /\ LogIsChain
    /\ task.op \in Starting => root = LogHead \/ Fresh
    /\ task.op = "init" => head = Genesis \/ head = fork_head
    /\ task.op = "replay_log" => head \in Elems(blog)
    /\ task.op = "append" => task.todo \in Seq(Block) /\ Links(task.todo, LogHead)
    /\ task.op \notin Starting \cup {"append", "advance", "halted"} => root = LogHead

\* The tasks the controller makes have the shape of tasks.
LEMMA TaskShapes ==
    ASSUME NEW c \in {"idle", "best_loop", "replay_rev"}
    PROVE  /\ TaskShape(Return(c)) /\ Return(c).op = c
           /\ TaskShape(Thrown(c)) /\ Thrown(c).op \in {"idle", "down"}
           /\ TaskShape(Down) /\ Down.op = "down" /\ TaskShape(Idle) /\ Idle.op = "idle"
           /\ \A op, todo, done, undone : /\ TaskShape(Task(op, todo, done, undone, c))
                                          /\ Task(op, todo, done, undone, c).op = op
                                          /\ Task(op, todo, done, undone, c).todo = todo
           /\ \A op : TaskShape(At(op, c)) /\ At(op, c).op = op
           /\ \A why : TaskShape(Halted(why)) /\ Halted(why).op = "halted"
BY DEF TaskShape, Return, Thrown, Down, Idle, Task, At, Halted

\* Where the log does not change, it stays a chain with the same last block.
LEMMA SameLog ==
    ASSUME LogIsChain, blog' = blog
    PROVE  LogIsChain' /\ LogHead' = LogHead
BY DEF LogIsChain, LogHead

-----------------------------------------------------------------------------
(* Types.                                                                  *)

\* The calls that have a block to apply or to log next.
Applying == {"commit", "extend", "apply", "reapply", "append"}

Bounded(S) == S \subseteq Received /\ \E M \in Nat : \A b \in S : Num[b] <= M

\* The state of the controller has its types, and the reversible blocks have a highest number.
TypeInv ==
    /\ task.todo \in Seq(Received) /\ task.undone \in Seq(Received)
    /\ task.op \in Applying => task.todo # <<>>
    /\ head \in Block
    /\ Bounded(rbi)

\* The parts of the tasks the controller makes.
LEMMA TaskParts ==
    ASSUME NEW c \in {"idle", "best_loop", "replay_rev"}
    PROVE  /\ \A t \in {Return(c), Thrown(c), Down, Idle} :
                 t.todo = <<>> /\ t.done = 0 /\ t.undone = <<>> /\ t.caller = "idle"
           /\ \A why : /\ Halted(why).todo = <<>> /\ Halted(why).undone = <<>>
                       /\ Halted(why).caller = "idle"
           /\ \A op : LET t == At(op, c)
                      IN  t.todo = <<>> /\ t.done = 0 /\ t.undone = <<>> /\ t.caller = c
           /\ \A op, todo, done, undone :
                 LET t == Task(op, todo, done, undone, c)
                 IN  /\ t.op = op /\ t.todo = todo /\ t.done = done /\ t.undone = undone
                     /\ t.caller = c
BY DEF Return, Thrown, Down, Idle, Task, At, Halted

\* The parts of a task with some of them replaced.
LEMMA TaskExceptParts ==
    ASSUME NEW t, TaskShape(t)
    PROVE  /\ \A x : LET u == [t EXCEPT !.op = x]
                     IN  /\ u.op = x /\ u.todo = t.todo /\ u.done = t.done
                         /\ u.undone = t.undone /\ u.caller = t.caller
           /\ \A x : LET u == [t EXCEPT !.todo = x]
                     IN  /\ u.op = t.op /\ u.todo = x /\ u.done = t.done
                         /\ u.undone = t.undone /\ u.caller = t.caller
           /\ \A x : LET u == [t EXCEPT !.done = x]
                     IN  /\ u.op = t.op /\ u.todo = t.todo /\ u.done = x
                         /\ u.undone = t.undone /\ u.caller = t.caller
           /\ \A x, y : LET u == [t EXCEPT !.todo = x, !.done = y]
                        IN  /\ u.op = t.op /\ u.todo = x /\ u.done = y
                            /\ u.undone = t.undone /\ u.caller = t.caller
BY DEF TaskShape

\* In every state the fork database satisfies its own invariant, its root and the log agree, and
\* every step of the controller is at most one call on the fork database.
UsageInv == TypeInv /\ RootInv /\ IInv

-----------------------------------------------------------------------------
(* The branches that fork switches and the log take.                       *)

\* Half of fetch_branch_from as a sequence.
LEMMA ForkedBranch ==
    ASSUME NEW a \in Block, NEW b \in Block
    PROVE  LET s == Oldest(fetch_branch_from(a, b))
           IN  /\ s \in Seq(Received)
               /\ s = <<>> <=> a \in Ancestry[b]
<1> DEFINE S == fetch_branch_from(a, b)
           s == Oldest(S)
<1>1. PICK p \in Block : /\ p \in Ancestry[a] /\ p \in Ancestry[b]
                         /\ Ancestry[a] \ Ancestry[b] = Above(a, p)
                         /\ Ancestry[b] \ Ancestry[a] = Above(b, p)
  BY ForkPoint, Zenon
<1>2. S = Above(a, p)
  BY <1>1 DEF fetch_branch_from
<1>3. CASE a = p
  <2>1. S = {}
    <3>1. ASSUME NEW c \in Ancestry[a] PROVE ~(Num[c] > Num[a])
      BY AncestryBelow, TreeAssumption
    <3>2. QED
      BY <1>2, <1>3, <3>1 DEF Above
  <2>2. s = <<>>
    BY <2>1 DEF Oldest
  <2>3. QED
    BY <1>1, <1>3, <2>2
<1>4. CASE a # p
  <2>1. s \in Seq(Block) /\ Links(s, p)
    BY <1>1, <1>2, <1>4, OldestIsChain
  <2>2. a \notin Ancestry[b]
    BY <1>1, <1>2, <1>4, AncestryStep, AncestryEnds DEF Above
  <2>3. s \in Seq(Received)
    <3>1. \A i \in 1 .. Len(s) : s[i] \in Received
      BY <2>1, SeqLen DEF Links, Elems
    <3>2. QED
      <4> HIDE DEF s
      <4> QED BY <2>1, <3>1
  <2>4. QED
    BY <2>1, <2>2, <2>3 DEF Links
<1>5. QED
  BY <1>3, <1>4

\* log_irreversible fetches the blocks from the log to the new irreversible block.
LEMMA FetchedBranch ==
    ASSUME IInv, root = LogHead, NEW tip \in index \cup {root}, ~(Lib[tip] <= Num[LogHead])
    PROVE  LET s == Oldest({b \in fetch_branch(tip) : Num[b] <= Lib[tip]})
           IN  /\ s \in Seq(Block) /\ Links(s, LogHead) /\ Elems(s) \subseteq index
               /\ Last(s) \in Ancestry[tip] /\ Num[Last(s)] = Lib[tip]
<1> DEFINE S == {b \in fetch_branch(tip) : Num[b] <= Lib[tip]}
<1>1. /\ tip \in Block /\ root \in Block /\ root \in Ancestry[tip] /\ root \notin index
      /\ Ancestry[tip] \cap index = Above(tip, root)
  BY BranchToRoot
<1>2. Lib[tip] \in Nat /\ Num[root] \in Nat /\ Num[tip] \in Nat /\ Lib[tip] < Num[tip] /\ Num[root] < Lib[tip]
  BY <1>1, TreeAssumption
<1>3. tip \in index
  BY <1>2
<1>4. PICK c \in Ancestry[tip] : Num[c] = Lib[tip] /\ root \in Ancestry[c]
  <2>1. Num[root] <= Lib[tip] /\ Lib[tip] <= Num[tip]
    BY <1>2
  <2>2. QED
    BY <1>1, <1>2, <2>1, AncestryNumbers
<1>5. c \in Block /\ c # root
  BY <1>1, <1>2, <1>4, AncestryBelow
<1>6. S = Above(c, root)
  <2>1. S = {b \in Ancestry[tip] : Num[b] > Num[root] /\ Num[b] <= Lib[tip]}
    BY <1>1, <1>3 DEF fetch_branch, Above
  <2>2. ASSUME NEW b \in Ancestry[tip]
        PROVE  Num[b] <= Lib[tip] <=> b \in Ancestry[c]
    <3>1. b \in Ancestry[c] => Num[b] <= Num[c]
      BY <1>5, AncestryBelow
    <3>2. Num[b] <= Num[c] => b \in Ancestry[c]
      BY <1>1, <1>4, AncestryLinear
    <3>3. QED
      BY <3>1, <3>2, <1>4
  <2>3. Ancestry[c] \subseteq Ancestry[tip]
    BY <1>1, <1>4, AncestryTransitive
  <2>4. QED
    BY <2>1, <2>2, <2>3 DEF Above
<1>7. LET s == Oldest(S) IN s \in Seq(Block) /\ Links(s, root) /\ Last(s) = c /\ Elems(s) = S
  BY <1>4, <1>5, <1>6, OldestIsChain, Zenon
<1>8. S \subseteq index
  BY DEF fetch_branch
<1>9. QED
  BY <1>4, <1>7, <1>8

\* A block of a chain with the number of its last block is its last block.
LEMMA ChainTop ==
    ASSUME LogIsChain, NEW b \in Elems(blog)
    PROVE  /\ b \in Block /\ LogHead \in Block /\ LogHead \in Elems(blog) /\ b \in Ancestry[LogHead]
           /\ Num[b] <= Num[LogHead] /\ Num[b] \in Nat /\ Num[LogHead] \in Nat
           /\ Num[b] = Num[LogHead] => b = LogHead
<1>1. /\ LogHead \in Block /\ Elems(blog) = {c \in Ancestry[LogHead] : Num[c] >= Num[Head(blog)]}
      /\ Len(blog) \in Nat /\ Len(blog) >= 1 /\ LogHead = blog[Len(blog)] /\ DOMAIN blog = 1 .. Len(blog)
  BY ChainEnds, SeqLen DEF LogIsChain, LogHead
<1>2. b \in Ancestry[LogHead] /\ LogHead \in Ancestry[LogHead] /\ LogHead \in Elems(blog)
  BY <1>1, AncestryEnds DEF Elems
<1>3. b \in Block /\ Num[b] <= Num[LogHead]
  BY <1>1, <1>2, AncestryBelow
<1>4. Num[b] = Num[LogHead] => b = LogHead
  BY <1>1, <1>2, AncestryUnique
<1>5. QED
  BY <1>1, <1>2, <1>3, <1>4, TreeAssumption

\* The next block of the log after one that is in it.
LEMMA NextInLog ==
    ASSUME LogIsChain, NEW h \in Elems(blog), h # LogHead
    PROVE  LET b == blog[Num[h] - Num[Head(blog)] + 2]
           IN  b \in Elems(blog) /\ b \in Received /\ Prev[b] = h
<1>1. blog \in Seq(Block) /\ blog # <<>> /\ IsChain(blog)
  BY DEF LogIsChain
<1>2. /\ Len(blog) \in Nat /\ Len(blog) >= 1 /\ DOMAIN blog = 1 .. Len(blog) /\ LogHead = blog[Len(blog)]
      /\ Head(blog) = blog[1] /\ Num[Head(blog)] \in Nat
  BY <1>1, ChainEnds, SeqLen, TreeAssumption DEF LogHead
<1>3. PICK i \in 1 .. Len(blog) : h = blog[i]
  BY <1>2 DEF Elems
<1>4. i \in Nat /\ i + 1 \in 2 .. Len(blog) /\ i + 1 \in DOMAIN blog /\ (i + 1) - 1 = i
  BY <1>2, <1>3
<1>5. Num[h] = Num[Head(blog)] + (i - 1)
  <2>1. 1 \in 1 .. Len(blog) /\ 1 <= i
    BY <1>2
  <2>2. QED
    BY <1>1, <1>2, <1>3, <2>1, ChainOrder, Zenon
<1>6. Num[h] - Num[Head(blog)] + 2 = i + 1
  BY <1>2, <1>4, <1>5
<1>7. blog[i + 1] \in Received /\ Prev[blog[i + 1]] = blog[(i + 1) - 1]
  BY <1>1, <1>4 DEF IsChain
<1>8. QED
  BY <1>3, <1>4, <1>6, <1>7 DEF Elems

\* A bounded set of numbers has a greatest element.
LEMMA GreatestNat ==
    ASSUME NEW S, S \subseteq Nat, S # {}, NEW M \in Nat, \A n \in S : n <= M
    PROVE  \E n \in S : \A m \in S : m <= n
<1> DEFINE T == {M - n : n \in S}
<1>1. \A n \in S : M - n \in Nat
  OBVIOUS
<1>2. T \subseteq Nat /\ T # {}
  BY <1>1, Zenon
<1>3. PICK d \in T : \A e \in T : d <= e
  <2> HIDE DEF T
  <2> QED BY <1>2, LeastNat, Zenon
<1>4. PICK n \in S : d = M - n
  OBVIOUS
<1>5. ASSUME NEW m \in S PROVE m <= n
  <2>1. M - m \in T
    BY Zenon
  <2>2. M - n <= M - m
    BY <1>3, <1>4, <2>1, Zenon
  <2>3. n \in Nat /\ m \in Nat
    BY Zenon
  <2>4. QED
    BY <2>2, <2>3
<1>6. QED
  BY <1>5

\* The number of the last block at hand is that of a block, no lower than the log's.
LEMMA LastNumBound ==
    ASSUME TypeInv, LogIsChain
    PROVE  /\ LastNum \in Nat /\ Num[LogHead] \in Nat /\ LastNum >= Num[LogHead] /\ LogHead \in Block
           /\ \A b \in Kept : Num[b] \in Nat /\ Num[b] <= LastNum /\ Num[b] > Num[LogHead]
           /\ Kept # {} => \E b \in Kept : Num[b] = LastNum
<1>1. LogHead \in Block /\ Num[LogHead] \in Nat
  BY ChainEnds, TreeAssumption DEF LogIsChain, LogHead
<1>2. CASE Kept = {}
  BY <1>1, <1>2 DEF LastNum
<1>3. CASE Kept # {}
  <2> DEFINE S == {Num[b] : b \in Kept}
  <2>1. Kept \subseteq rbi /\ \A b \in Kept : Num[b] > Num[LogHead]
    BY DEF Kept, Trim
  <2>2. PICK M \in Nat : \A b \in Kept : Num[b] <= M
    BY <2>1 DEF TypeInv, Bounded
  <2>3. Kept \subseteq Block /\ S \subseteq Nat /\ S # {}
    BY <1>3, <2>1, TreeAssumption DEF TypeInv, Bounded, Received
  <2>4. \E n \in S : \A m \in S : m <= n
    <3>1. \A n \in S : n <= M
      BY <2>2
    <3>2. QED
      <4> HIDE DEF S
      <4> QED BY <2>3, <3>1, GreatestNat, Zenon
  <2>5. Max(S) \in S /\ \A m \in S : m <= Max(S)
    <3> HIDE DEF S
    <3>1. Max(S) = CHOOSE x \in S : \A y \in S : x >= y
      BY DEF Max
    <3>2. \E x \in S : \A y \in S : x >= y
      BY <2>3, <2>4
    <3>3. Max(S) \in S /\ \A y \in S : Max(S) >= y
      BY <3>1, <3>2
    <3>4. QED
      BY <3>3, <2>3
  <2>6. LastNum = Max(S)
    BY <1>3 DEF LastNum
  <2>7. PICK b \in Kept : Num[b] = LastNum
    BY <2>5, <2>6
  <2>8. \A c \in Kept : Num[c] \in Nat /\ Num[c] <= LastNum
    BY <2>3, <2>5, <2>6
  <2>9. LastNum \in Nat /\ LastNum > Num[LogHead]
    BY <2>1, <2>7, <2>8
  <2>10. LastNum >= Num[LogHead]
    BY <2>9, <1>1
  <2>11. QED
    BY <1>1, <2>1, <2>7, <2>8, <2>9, <2>10
<1>4. QED
  BY <1>2, <1>3

\* The replay of the log ends with a fork database reset to the head, or as it was, its root being
\* the head: the branch that would move the root along a branch of the database is not taken.
LEMMA ReplayEnds ==
    ASSUME RootInv, IInv, replay_log_end
    PROVE  reset(head) \/ (UNCHANGED fork_vars /\ Num[head] = Num[root])
<1>1. task.op = "replay_log" /\ head \in Elems(blog) /\ LogIsChain /\ (root = LogHead \/ Fresh)
  BY Zenon DEF replay_log_end, RootInv, Starting
<1>2. /\ head \in Block /\ Num[head] <= Num[LogHead] /\ Num[head] \in Nat /\ Num[LogHead] \in Nat
  BY <1>1, ChainTop
<1>3. root \in Block /\ Num[root] \in Nat
  BY TreeAssumption DEF IInv, TypeOK
<1>4. ~(Num[root] < Num[head] /\ Num[head] <= Num[pending_head])
  <2>1. CASE root = LogHead
    BY <2>1, <1>2
  <2>2. CASE Fresh
    <3>1. pending_head = root
      BY <2>2 DEF Fresh, pending_head
    <3>2. QED
      BY <3>1, <1>2, <1>3
  <2>3. QED
    BY <1>1, <2>1, <2>2
<1>5. pending_head \in Block /\ Num[pending_head] \in Nat
  BY PendingHead, TreeAssumption DEF IInv, TypeOK, Received
<1>6. Num[pending_head] < Num[head] \/ Num[head] < Num[root] \/ Num[head] = Num[root]
  BY <1>2, <1>3, <1>4, <1>5
<1>7. /\ Num[pending_head] < Num[head] \/ Num[head] < Num[root] => reset(head)
      /\ ~(Num[pending_head] < Num[head] \/ Num[head] < Num[root]) /\ Num[head] = Num[root]
         => UNCHANGED fork_vars
  BY Zenon DEF replay_log_end
<1>8. QED
  BY <1>6, <1>7

-----------------------------------------------------------------------------
(* Chains, parts of branches and the choice of the best block.             *)

\* s is a chain of blocks from l to h.
ChainFrom(s, l, h) == s \in Seq(Block) /\ s # <<>> /\ IsChain(s) /\ Head(s) = l /\ Last(s) = h

NoneBeats(S, h) == \A b \in S : ~first_preferred(b, h)

\* h comes first among the blocks of V.
Leads(V, h) == \A c \in V \ {h} : Precedes(h, c)

\* With h as the head, nothing above l is irreversible.
Final(h, l) == h = l \/ Lib[h] <= Num[l]

\* What a chain says of its ends.
LEMMA ChainFacts ==
    ASSUME NEW s, NEW l, NEW h, ChainFrom(s, l, h)
    PROVE  /\ l \in Block /\ h \in Block /\ l \in Ancestry[h] /\ Num[l] \in Nat /\ Num[h] \in Nat
           /\ Num[l] <= Num[h] /\ Num[Head(s)] + Len(s) - 1 = Num[h] /\ Len(s) \in Nat
           /\ Head(s) = l /\ (Len(s) = 1 <=> h = l)
<1>1. s \in Seq(Block) /\ s # <<>> /\ IsChain(s) /\ Head(s) = l /\ Last(s) = h
  BY DEF ChainFrom
<1>2. /\ l \in Block /\ h \in Block /\ l \in Ancestry[h] /\ Len(s) \in Nat /\ Len(s) >= 1
      /\ Num[h] = Num[l] + Len(s) - 1
  BY <1>1, ChainEnds
<1>3. Num[l] \in Nat /\ Num[h] \in Nat
  BY <1>2, TreeAssumption
<1>4. h = l => Len(s) = 1
  <2>1. ASSUME NEW n \in Nat, NEW k \in Nat, n = n + k - 1 PROVE k = 1
    BY <2>1
  <2>2. QED
    BY <1>2, <1>3, <2>1, Zenon
<1>5. Len(s) = 1 => h = l
  <2>1. Len(s) = 1 => Num[h] = Num[l]
    BY <1>2, <1>3
  <2>2. h \in Ancestry[h]
    BY <1>2, AncestryEnds
  <2>3. QED
    BY <2>1, <2>2, <1>2, AncestryUnique
<1>6. QED
  BY <1>1, <1>2, <1>3, <1>4, <1>5

\* An undo session more, one less, and those up to a block of the chain made permanent.
LEMMA ChainGrows ==
    ASSUME NEW s, NEW l, NEW h, ChainFrom(s, l, h), NEW b \in Received, Prev[b] = h
    PROVE  ChainFrom(Append(s, b), l, b)
BY ChainAppend DEF ChainFrom

\* The part of a branch above one of its blocks.
LEMMA AboveEmpty ==
    ASSUME NEW h \in Block, NEW r \in Ancestry[h]
    PROVE  /\ Above(r, r) = {} /\ r \notin Above(h, r) /\ Above(h, r) \subseteq Received
           /\ h # r => h \in Above(h, r)
<1>1. r \in Block /\ Num[r] \in Nat /\ h \in Ancestry[h]
  BY AncestryBelow, AncestryEnds, TreeAssumption
<1>2. ASSUME NEW c \in Ancestry[r] PROVE ~(Num[c] > Num[r])
  BY <1>1, AncestryBelow, TreeAssumption
<1>3. h # r => h \in Above(h, r)
  BY <1>1, AncestryStep, TreeAssumption DEF Above
<1>4. ASSUME NEW c \in Above(h, r) PROVE c \in Received
  <2>1. c \in Ancestry[h] /\ c \in Block /\ Num[c] > Num[r]
    BY AncestryBelow DEF Above
  <2>2. Num[c] \in Nat /\ ~(Num[c] <= Num[r]) /\ r \in Ancestry[c] /\ c # r
    <3>1. Num[c] \in Nat /\ Num[r] <= Num[c] /\ Num[c] # Num[r]
      BY <1>1, <2>1, TreeAssumption
    <3>2. QED
      BY <2>1, <3>1, <1>1, AncestryLinear
  <2>3. QED
    BY <2>1, <2>2, AncestryStep
<1>5. r \notin Above(h, r)
  BY <1>1 DEF Above
<1>6. QED
  BY <1>2, <1>3, <1>4, <1>5 DEF Above

\* The block that leads a set is its first one.
LEMMA FirstUnique ==
    ASSUME NEW S \in SUBSET Block, NEW x \in S, Leads(S, x)
    PROVE  First(S) = x
<1>1. \E b \in S : \A c \in S \ {b} : Precedes(b, c)
  BY DEF Leads
<1>2. First(S) \in S /\ \A c \in S \ {First(S)} : Precedes(First(S), c)
  BY <1>1 DEF First
<1>3. CASE First(S) # x
  <2>1. Precedes(First(S), x) /\ Precedes(x, First(S))
    BY <1>2, <1>3 DEF Leads
  <2>2. First(S) \in Block /\ x \in Block
    BY <1>2
  <2>3. QED
    <3> DEFINE y == First(S)
    <3>1. Precedes(y, x) /\ Precedes(x, y) /\ y \in Block /\ x \in Block
      BY <2>1, <2>2
    <3> HIDE DEF y
    <3>2. FALSE
      BY <3>1, PreferredOrder, RankAssumption DEF Precedes
    <3>3. QED
      BY <3>2
<1>4. QED
  BY <1>3

\* The order of preference, where one of two blocks is compared with a third.
LEMMA Preference ==
    ASSUME NEW a \in Block, NEW b \in Block, NEW c \in Block
    PROVE  /\ first_preferred(a, b) /\ ~first_preferred(c, b) => first_preferred(a, c) /\ ~first_preferred(c, a)
           /\ first_preferred(a, b) /\ ~first_preferred(a, c) => first_preferred(c, b)
           /\ first_preferred(a, b) => Precedes(a, b) /\ a # b
BY PreferredOrder DEF Precedes

\* Where the head comes first among the validated blocks, add leaves it alone.
LEMMA AddKeepsHead ==
    ASSUME IInv, Leads(validated, fork_head), NEW b, add(b)
    PROVE  fork_head' = fork_head
<1>1. CASE validated = {}
  BY <1>1 DEF add, HeadAfterAdd
<1>2. CASE validated # {}
  <2>1. fork_head \in validated /\ validated \subseteq Block
    BY <1>2, HeadIsValidated DEF IInv, TypeOK, Received
  <2>2. First(validated) = fork_head
    BY <2>1, FirstUnique
  <2>3. QED
    BY <1>2, <2>2 DEF add, HeadAfterAdd
<1>3. QED
  BY <1>1, <1>2

\* A block that beats the head becomes the head when it is marked valid, and comes first.
LEMMA MarkMoves ==
    ASSUME IInv, NEW b \in Block, first_preferred(b, fork_head)
    PROVE  LET V == validated \cup {b}
           IN  b \notin validated /\ HeadAfterMark(V, fork_head) = b /\ Leads(V, b)
<1> DEFINE V == validated \cup {b}
<1>1. /\ validated \subseteq Block /\ fork_head \in Block
      /\ \A c \in validated : ~first_preferred(c, fork_head)
  BY DEF IInv, TypeOK, Received, HeadIsBest
<1>2. Leads(V, b)
  BY <1>1, Preference DEF Leads
<1>3. First(V) = b
  <2> V \in SUBSET Block /\ b \in V
    BY <1>1
  <2> HIDE DEF V
  <2> QED BY <1>2, FirstUnique
<1>4. QED
  BY <1>1, <1>2, <1>3 DEF HeadAfterMark

\* The branch of a validated block is validated down to the root.
LEMMA ValidatedBranch ==
    ASSUME IInv, NEW h \in validated \cup {root}, NEW a \in Ancestry[h], root \in Ancestry[a]
    PROVE  a \in validated \cup {root}
<1> DEFINE S == {c \in Block : c \in validated => \A x \in Ancestry[c] : Num[x] > Num[root] => x \in validated}
<1>1. validated \subseteq Received /\ root \in Block /\ h \in Block
  BY DEF IInv, TypeOK, Received
<1>2. Genesis \in S
  BY <1>1, TreeAssumption DEF Received
<1>3. ASSUME NEW b \in Received, Prev[b] \in S PROVE b \in S
  <2>1. SUFFICES ASSUME b \in validated, NEW x \in Ancestry[b], Num[x] > Num[root] PROVE x \in validated
    BY DEF Received
  <2>2. CASE x = b
    BY <2>1, <2>2
  <2>3. CASE x \in Ancestry[Prev[b]]
    <3>1. Prev[b] \in validated \cup {root}
      BY <2>1 DEF IInv, ValidatedPrefix
    <3>2. CASE Prev[b] \in validated
      BY <3>2, <2>1, <2>3, <1>3
    <3>3. CASE Prev[b] = root
      <4>1. Num[x] <= Num[root] /\ x \in Block
        BY <3>3, <2>3, <1>1, AncestryBelow
      <4>2. QED
        BY <4>1, <2>1, <1>1, TreeAssumption
    <3>4. QED
      BY <3>1, <3>2, <3>3
  <2>4. QED
    BY <2>2, <2>3, AncestryAssumption
<1>4. Block \subseteq S
  <2> HIDE DEF S
  <2> QED BY <1>2, <1>3, TreeInduction
<1>5. a \in Block /\ (a # root => Num[root] < Num[a])
  BY <1>1, AncestryBelow, AncestryStep
<1>6. CASE h \in validated
  BY <1>1, <1>4, <1>5, <1>6, TreeAssumption
<1>7. CASE h = root
  <2>1. Num[a] <= Num[root]
    BY <1>1, <1>7, AncestryBelow
  <2>2. QED
    BY <1>1, <1>5, <2>1, TreeAssumption
<1>8. QED
  BY <1>6, <1>7

-----------------------------------------------------------------------------
(* The invariant, phase by phase.                                          *)

\* Whatever the node is doing: no invalid block is in any store, and the reversible blocks are a
\* part of one branch that starts right above the log. A crash may leave some that the log has
\* too, which init drops.
Files ==
    /\ mode \in {"speculative", "irreversible"} /\ bad \in BadSets
    /\ fork_file \in BOOLEAN /\ (task.op # "down" => fork_file = TRUE)
    /\ Elems(blog) \cap bad = {} /\ validated \cap bad = {} /\ rbi \cap bad = {}
    /\ \E top \in Block :
          /\ LogHead \in Ancestry[top]
          /\ \/ rbi = Above(top, LogHead)
             \/ task.op \in {"down", "init"} /\ Trim(Num[LogHead]) = Above(top, LogHead)
    /\ mode = "irreversible" /\ task.op \notin {"down", "init"} => rbi = {}

\* The stores agree on the head.
Settled ==
    /\ ChainFrom(stack, LogHead, head) /\ fork_head = head /\ Leads(validated, fork_head)
    /\ Final(head, LogHead) /\ rbi = Above(head, LogHead)
    /\ mode = "irreversible" => head = LogHead

IdleInv == Settled /\ (mode = "speculative" => NoneBeats(index, head))

\* Only the block just added can beat the head; on a start, the head is the root.
SwitchInv ==
    /\ mode = "speculative" /\ Settled
    /\ \/ task.caller = "idle" /\ \E x \in index : NoneBeats(index \ {x}, head)
       \/ task.caller = "best_loop" /\ fork_head = root

CommitInv ==
    /\ mode = "speculative" /\ Settled /\ task.caller = "idle"
    /\ LET b == Head(task.todo)
       IN  b \in index \ bad /\ Prev[b] = head /\ NoneBeats(index \ {b}, head)

\* The replay of the reversible blocks is on the way to the head of the fork database.
Replaying ==
    /\ ChainFrom(stack, LogHead, head) /\ Leads(validated, fork_head) /\ head \in Ancestry[fork_head]
    /\ \E top \in Block : fork_head \in Ancestry[top] /\ rbi = Above(top, LogHead)

ExtendInv ==
    LET b == Head(task.todo)
    IN  /\ mode = "speculative" /\ b \in index /\ Prev[b] = head
        /\ \/ task.caller = "idle" /\ Settled /\ NoneBeats(index \ {b}, head)
           \/ task.caller = "best_loop" /\ Settled /\ fork_head = root /\ NoneBeats(index, b)
           \/ /\ task.caller = "replay_rev" /\ Replaying /\ b \in rbi /\ Final(fork_head, LogHead)
              /\ \/ b \in Ancestry[fork_head] /\ NoneBeats(index, fork_head)
                 \/ head = fork_head /\ NoneBeats(index \ {b}, head)

\* In a fork switch the chain state and the reversible blocks follow the head, which stays on
\* the branch above p.
OnBranch(p) ==
    /\ mode = "speculative" /\ ChainFrom(stack, LogHead, head) /\ rbi = Above(head, LogHead)
    /\ p \in Ancestry[head] /\ root \in Ancestry[p]

\* The branch the switch leaves: from p to the head of the fork database.
Leaving(p) ==
    /\ task.caller = "idle" /\ Links(task.undone, p) /\ Last(task.undone) = fork_head
    /\ Elems(task.undone) \subseteq index /\ Final(fork_head, LogHead)

\* The branch it takes, which is the only one better than the head.
Taking(p) ==
    /\ Links(task.todo, p) /\ Elems(task.todo) \subseteq index \ Ancestry[fork_head]

OnlyBetter ==
    LET t == Last(task.todo)
    IN  NoneBeats(index \ {t}, fork_head) /\ first_preferred(t, fork_head)

\* On a start there is nothing to leave.
FromRoot == task.caller = "best_loop" /\ task.undone = <<>> /\ NoneBeats(index, Last(task.todo))

PopInv ==
    LET p == Prev[Head(task.todo)]
    IN  /\ Taking(p) /\ OnBranch(p) /\ task.done = 0
        /\ Leads(validated, fork_head) /\ head \in Ancestry[fork_head]
        /\ \/ Leaving(p) /\ OnlyBetter
           \/ FromRoot /\ fork_head = root

\* While the branch is applied its last block may tie with the head of the fork database.
ApplyInv ==
    LET p == Prev[Head(task.undone)]
    IN  /\ Taking(head) /\ task.done \in Nat /\ head \in validated \cup {root}
        /\ \/ /\ Leaving(p) /\ OnBranch(p) /\ OnlyBetter /\ Num[head] = Num[p] + task.done
              /\ \A c \in validated \ {fork_head} :
                    Precedes(fork_head, c) \/ (task.done > 0 /\ c = head)
           \/ /\ FromRoot /\ OnBranch(root) /\ Num[head] = Num[root] + task.done
              /\ fork_head = head /\ Leads(validated, fork_head)

RevertInv ==
    LET p == Prev[Head(task.undone)]
    IN  /\ task.done \in Nat /\ head \in index \cup {root}
        /\ \/ /\ Leaving(p) /\ OnBranch(p) /\ Num[head] = Num[p] + task.done
              /\ NoneBeats(index, fork_head) /\ Leads(validated, fork_head)
           \/ task.undone = <<>> /\ OnBranch(root) /\ Num[head] = Num[root] + task.done

ReapplyInv ==
    /\ OnBranch(root) /\ task.caller = "idle"
    /\ Links(task.todo, head) /\ Last(task.todo) = fork_head /\ Elems(task.todo) \subseteq index
    /\ Final(fork_head, LogHead) /\ NoneBeats(index, fork_head) /\ Leads(validated, fork_head)

\* In irreversible mode the head is the last block of the log, also while the log grows.
AtLog == mode = "irreversible" /\ head = LogHead /\ fork_head = LogHead /\ task.caller = "idle"

\* In the other modes the log grows below the head.
Reversible ==
    IF task.caller = "replay_rev"
    THEN \E top \in Block : fork_head \in Ancestry[top] /\ rbi = Above(top, LogHead)
    ELSE rbi = Above(head, LogHead)

BelowHead ==
    /\ mode = "speculative" /\ Reversible /\ NoneBeats(index, fork_head)
    /\ Leads(validated, fork_head)

LogInv ==
    /\ ChainFrom(stack, LogHead, head)
    /\ \/ AtLog
       \/ /\ BelowHead /\ head \in Ancestry[fork_head]
          /\ fork_head = head \/ (task.caller = "replay_rev" /\ Final(fork_head, LogHead))

AppendInv ==
    /\ ChainFrom(stack, LogHead, head) /\ root \in Ancestry[LogHead]
    /\ Elems(task.todo) \subseteq index
    /\ \/ AtLog /\ validated \subseteq Ancestry[LogHead]
       \/ /\ BelowHead /\ fork_head = head
          /\ Last(task.todo) \in Ancestry[head] /\ Num[Last(task.todo)] = Lib[head]

AdvanceInv ==
    /\ ChainFrom(stack, LogHead, head) /\ root \in Ancestry[LogHead]
    /\ \/ AtLog /\ validated \subseteq Ancestry[LogHead]
       \/ BelowHead /\ fork_head = head /\ task.todo = <<>> /\ Final(head, LogHead)

\* The fork database as it was written out.
Written ==
    /\ root = LogHead /\ Leads(validated, fork_head) /\ Final(fork_head, LogHead)
    /\ rbi = Above(fork_head, LogHead) /\ (fork_head = root \/ NoneBeats(index, fork_head))

DownInv ==
    /\ Written \/ Fresh
    /\ \/ stack = <<>>
       \/ Written /\ ChainFrom(stack, LogHead, fork_head) /\ head = fork_head
       \/ Fresh /\ stack = <<root>> /\ head = root
    /\ fork_file = FALSE => Fresh /\ root = Genesis /\ stack = <<>>
    /\ mode = "irreversible" => fork_head = root

\* In irreversible mode the head is taken back to the root.
RolledBack == mode = "irreversible" /\ root = LogHead /\ validated = {}

InitInv ==
    /\ Written \/ Fresh \/ RolledBack
    /\ mode = "irreversible" => fork_head = root
    /\ \/ stack = <<Genesis>> /\ head = Genesis
       \/ Written /\ ChainFrom(stack, LogHead, head) /\ head = fork_head
       \/ RolledBack /\ head = root /\ \E h \in Block : ChainFrom(stack, LogHead, h)
       \/ Fresh /\ stack = <<root>> /\ head = root

ReplayLogInv ==
    /\ stack = <<head>> /\ (Written \/ Fresh)
    /\ mode = "irreversible" => fork_head = root

ReplayRevInv ==
    /\ Replaying /\ Final(fork_head, LogHead)
    /\ fork_head = root \/ NoneBeats(index, fork_head)
    /\ fork_head = root => rbi = {} \/ index = {}
    /\ mode = "irreversible" => fork_head = root

BestInv == Settled /\ (fork_head = root \/ NoneBeats(index, fork_head))

LoopInv == mode = "speculative" /\ Settled /\ NoneBeats(index, head)

PhaseInv ==
    /\ task.op = "idle" => IdleInv
    /\ task.op = "switch" => SwitchInv
    /\ task.op = "commit" => CommitInv
    /\ task.op = "extend" => ExtendInv
    /\ task.op = "pop" => PopInv
    /\ task.op = "apply" => ApplyInv
    /\ task.op = "revert" => RevertInv
    /\ task.op = "reapply" => ReapplyInv
    /\ task.op = "log" => LogInv
    /\ task.op = "append" => AppendInv
    /\ task.op = "advance" => AdvanceInv
    /\ task.op = "down" => DownInv
    /\ task.op = "init" => InitInv
    /\ task.op = "replay_log" => ReplayLogInv
    /\ task.op = "replay_rev" => ReplayRevInv
    /\ task.op = "best" => BestInv
    /\ task.op = "best_loop" => LoopInv
    /\ task.op # "halted"

StoresInv == Files /\ PhaseInv

-----------------------------------------------------------------------------
(* What the steps have in common.                                          *)

\* The types and the tree, from what is known of the controller and the fork database.
LEMMA Known ==
    ASSUME UsageInv
    PROVE  /\ IInv /\ LogIsChain /\ TaskShape(task) /\ task.caller \in {"idle", "best_loop", "replay_rev"}
           /\ index \subseteq Received /\ index \subseteq Block /\ validated \subseteq index
           /\ root \in Block /\ fork_head \in Block /\ head \in Block /\ LogHead \in Block
           /\ fork_head \in validated \cup {root} /\ root \notin index /\ root \in Ancestry[fork_head]
           /\ task.todo \in Seq(Received) /\ task.undone \in Seq(Received)
           /\ task.todo \in Seq(Block) /\ task.undone \in Seq(Block)
           /\ task.op \notin Starting \cup {"append", "advance", "halted"} => root = LogHead
           /\ "idle" \in {"idle", "best_loop", "replay_rev"}
<1>1. /\ IInv /\ LogIsChain /\ TaskShape(task) /\ task.caller \in {"idle", "best_loop", "replay_rev"}
      /\ task.op \notin Starting \cup {"append", "advance", "halted"} => root = LogHead
  BY DEF UsageInv, RootInv, TaskShape
<1>2. /\ index \subseteq Received /\ index \subseteq Block /\ validated \subseteq index
      /\ root \in Block /\ fork_head \in Block /\ fork_head \in validated \cup {root}
  BY <1>1 DEF IInv, TypeOK, OneTree, Received
<1>3. root \notin index /\ root \in Ancestry[fork_head]
  BY <1>1, <1>2, BranchToRoot
<1>4. head \in Block /\ task.todo \in Seq(Received) /\ task.undone \in Seq(Received)
  BY DEF UsageInv, TypeInv
<1>5. \A s \in Seq(Received) : s \in Seq(Block)
  BY DEF Received
<1>6. LogHead \in Block
  BY <1>1, ChainEnds DEF LogIsChain, LogHead
<1>7. QED
  BY <1>1, <1>2, <1>3, <1>4, <1>5, <1>6

\* A step of a call that leaves the log and the reversible blocks alone.
LEMMA FilesKept ==
    ASSUME Files, UNCHANGED <<blog, rbi, mode, bad, fork_file>>, task.op \notin {"down", "init"},
           validated' \cap bad = {}
    PROVE  Files' /\ LogHead' = LogHead
<1>1. LogHead' = LogHead
  BY DEF LogHead
<1>2. QED
  BY <1>1 DEF Files, Elems

\* Removing blocks from the fork database leaves the stores settled.
LEMMA SettledKept ==
    ASSUME Settled, UNCHANGED <<head, stack, rbi, blog, mode, fork_head>>, validated' \subseteq validated
    PROVE  Settled' /\ LogHead' = LogHead
<1>1. LogHead' = LogHead
  BY DEF LogHead
<1>2. QED
  BY <1>1 DEF Settled, Leads

\* What the assertions of apply_block and the undo sessions look at.
LEMMA ApplySucceeds ==
    ASSUME NEW b \in Received, Prev[b] = head, ChainFrom(stack, LogHead, head),
           Stores => rbi = Above(head, LogHead)
    PROVE  ApplyFails(b) = "none"
<1>1. Revision = Num[head]
  BY ChainFacts DEF Revision
<1>2. ~Collides(b)
  <2>1. SUFFICES ASSUME Stores, NEW c \in rbi, Num[c] = Num[b] PROVE FALSE
    BY DEF Collides
  <2>2. c \in Ancestry[head] /\ head \in Block
    BY <2>1, ChainFacts DEF Above
  <2>3. Num[c] <= Num[head] /\ c \in Block /\ Num[head] < Num[b]
    BY <2>2, AncestryBelow, ChildPreferred
  <2>4. QED
    BY <2>1, <2>2, <2>3, TreeAssumption
<1>3. QED
  BY <1>1, <1>2 DEF ApplyFails

=============================================================================
