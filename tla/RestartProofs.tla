--------------------------- MODULE RestartProofs ----------------------------
(***************************************************************************)
(* Writing the block log, stopping, crashing and starting again keep the   *)
(* stores of the controller as its invariant says.                         *)
(***************************************************************************)
EXTENDS ChainProofs

-----------------------------------------------------------------------------
(* Parts of chains and of branches.                                        *)

\* Sequences with the same elements in the same places are the same.
LEMMA SeqSame ==
    ASSUME NEW S, NEW s \in Seq(S), NEW t \in Seq(S), Len(s) = Len(t),
           \A i \in 1..Len(s) : s[i] = t[i]
    PROVE  s = t
OBVIOUS

\* db.commit on a chain of undo sessions: it starts at the block of that number then.
LEMMA ChainCommit ==
    ASSUME NEW s \in Seq(Block), s # <<>>, IsChain(s), NEW b \in Ancestry[Last(s)],
           Num[b] >= Num[Head(s)]
    PROVE  LET t == Commit(s, Num[b])
           IN  t \in Seq(Block) /\ t # <<>> /\ IsChain(t) /\ Head(t) = b /\ Last(t) = Last(s)
<1> DEFINE t == Commit(s, Num[b])
           d == Num[b] - Num[Head(s)]
<1>1. /\ Len(s) \in Nat /\ Len(s) >= 1 /\ Head(s) = s[1] /\ Head(s) \in Block
      /\ Last(s) = s[Len(s)] /\ Last(s) \in Block
      /\ Head(s) \in Ancestry[Last(s)] /\ Num[Last(s)] = Num[Head(s)] + Len(s) - 1
  BY ChainEnds
<1>2. b \in Block /\ Num[b] <= Num[Last(s)] /\ Num[b] \in Nat /\ Num[Head(s)] \in Nat
  BY <1>1, AncestryBelow, TreeAssumption
<1>3. CASE Num[Head(s)] >= Num[b]
  <2>1. Num[Head(s)] = Num[b]
    BY <1>2, <1>3
  <2>2. Head(s) = b
    BY <1>1, <2>1, AncestryUnique
  <2>3. t = s
    BY <1>3 DEF Commit
  <2>4. QED
    BY <2>2, <2>3
<1>4. CASE ~(Num[Head(s)] >= Num[b])
  <2>1. d \in 1 .. Len(s) - 1
    BY <1>1, <1>2, <1>4
  <2>2. t = SubSeq(s, d + 1, Len(s))
    BY <1>4, Zenon DEF Commit
  <2>3. t \in Seq(Block) /\ Len(t) = Len(s) - d /\ \A i \in 1 .. Len(s) - d : t[i] = s[i + d]
    <3> HIDE DEF d
    <3>1. d + 1 \in 1 .. Len(s) + 1 /\ Len(s) \in 0 .. Len(s)
      BY <1>1, <2>1
    <3>2. /\ t \in Seq(Block)
          /\ Len(t) = IF d + 1 <= Len(s) THEN Len(s) - (d + 1) + 1 ELSE 0
          /\ \A i \in 1 .. Len(s) - (d + 1) + 1 : t[i] = s[(d + 1) + i - 1]
      BY <3>1, <2>2, <1>1, SeqPart, SMTT(30)
    <3>3. QED
      BY <3>2, <2>1, <1>1
  <2>4. t # <<>> /\ Head(t) = s[1 + d] /\ Last(t) = Last(s)
    <3> HIDE DEF t, d
    <3>1. 1 \in 1 .. Len(s) - d /\ Len(s) - d \in 1 .. Len(s) - d /\ (Len(s) - d) + d = Len(s)
      BY <1>1, <2>1
    <3>2. t # <<>> /\ t[1] = s[1 + d] /\ t[Len(t)] = s[Len(s)]
      BY <2>3, <3>1
    <3>3. QED
      BY <3>2, <1>1, <2>3 DEF Last
  <2>5. IsChain(t)
    <3> HIDE DEF t, d
    <3>1. ASSUME NEW i \in 2 .. Len(t)
          PROVE  t[i] \in Received /\ Prev[t[i]] = t[i - 1]
      <4>1. i + d \in 2 .. Len(s) /\ t[i] = s[i + d] /\ t[i - 1] = s[(i + d) - 1]
        <5>1. i \in 1 .. Len(s) - d /\ i - 1 \in 1 .. Len(s) - d /\ (i - 1) + d = (i + d) - 1
          BY <1>1, <2>1, <2>3
        <5>2. i + d \in 2 .. Len(s)
          BY <5>1, <2>1, <1>1
        <5>3. t[i] = s[i + d]
          BY <5>1, <2>3
        <5>4. t[i - 1] = s[(i - 1) + d]
          BY <5>1, <2>3
        <5>5. QED
          BY <5>1, <5>2, <5>3, <5>4
      <4>2. QED
        BY <4>1 DEF IsChain
    <3>2. QED
      BY <3>1 DEF IsChain
  <2>6. Head(t) = b
    <3>1. 1 + d \in 1 .. Len(s) /\ 1 \in 1 .. Len(s) /\ 1 <= 1 + d /\ Len(s) \in 1 .. Len(s) /\ 1 + d <= Len(s)
      BY <1>1, <2>1
    <3>2. Num[s[1 + d]] = Num[s[1]] + ((1 + d) - 1) /\ s[1 + d] \in Ancestry[s[Len(s)]]
      <4> HIDE DEF d
      <4> QED BY <3>1, ChainOrder
    <3>3. Num[s[1 + d]] = Num[b]
      <4>1. PICK n \in Nat : n = Num[b]
        BY <1>2
      <4>2. PICK m \in Nat : m = Num[Head(s)] /\ m = Num[s[1]]
        BY <1>1, <1>2
      <4>3. (1 + d) - 1 = n - m
        BY <4>1, <4>2
      <4>4. QED
        BY <4>1, <4>2, <4>3, <3>2
    <3>4. QED
      BY <3>2, <3>3, <2>4, <1>1, AncestryUnique
  <2>7. QED
    BY <2>3, <2>4, <2>5, <2>6
<1>5. QED
  BY <1>3, <1>4

\* A chain whose first sessions are committed starts at the block they are committed up to.
LEMMA ChainCommits ==
    ASSUME NEW s, NEW l, NEW h, ChainFrom(s, l, h), NEW b \in Ancestry[h], Num[b] >= Num[l]
    PROVE  ChainFrom(Commit(s, Num[b]), b, h)
BY ChainCommit DEF ChainFrom

\* The blocks above r without those up to b, as the log leaves them when it takes b.
LEMMA AboveTrim ==
    ASSUME NEW h \in Block, NEW r \in Ancestry[h], NEW b \in Ancestry[h], Num[b] >= Num[r]
    PROVE  {c \in Above(h, r) : Num[c] > Num[b]} = Above(h, b) /\ r \in Ancestry[b]
<1>1. r \in Block /\ b \in Block /\ Num[r] \in Nat /\ Num[b] \in Nat /\ Num[r] <= Num[b]
  BY AncestryBelow, TreeAssumption
<1>2. \A c \in Ancestry[h] : Num[c] \in Nat
  BY AncestryEnds, TreeAssumption
<1>3. ASSUME NEW c \in Ancestry[h], Num[c] > Num[b] PROVE Num[c] > Num[r]
  BY <1>1, <1>2, <1>3
<1>4. QED
  BY <1>1, <1>3, AncestryLinear DEF Above

\* The blocks above r up to a number are the blocks above r on the way to one block.
LEMMA AbovePrefix ==
    ASSUME NEW h \in Block, NEW r \in Ancestry[h], NEW n \in Nat
    PROVE  \E t \in Block : r \in Ancestry[t] /\ {c \in Above(h, r) : Num[c] <= n} = Above(t, r)
<1>1. r \in Block /\ Num[r] \in Nat /\ Num[h] \in Nat /\ r \in Ancestry[r] /\ Above(r, r) = {}
  BY AncestryBelow, AncestryEnds, AboveEmpty, TreeAssumption
<1>2. \A c \in Ancestry[h] : Num[c] \in Nat /\ Num[c] <= Num[h]
  BY AncestryBelow, AncestryEnds, TreeAssumption
<1>3. CASE n <= Num[r]
  <2>1. {c \in Above(h, r) : Num[c] <= n} = {}
    <3>1. ASSUME NEW c \in Ancestry[h], Num[c] > Num[r] PROVE ~(Num[c] <= n)
      BY <1>1, <1>2, <1>3, <3>1
    <3>2. QED
      BY <3>1 DEF Above
  <2>2. QED
    BY <1>1, <2>1
<1>4. CASE Num[h] <= n
  <2>1. {c \in Above(h, r) : Num[c] <= n} = Above(h, r)
    <3>1. ASSUME NEW c \in Ancestry[h] PROVE Num[c] <= n
      BY <1>1, <1>2, <1>4
    <3>2. QED
      BY <3>1 DEF Above
  <2>2. QED
    BY <2>1
<1>5. CASE Num[r] <= n /\ n <= Num[h]
  <2>1. PICK t \in Ancestry[h] : Num[t] = n /\ r \in Ancestry[t]
    BY <1>5, AncestryNumbers
  <2>2. t \in Block /\ Ancestry[t] \subseteq Ancestry[h]
    BY AncestryBelow, AncestryTransitive
  <2>3. ASSUME NEW c \in Ancestry[h] PROVE Num[c] <= n <=> c \in Ancestry[t]
    <3>1. c \in Ancestry[t] => Num[c] <= Num[t]
      BY <2>2, AncestryBelow
    <3>2. Num[c] <= Num[t] => c \in Ancestry[t]
      BY AncestryLinear
    <3>3. QED
      BY <2>1, <3>1, <3>2
  <2>4. {c \in Above(h, r) : Num[c] <= n} = Above(t, r)
    BY <2>2, <2>3 DEF Above
  <2>5. QED
    BY <2>1, <2>2, <2>4
<1>6. QED
  BY <1>1, <1>3, <1>4, <1>5

\* advance_root(id) takes, besides id, the blocks that do not build on id.
LEMMA OrphanedBlocks ==
    ASSUME IInv, NEW id \in index
    PROVE  \A b \in index : b \in Orphaned(id) <=> id \notin Ancestry[b]
<1> DEFINE rest == index \ {id}
           Q == Orphaned(id)
           Off == {b \in rest \cup {root} : id \notin Ancestry[b]}
<1>1. index \subseteq Received /\ index \subseteq Block /\ id \in Block
  BY DEF IInv, TypeOK, Received
<1>2. root \in Q /\ (\A c \in rest : Prev[c] \in Q => c \in Q)
  BY RemoveQueue DEF Orphaned
<1>3. id \notin Ancestry[root]
  <2>1. id \in Above(id, root) /\ root \in Block
    BY <1>1, BranchToRoot, AncestryEnds
  <2>2. Num[id] > Num[root]
    BY <2>1 DEF Above
  <2>3. QED
    BY <1>1, <2>1, <2>2, AncestryBelow, TreeAssumption
<1>4. Q \subseteq Off
  <2>1. Off \in SUBSET (rest \cup {root}) /\ root \in Off
    BY <1>3
  <2>2. \A c \in rest : Prev[c] \in Off => c \in Off
    BY <1>1, AncestryAssumption
  <2>3. QED
    <3> HIDE DEF Off
    <3> QED BY <2>1, <2>2, RemoveQueue DEF Orphaned
<1> HIDE DEF Q
<1> DEFINE S == {c \in Block : c \in rest /\ id \notin Ancestry[c] => c \in Q}
<1>5. Genesis \in S
  BY <1>1, TreeAssumption DEF Received
<1>6. ASSUME NEW c \in Received, Prev[c] \in S
      PROVE  c \in S
  <2>1. c \in Block /\ Ancestry[c] = {c} \cup Ancestry[Prev[c]]
    BY AncestryAssumption DEF Received
  <2>2. SUFFICES ASSUME c \in rest, id \notin Ancestry[c] PROVE c \in Q
    BY <2>1
  <2>3. id \notin Ancestry[Prev[c]] /\ Prev[c] \in index \cup {root}
    BY <2>1, <2>2 DEF IInv, OneTree, Linkable
  <2>4. Prev[c] # id
    BY <1>1, <2>3, AncestryEnds
  <2>5. Prev[c] \in Q
    BY <1>2, <1>6, <2>3, <2>4
  <2>6. QED
    BY <1>2, <2>2, <2>5
<1>7. Block \subseteq S
  <2> HIDE DEF S
  <2> QED BY <1>5, <1>6, TreeInduction
<1>8. ASSUME NEW b \in index PROVE b \in Q <=> id \notin Ancestry[b]
  <2>1. b \in Q => id \notin Ancestry[b]
    BY <1>4
  <2>2. id \notin Ancestry[b] => b \in Q
    BY <1>1, <1>7, AncestryEnds
  <2>3. QED
    BY <2>1, <2>2
<1>9. QED
  BY <1>8 DEF Q

-----------------------------------------------------------------------------
(* log_irreversible.                                                       *)

\* With its head at the root the fork database has no validated block.
LEMMA HeadAtRoot ==
    ASSUME IInv, fork_head = root
    PROVE  validated = {} /\ (NoneBeats(index, fork_head) => index = {})
BY DEF IInv, TypeOK, OneTree, HeadIsBest, NoneBeats

\* What log_irreversible returns to when the log is complete.
LEMMA ReturnKeeps ==
    ASSUME UsageInv', Files', task.caller \in {"idle", "best_loop", "replay_rev"},
           task' = Return(task.caller), mode' = "speculative", ChainFrom(stack', LogHead', head'),
           Leads(validated', fork_head'), NoneBeats(index', fork_head'), Final(fork_head', LogHead'),
           \/ task.caller # "replay_rev" /\ fork_head' = head' /\ rbi' = Above(head', LogHead')
           \/ /\ task.caller = "replay_rev" /\ head' \in Ancestry[fork_head']
              /\ \E top \in Block : fork_head' \in Ancestry[top] /\ rbi' = Above(top, LogHead')
    PROVE  StoresInv'
<1>1. task'.op = task.caller
  BY TaskShapes
<1>2. CASE task.caller # "replay_rev"
  <2>1. Settled' /\ NoneBeats(index', head')
    BY <1>2 DEF Settled
  <2>2. IdleInv' /\ LoopInv'
    BY <2>1 DEF IdleInv, LoopInv
  <2>3. QED
    BY <1>1, <1>2, <2>2 DEF StoresInv, PhaseInv
<1>3. CASE task.caller = "replay_rev"
  <2>1. Replaying'
    BY <1>3 DEF Replaying
  <2>2. fork_head' = root' => index' = {}
    BY DEF UsageInv, IInv, OneTree, NoneBeats
  <2>3. ReplayRevInv'
    BY <2>1, <2>2 DEF ReplayRevInv
  <2>4. QED
    BY <1>1, <1>3, <2>3 DEF StoresInv, PhaseInv
<1>4. QED
  BY <1>2, <1>3

\* log_irreversible: its assertion holds, and what it fetches builds on the log.
LEMMA LogKeeps ==
    ASSUME UsageInv, UsageInv', StoresInv, log_irreversible
    PROVE  StoresInv'
<1>1. /\ task.op = "log" /\ LogInv /\ Files
      /\ UNCHANGED <<index, validated, root, fork_head, head, stack, rbi, blog, mode, bad, fork_file>>
  BY Zenon DEF log_irreversible, StoresInv, PhaseInv, fork_vars, chain_vars, node_vars
<1>2. /\ IInv /\ root = LogHead /\ head \in Block /\ fork_head \in Block /\ root \in Block
      /\ fork_head \in index \cup {root}
      /\ task.caller \in {"idle", "best_loop", "replay_rev"}
  BY <1>1, Known DEF Starting
<1>3. ChainFrom(stack, LogHead, head) /\ LogHead \in Ancestry[head] /\ root \in Ancestry[LogHead]
  BY <1>1, <1>2, ChainFacts, AncestryEnds DEF LogInv
<1>4. Files' /\ LogHead' = LogHead
  BY <1>1, FilesKept DEF Files
<1>5. PICK tip : tip = IF mode = "irreversible" THEN pending_head ELSE fork_head
  OBVIOUS
<1>6. PICK branch : branch = Oldest({b \in fetch_branch(tip) : Num[b] <= Lib[tip]})
  OBVIOUS
<1>7. task' = IF Lib[tip] <= Num[LogHead] THEN Return(task.caller)
              ELSE Task("append", branch, 0, <<>>, task.caller)
  BY <1>2, <1>5, <1>6 DEF log_irreversible
<1>8. tip \in index \cup {root}
  BY <1>2, <1>5, PendingHead
<1>9. CASE Lib[tip] <= Num[LogHead]
  <2>1. CASE AtLog
    <3>1. mode = "irreversible" /\ head = LogHead /\ fork_head = LogHead /\ task.caller = "idle"
      BY <2>1 DEF AtLog
    <3>2. rbi = {} /\ Above(head, LogHead) = {} /\ validated = {}
      BY <1>1, <1>2, <1>3, <3>1, AboveEmpty, HeadAtRoot DEF Files
    <3>3. task'.op = "idle"
      BY <1>2, <1>7, <1>9, <3>1, TaskShapes
    <3>4. IdleInv'
      BY <1>1, <1>3, <1>4, <3>1, <3>2 DEF IdleInv, Settled, Leads, Final
    <3>5. QED
      BY <1>4, <3>3, <3>4 DEF StoresInv, PhaseInv
  <2>2. CASE /\ BelowHead /\ head \in Ancestry[fork_head]
             /\ fork_head = head \/ (task.caller = "replay_rev" /\ Final(fork_head, LogHead))
    <3>1. /\ mode = "speculative" /\ Reversible /\ NoneBeats(index, fork_head) /\ Leads(validated, fork_head)
      BY <2>2 DEF BelowHead
    <3>2. Final(fork_head, LogHead)
      BY <1>5, <1>9, <3>1 DEF Final
    <3>3. \/ task.caller # "replay_rev" /\ fork_head = head /\ rbi = Above(head, LogHead)
          \/ /\ task.caller = "replay_rev" /\ head \in Ancestry[fork_head]
             /\ \E top \in Block : fork_head \in Ancestry[top] /\ rbi = Above(top, LogHead)
      BY <2>2, <3>1 DEF Reversible
    <3>4. task' = Return(task.caller)
      BY <1>7, <1>9
    <3>5. QED
      BY <1>1, <1>2, <1>3, <1>4, <3>1, <3>2, <3>3, <3>4, ReturnKeeps
  <2>3. QED
    BY <1>1, <2>1, <2>2 DEF LogInv
<1>10. CASE ~(Lib[tip] <= Num[LogHead])
  <2>1. /\ Links(branch, LogHead) /\ Elems(branch) \subseteq index
        /\ Last(branch) \in Ancestry[tip] /\ Num[Last(branch)] = Lib[tip]
    BY <1>2, <1>6, <1>8, <1>10, FetchedBranch, Zenon
  <2>2. task' = Task("append", branch, 0, <<>>, task.caller)
    BY <1>7, <1>10
  <2>3. task'.op = "append" /\ task'.todo = branch /\ task'.caller = task.caller
    BY <1>2, <2>2, TaskParts
  <2>4. CASE AtLog
    <3>1. AtLog' /\ validated' = {}
      BY <1>1, <1>2, <1>4, <2>3, <2>4, HeadAtRoot DEF AtLog
    <3>2. AppendInv'
      BY <1>1, <1>3, <1>4, <2>1, <2>3, <3>1 DEF AppendInv
    <3>3. QED
      BY <1>4, <2>3, <3>2 DEF StoresInv, PhaseInv
  <2>5. CASE /\ BelowHead /\ head \in Ancestry[fork_head]
             /\ fork_head = head \/ (task.caller = "replay_rev" /\ Final(fork_head, LogHead))
    <3>1. tip = fork_head
      BY <1>5, <2>5 DEF BelowHead
    <3>2. fork_head = head
      <4>1. CASE fork_head = LogHead
        <5>1. Num[head] <= Num[LogHead] /\ Num[LogHead] <= Num[head]
          BY <1>2, <1>3, <2>5, <4>1, AncestryBelow
        <5>2. Num[LogHead] = Num[head] /\ head \in Ancestry[head]
          BY <1>2, <5>1, TreeAssumption, AncestryEnds
        <5>3. QED
          BY <1>2, <1>3, <4>1, <5>2, AncestryUnique
      <4>2. QED
        BY <1>10, <2>5, <3>1, <4>1 DEF Final
    <3>3. BelowHead'
      BY <1>1, <1>4, <2>3, <2>5 DEF BelowHead, Reversible
    <3>4. AppendInv'
      BY <1>1, <1>3, <1>4, <2>1, <2>3, <3>1, <3>2, <3>3 DEF AppendInv
    <3>5. QED
      BY <1>4, <2>3, <3>4 DEF StoresInv, PhaseInv
  <2>6. QED
    BY <1>1, <2>4, <2>5 DEF LogInv
<1>11. QED
  BY <1>9, <1>10

\* What one more block of the log changes in the log.
LEMMA LogGrows ==
    ASSUME LogIsChain, NEW b \in Received, Prev[b] = LogHead, blog' = Append(blog, b)
    PROVE  LogHead' = b /\ Elems(blog') = Elems(blog) \cup {b}
BY ChainAppend DEF LogIsChain, LogHead

\* The blocks still to be logged, one less.
LEMMA AppendGoesOn ==
    ASSUME UsageInv, task.op = "append", NEW b, b = Head(task.todo), Elems(task.todo) \subseteq index, index' = index,
           Files', LogHead' = b, ChainFrom(stack', b, head'), root' \in Ancestry[b],
           task' = IF Len(task.todo) = 1 THEN At("advance", task.caller)
                   ELSE [task EXCEPT !.todo = Tail(@)],
           \/ AtLog' /\ validated' \subseteq Ancestry[b]
           \/ /\ BelowHead' /\ fork_head' = head'
              /\ Last(task.todo) \in Ancestry[head'] /\ Num[Last(task.todo)] = Lib[head']
    PROVE  StoresInv'
<1>1. /\ Links(task.todo, LogHead) /\ task.todo \in Seq(Block) /\ TaskShape(task)
      /\ task.caller \in {"idle", "best_loop", "replay_rev"}
  BY Known DEF UsageInv, RootInv
<1>2. CASE Len(task.todo) = 1
  <2>1. task'.op = "advance" /\ task'.todo = <<>>
    BY <1>1, <1>2, TaskShapes, TaskParts
  <2>2. Last(task.todo) = b
    BY <1>1, <1>2, LinksEnds
  <2>3. BelowHead' /\ Num[Last(task.todo)] = Lib[head'] => Final(head', LogHead')
    <3>1. b \in Block
      BY <1>1, LinksEnds DEF Received
    <3>2. QED
      BY <2>2, <3>1, TreeAssumption DEF Final
  <2>4. AdvanceInv'
    BY <2>1, <2>3 DEF AdvanceInv
  <2>5. QED
    BY <2>1, <2>4 DEF StoresInv, PhaseInv
<1>3. CASE Len(task.todo) # 1
  <2>1. task'.op = "append" /\ task'.todo = Tail(task.todo) /\ task'.caller = task.caller
    BY <1>1, <1>3, TaskExceptParts
  <2>2. Last(Tail(task.todo)) = Last(task.todo) /\ Elems(Tail(task.todo)) \subseteq index
    BY <1>1, <1>3, ChainTail
  <2>3. AppendInv'
    BY <2>1, <2>2 DEF AppendInv
  <2>4. QED
    BY <2>1, <2>3 DEF StoresInv, PhaseInv
<1>4. QED
  BY <1>2, <1>3

\* One block more in the log: in irreversible mode it is applied there, otherwise the undo
\* session and the reversible block it had go.
LEMMA AppendKeeps ==
    ASSUME UsageInv, StoresInv, append_irreversible
    PROVE  StoresInv'
<1>1. task.op = "append" /\ AppendInv /\ Files /\ LogIsChain /\ Links(task.todo, LogHead)
  BY DEF append_irreversible, StoresInv, PhaseInv, UsageInv, RootInv
<1>2. PICK b : b = Head(task.todo)
  OBVIOUS
<1>3. /\ ChainFrom(stack, LogHead, head) /\ root \in Ancestry[LogHead] /\ Elems(task.todo) \subseteq index
      /\ LogHead \in Ancestry[head]
  BY <1>1, ChainFacts DEF AppendInv
<1>4. /\ IInv /\ head \in Block /\ fork_head \in Block /\ root \in Block /\ LogHead \in Block /\ TaskShape(task)
      /\ task.todo \in Seq(Block) /\ fork_head \in validated \cup {root} /\ root \notin index
      /\ task.caller \in {"idle", "best_loop", "replay_rev"} /\ "idle" \in {"idle", "best_loop", "replay_rev"}
  BY Known
<1>5. /\ b \in Received /\ b \in Block /\ Prev[b] = LogHead /\ b \in index /\ b \in Ancestry[Last(task.todo)]
      /\ Last(task.todo) \in Block
  <2>1. /\ b \in Received /\ Prev[b] = LogHead /\ b \in Elems(task.todo) /\ Last(task.todo) \in Received
        /\ Elems(task.todo) = Above(Last(task.todo), LogHead)
    BY <1>1, <1>2, <1>4, LinksEnds
  <2>2. QED
    BY <1>3, <2>1 DEF Above, Received
<1>6. LogHead \in Ancestry[b] /\ root \in Ancestry[b] /\ b \in Ancestry[b] /\ Num[b] > Num[LogHead]
  BY <1>3, <1>5, AncestryEnds, AncestryPrev, AncestryTransitive, ChildPreferred, TreeAssumption
<1>7. CASE AtLog /\ validated \subseteq Ancestry[LogHead]
  <2>1. mode = "irreversible" /\ head = LogHead /\ fork_head = LogHead /\ task.caller = "idle" /\ rbi = {}
    BY <1>1, <1>7 DEF AtLog, Files
  <2>2. ApplyFails(b) = "none"
    <3>1. ~Stores
      BY <2>1 DEF Stores
    <3>2. QED
      BY <1>3, <1>5, <2>1, <3>1, ApplySucceeds
  <2>3. CASE Rejects(b)
    <3>1. /\ task' = Task("advance", <<b>>, 0, <<>>, "idle")
          /\ UNCHANGED <<index, validated, root, fork_head, head, stack, rbi, blog, mode, bad, fork_file>>
      BY <1>2, <2>1, <2>3 DEF append_irreversible, fork_vars, chain_vars, node_vars
    <3>2. task'.op = "advance" /\ task'.caller = "idle"
      BY <3>1, TaskParts
    <3>3. Files' /\ LogHead' = LogHead
      BY <1>1, <3>1, FilesKept DEF Files
    <3>4. AdvanceInv'
      BY <1>3, <1>7, <2>1, <3>1, <3>2, <3>3 DEF AdvanceInv, AtLog
    <3>5. QED
      BY <3>2, <3>3, <3>4 DEF StoresInv, PhaseInv
  <2>4. CASE ~Rejects(b)
    <3>1. /\ b \notin validated => mark_valid(b)
          /\ head' = b /\ stack' = Commit(Append(stack, b), Num[b]) /\ blog' = Append(blog, b)
          /\ rbi' = Trim(Num[b]) /\ UNCHANGED <<mode, bad, fork_file>> /\ b \notin bad
          /\ task' = IF Len(task.todo) = 1 THEN At("advance", task.caller)
                     ELSE [task EXCEPT !.todo = Tail(@)]
      BY <1>2, <2>1, <2>2, <2>4 DEF append_irreversible, node_vars, Rejects, LoggedRevision
    <3>2. LogHead' = b /\ Elems(blog') = Elems(blog) \cup {b}
      BY <1>1, <1>5, <3>1, LogGrows
    <3>3. /\ b \notin validated /\ validated' = validated \cup {b} /\ fork_head' = b /\ index' = index
          /\ root' = root
      <4>1. first_preferred(b, fork_head)
        BY <1>5, <2>1, ChildPreferred
      <4>2. b \notin validated /\ HeadAfterMark(validated \cup {b}, fork_head) = b
        BY <1>4, <1>5, <4>1, MarkMoves, Zenon
      <4>3. QED
        BY <3>1, <4>2, Zenon DEF mark_valid
    <3>4. ChainFrom(stack', b, b)
      <4>1. ChainFrom(Append(stack, b), LogHead, b)
        BY <1>3, <1>5, <2>1, ChainGrows
      <4>2. Num[b] >= Num[LogHead]
        BY <1>4, <1>5, <1>6, TreeAssumption
      <4>3. QED
        BY <1>6, <3>1, <4>1, <4>2, ChainCommits
    <3>5. rbi' = {} /\ Above(b, b) = {}
      BY <1>5, <1>6, <2>1, <3>1, AboveEmpty DEF Trim
    <3>6. Files'
      BY <1>1, <1>5, <1>6, <3>1, <3>2, <3>3, <3>5 DEF Files
    <3>7. validated' \subseteq Ancestry[b]
      BY <1>4, <1>5, <1>6, <1>7, <3>3, AncestryTransitive
    <3>8. AtLog'
      <4>1. task'.caller = "idle"
        BY <1>4, <2>1, <3>1, TaskParts, TaskExceptParts
      <4>2. QED
        BY <2>1, <3>1, <3>2, <3>3, <4>1 DEF AtLog
    <3>9. QED
      BY <1>1, <1>2, <1>3, <1>6, <3>1, <3>2, <3>3, <3>4, <3>6, <3>7, <3>8, AppendGoesOn
  <2>5. QED
    BY <2>3, <2>4
<1>8. CASE /\ BelowHead /\ fork_head = head
           /\ Last(task.todo) \in Ancestry[head] /\ Num[Last(task.todo)] = Lib[head]
  <2>1. mode = "speculative" /\ Reversible /\ NoneBeats(index, fork_head) /\ Leads(validated, fork_head)
    BY <1>8 DEF BelowHead
  <2>2. /\ UNCHANGED <<index, validated, root, fork_head, head, mode, bad, fork_file>>
        /\ stack' = Commit(stack, Num[b]) /\ blog' = Append(blog, b) /\ rbi' = Trim(Num[b])
        /\ task' = IF Len(task.todo) = 1 THEN At("advance", task.caller)
                   ELSE [task EXCEPT !.todo = Tail(@)]
    BY <1>2, <2>1 DEF append_irreversible, node_vars, fork_vars, LoggedRevision
  <2>3. LogHead' = b /\ Elems(blog') = Elems(blog) \cup {b}
    BY <1>1, <1>5, <2>2, LogGrows
  <2>4. b \in Ancestry[head] /\ Num[b] >= Num[LogHead]
    BY <1>4, <1>5, <1>6, <1>8, AncestryTransitive, TreeAssumption
  <2>5. ChainFrom(stack', b, head')
    BY <1>3, <2>2, <2>4, ChainCommits
  <2>6. b \notin bad
    <3>1. b \in validated \cup {root}
      BY <1>4, <1>6, <1>8, <2>4, ValidatedBranch
    <3>2. QED
      BY <1>1, <1>4, <1>5, <3>1 DEF Files
  <2>7. task'.caller = task.caller
    BY <1>4, <2>2, TaskParts, TaskExceptParts
  <2>8. ASSUME NEW top \in Block, head \in Ancestry[top], rbi = Above(top, LogHead)
        PROVE  rbi' = Above(top, b) /\ b \in Ancestry[top]
    <3>1. LogHead \in Ancestry[top] /\ b \in Ancestry[top]
      BY <1>3, <2>4, <2>8, AncestryTransitive
    <3>2. QED
      BY <2>2, <2>4, <2>8, <3>1, AboveTrim DEF Trim
  <2>9. Reversible' /\ \E top \in Block : b \in Ancestry[top] /\ rbi' = Above(top, b)
    <3>1. CASE task.caller = "replay_rev"
      <4>1. PICK top \in Block : fork_head \in Ancestry[top] /\ rbi = Above(top, LogHead)
        BY <2>1, <3>1 DEF Reversible
      <4>2. rbi' = Above(top, b) /\ b \in Ancestry[top]
        BY <1>8, <2>8, <4>1
      <4>3. QED
        BY <2>2, <2>3, <2>7, <3>1, <4>1, <4>2 DEF Reversible
    <3>2. CASE task.caller # "replay_rev"
      <4>1. rbi' = Above(head, b) /\ b \in Ancestry[head]
        BY <1>4, <2>1, <2>8, <3>2, AncestryEnds DEF Reversible
      <4>2. QED
        BY <1>4, <2>2, <2>3, <2>7, <3>2, <4>1 DEF Reversible
    <3>3. QED
      BY <3>1, <3>2
  <2>10. Files'
    <3>1. rbi' \subseteq rbi
      BY <2>2 DEF Trim
    <3>2. QED
      BY <1>1, <2>1, <2>2, <2>3, <2>6, <2>9, <3>1 DEF Files
  <2>11. BelowHead'
    BY <2>1, <2>2, <2>9 DEF BelowHead
  <2>12. QED
    BY <1>1, <1>2, <1>3, <1>6, <1>8, <2>2, <2>3, <2>5, <2>10, <2>11, AppendGoesOn
<1>9. QED
  BY <1>1, <1>7, <1>8 DEF AppendInv

\* After the log the root: the last block of the log is validated and the head builds on it.
LEMMA AdvanceKeeps ==
    ASSUME UsageInv, UsageInv', StoresInv, advance_after_log
    PROVE  StoresInv'
<1>1. task.op = "advance" /\ AdvanceInv /\ Files
  BY Zenon DEF advance_after_log, StoresInv, PhaseInv
<1>2. /\ ChainFrom(stack, LogHead, head) /\ root \in Ancestry[LogHead] /\ LogHead \in Ancestry[head]
      /\ fork_head = head
  BY <1>1, ChainFacts, AncestryEnds DEF AdvanceInv, AtLog
<1>3. /\ IInv /\ IInv' /\ head \in Block /\ fork_head \in Block /\ root \in Block /\ LogHead \in Block
      /\ fork_head \in validated \cup {root} /\ validated \subseteq index
      /\ task.caller \in {"idle", "best_loop", "replay_rev"}
  BY Known DEF UsageInv
<1>4. ASSUME LogHead # root PROVE LogHead \in validated /\ fork_head \notin Orphaned(LogHead)
  <2>1. LogHead \in validated
    BY <1>2, <1>3, <1>4, ValidatedBranch
  <2>2. fork_head # root
    <3>1. ASSUME fork_head = root PROVE FALSE
      <4>1. Num[LogHead] <= Num[root] /\ Num[root] <= Num[LogHead]
        BY <1>2, <1>3, <3>1, AncestryBelow
      <4>2. Num[LogHead] = Num[root] /\ LogHead \in Ancestry[LogHead]
        BY <1>3, <4>1, TreeAssumption, AncestryEnds
      <4>3. QED
        BY <1>2, <1>3, <1>4, <4>2, AncestryUnique
    <3>2. QED
      BY <3>1
  <2>3. QED
    BY <1>2, <1>3, <2>1, <2>2, OrphanedBlocks
<1>5. /\ UNCHANGED <<fork_head, head, stack, rbi, blog, mode, bad, fork_file>>
      /\ index' \subseteq index /\ validated' \subseteq validated /\ root' = LogHead
      /\ task' = IF task.todo = <<>> THEN Return(task.caller) ELSE Thrown(task.caller)
  <2>1. /\ IF MustAdvance THEN Advance ELSE UNCHANGED fork_vars
        /\ task' = IF task.todo = <<>> THEN Return(task.caller) ELSE Thrown(task.caller)
        /\ UNCHANGED <<head, stack, rbi, blog, mode, bad, fork_file>>
    BY <1>4, Zenon DEF advance_after_log, MustAdvance, chain_vars, node_vars
  <2>2. QED
    BY <2>1 DEF MustAdvance, Advance, advance_root, fork_vars
<1>6. Files' /\ LogHead' = LogHead
  BY <1>1, <1>5, FilesKept DEF Files
<1>7. CASE AtLog
  <2>1. mode = "irreversible" /\ head = LogHead /\ fork_head = LogHead /\ task.caller = "idle" /\ rbi = {}
    BY <1>1, <1>7 DEF AtLog, Files
  <2>2. task'.op = "idle"
    BY <1>3, <1>5, <2>1, TaskShapes DEF Thrown
  <2>3. validated' = {}
    BY <1>3, <1>5, <2>1 DEF IInv, TypeOK, OneTree, HeadIsBest
  <2>4. Above(head, LogHead) = {}
    BY <1>2, <1>3, <2>1, AboveEmpty
  <2>5. IdleInv'
    BY <1>2, <1>5, <1>6, <2>1, <2>3, <2>4 DEF IdleInv, Settled, Leads, Final
  <2>6. QED
    BY <1>6, <2>2, <2>5 DEF StoresInv, PhaseInv
<1>8. CASE BelowHead /\ task.todo = <<>> /\ Final(head, LogHead)
  <2>1. mode = "speculative" /\ Reversible /\ NoneBeats(index, fork_head) /\ Leads(validated, fork_head)
    BY <1>8 DEF BelowHead
  <2>2. NoneBeats(index', fork_head') /\ Leads(validated', fork_head')
    BY <1>5, <2>1 DEF NoneBeats, Leads
  <2>3. \/ task.caller # "replay_rev" /\ fork_head' = head' /\ rbi' = Above(head', LogHead')
        \/ /\ task.caller = "replay_rev" /\ head' \in Ancestry[fork_head']
           /\ \E top \in Block : fork_head' \in Ancestry[top] /\ rbi' = Above(top, LogHead')
    BY <1>2, <1>3, <1>5, <1>6, <2>1, AncestryEnds DEF Reversible
  <2>4. task' = Return(task.caller)
    BY <1>5, <1>8
  <2>5. QED
    BY <1>2, <1>3, <1>5, <1>6, <1>8, <2>1, <2>2, <2>3, <2>4, ReturnKeeps, Zenon
<1>9. QED
  BY <1>1, <1>7, <1>8 DEF AdvanceInv

-----------------------------------------------------------------------------
(* Stopping and starting.                                                  *)

\* A chain of one block.
LEMMA SingleChain ==
    ASSUME NEW h \in Block
    PROVE  /\ ChainFrom(<<h>>, h, h) /\ Head(<<h>>) = h /\ Len(<<h>>) = 1
           /\ \A b : Append(Front(<<h>>), b) = <<b>>
<1>1. <<h>> \in Seq(Block) /\ <<h>> # <<>> /\ Head(<<h>>) = h /\ Len(<<h>>) = 1 /\ <<h>>[1] = h
  OBVIOUS
<1>2. IsChain(<<h>>)
  BY <1>1 DEF IsChain
<1>3. Last(<<h>>) = h
  BY <1>1 DEF Last
<1>4. Front(<<h>>) = <<>>
  BY <1>1 DEF Front
<1>5. ASSUME NEW b PROVE Append(Front(<<h>>), b) = <<b>>
  <2>1. Append(<<>>, b) = <<b>>
    OBVIOUS
  <2>2. QED
    BY <1>4, <2>1
<1>6. ChainFrom(<<h>>, h, h)
  BY <1>1, <1>2, <1>3 DEF ChainFrom
<1>7. QED
  BY <1>1, <1>5, <1>6

\* A clean shutdown leaves files that agree.
LEMMA ShutdownKeeps ==
    ASSUME UsageInv, StoresInv, shutdown
    PROVE  StoresInv'
<1>1. /\ task.op = "idle" /\ IdleInv /\ Files /\ Settled /\ task' = Down
      /\ UNCHANGED <<index, validated, root, fork_head, head, stack, rbi, blog, mode, bad, fork_file>>
  BY DEF shutdown, StoresInv, PhaseInv, IdleInv, fork_vars, chain_vars, node_vars
<1>2. root = LogHead /\ "idle" \in {"idle", "best_loop", "replay_rev"}
  BY <1>1, Known DEF Starting
<1>3. task'.op = "down"
  BY <1>1, <1>2, TaskShapes
<1>4. Files' /\ LogHead' = LogHead
  BY <1>1, FilesKept DEF Files
<1>5. Settled'
  BY <1>1, SettledKept
<1>6. Written' /\ (mode' = "irreversible" => fork_head' = root') /\ fork_file' = TRUE
  BY <1>1, <1>2, <1>4, <1>5 DEF Written, Settled, IdleInv, Files
<1>7. DownInv'
  BY <1>5, <1>6 DEF DownInv, Settled
<1>8. QED
  BY <1>3, <1>4, <1>7 DEF StoresInv, PhaseInv

\* The reversible blocks above the log are a part of one branch.
LEMMA AboveLog ==
    ASSUME Files
    PROVE  \E top \in Block : LogHead \in Ancestry[top] /\ Trim(Num[LogHead]) = Above(top, LogHead)
<1>1. ASSUME NEW top \in Block, rbi = Above(top, LogHead) PROVE Trim(Num[LogHead]) = Above(top, LogHead)
  BY <1>1 DEF Trim, Above
<1>2. QED
  BY <1>1 DEF Files

\* A crash leaves a block log l ends and a part of the reversible blocks that builds on it.
LEMMA CrashLeaves ==
    ASSUME UsageInv, StoresInv, NEW log, LoseState(log), LogIsChain', Elems(blog') \cap bad = {},
           NEW l, LogHead' = l, NEW top \in Block, l \in Ancestry[top], Trim(Num[l]) = Above(top, l)
    PROVE  StoresInv'
<1>1. /\ Files /\ task' = Down /\ stack' = <<>> /\ fork_file' = FALSE /\ reset(Genesis)
      /\ UNCHANGED <<mode, bad>>
      /\ \E n \in {0} \cup {Num[b] : b \in rbi} : rbi' = {b \in rbi : Num[b] <= n}
  BY DEF LoseState, StoresInv
<1>2. task'.op = "down"
  <2>1. "idle" \in {"idle", "best_loop", "replay_rev"}
    OBVIOUS
  <2>2. QED
    BY <1>1, <2>1, TaskShapes
<1>3. \E t \in Block : l \in Ancestry[t] /\ Trim(Num[l])' = Above(t, l)
  <2>1. PICK n \in {0} \cup {Num[b] : b \in rbi} : rbi' = {b \in rbi : Num[b] <= n}
    BY <1>1
  <2>2. n \in Nat
    <3>1. rbi \subseteq Block
      BY DEF UsageInv, TypeInv, Bounded, Received
    <3>2. QED
      BY <3>1, TreeAssumption
  <2>3. Trim(Num[l])' = {c \in Above(top, l) : Num[c] <= n}
    <3>1. Trim(Num[l])' = {b \in rbi' : Num[b] > Num[l]} /\ Above(top, l) = {b \in rbi : Num[b] > Num[l]}
      BY DEF Trim
    <3>2. QED
      BY <2>1, <3>1
  <2>4. QED
    BY <2>2, <2>3, AbovePrefix
<1>4. Files'
  <2>1. rbi' \subseteq rbi /\ validated' = {}
    BY <1>1 DEF reset
  <2>2. Elems(blog)' = Elems(blog')
    BY DEF Elems
  <2>3. QED
    BY <1>1, <1>2, <1>3, <2>1, <2>2, Zenon DEF Files
<1>5. Fresh' /\ root' = Genesis /\ fork_head' = root'
  <2>1. Genesis \in Elems(blog)'
    BY DEF LogIsChain, Elems
  <2>2. QED
    BY <1>1, <2>1 DEF Fresh, reset
<1>6. DownInv'
  BY <1>1, <1>5 DEF DownInv
<1>7. QED
  BY <1>2, <1>4, <1>6 DEF StoresInv, PhaseInv

\* A crash between two steps.
LEMMA CrashKeeps ==
    ASSUME UsageInv, StoresInv, LoseState(blog)
    PROVE  StoresInv'
<1>1. /\ Files /\ LogIsChain /\ blog' = blog
  BY DEF LoseState, StoresInv, UsageInv, RootInv
<1>2. LogHead' = LogHead /\ LogIsChain'
  BY <1>1, SameLog
<1>3. PICK top \in Block : LogHead \in Ancestry[top] /\ Trim(Num[LogHead]) = Above(top, LogHead)
  BY <1>1, AboveLog
<1>4. Elems(blog') \cap bad = {}
  BY <1>1 DEF Files
<1>5. QED
  BY <1>2, <1>3, <1>4, CrashLeaves

\* A crash with a block both in the log and among the reversible blocks.
LEMMA CrashLoggedKeeps ==
    ASSUME UsageInv, StoresInv, crash_logged
    PROVE  StoresInv'
<1>1. task.op = "append" /\ AppendInv /\ Files /\ LogIsChain /\ Links(task.todo, LogHead)
  BY DEF crash_logged, StoresInv, PhaseInv, UsageInv, RootInv
<1>2. PICK b : b = Head(task.todo)
  OBVIOUS
<1>3. LoseState(Append(blog, b)) /\ blog' = Append(blog, b) /\ (mode = "irreversible" => b \notin bad)
  BY <1>2 DEF crash_logged, LoseState, Rejects
<1>4. LogHead \in Block /\ head \in Block /\ root \in Block /\ fork_head \in Block /\ IInv /\ task.todo \in Seq(Block)
  BY Known
<1>5. /\ b \in Received /\ b \in Block /\ Prev[b] = LogHead /\ b \in index /\ b \in Ancestry[Last(task.todo)]
      /\ LogHead \in Ancestry[head] /\ root \in Ancestry[LogHead] /\ Last(task.todo) \in Block
  <2>1. /\ b \in Received /\ Prev[b] = LogHead /\ b \in Elems(task.todo) /\ Last(task.todo) \in Received
        /\ Elems(task.todo) = Above(Last(task.todo), LogHead)
    BY <1>1, <1>2, <1>4, LinksEnds
  <2>2. QED
    BY <1>1, <2>1, ChainFacts DEF AppendInv, Above, Received
<1>6. LogHead \in Ancestry[b] /\ root \in Ancestry[b] /\ b \in Ancestry[b] /\ Num[b] > Num[LogHead]
  BY <1>4, <1>5, AncestryEnds, AncestryPrev, AncestryTransitive, ChildPreferred, TreeAssumption
<1>7. LogIsChain' /\ LogHead' = b /\ Elems(blog') = Elems(blog) \cup {b}
  <2>1. blog \in Seq(Block) /\ blog # <<>> /\ IsChain(blog) /\ Head(blog) = Genesis /\ LogHead = Last(blog)
    BY <1>1 DEF LogIsChain, LogHead
  <2>2. blog' \in Seq(Block) /\ blog' # <<>> /\ IsChain(blog') /\ Head(blog') = Genesis
    BY <1>3, <1>5, <2>1, ChainAppend
  <2>3. QED
    BY <1>1, <1>3, <1>5, <2>2, LogGrows DEF LogIsChain
<1>8. b \notin bad /\ \E top \in Block : b \in Ancestry[top] /\ Trim(Num[b]) = Above(top, b)
  <2>1. CASE AtLog
    <3>1. mode = "irreversible" /\ rbi = {}
      BY <1>1, <2>1 DEF AtLog, Files
    <3>2. Trim(Num[b]) = {} /\ Above(b, b) = {}
      BY <1>5, <1>6, <3>1, AboveEmpty DEF Trim
    <3>3. QED
      BY <1>3, <1>5, <1>6, <3>1, <3>2
  <2>2. CASE BelowHead /\ fork_head = head /\ Last(task.todo) \in Ancestry[head]
    <3>1. b \in Ancestry[head] /\ Num[b] >= Num[LogHead]
      BY <1>4, <1>5, <1>6, <2>2, AncestryTransitive, TreeAssumption
    <3>2. b \notin bad
      <4>1. b \in validated \cup {root}
        BY <1>4, <1>6, <2>2, <3>1, Known, ValidatedBranch
      <4>2. root \notin index
        BY Known
      <4>3. QED
        BY <1>1, <1>5, <4>1, <4>2 DEF Files
    <3>3. PICK top \in Block : head \in Ancestry[top] /\ rbi = Above(top, LogHead)
      BY <1>4, <2>2, AncestryEnds DEF BelowHead, Reversible
    <3>4. LogHead \in Ancestry[top] /\ b \in Ancestry[top]
      BY <1>5, <3>1, <3>3, AncestryTransitive
    <3>5. Trim(Num[b]) = Above(top, b)
      BY <3>1, <3>3, <3>4, AboveTrim DEF Trim
    <3>6. QED
      BY <3>2, <3>4, <3>5
  <2>3. QED
    BY <1>1, <2>1, <2>2 DEF AppendInv
<1>9. Elems(blog') \cap bad = {}
  BY <1>1, <1>7, <1>8 DEF Files
<1>10. QED
  BY <1>3, <1>7, <1>8, <1>9, CrashLeaves

\* With the chain state removed the other files still agree.
LEMMA ReplayBlockchainKeeps ==
    ASSUME UsageInv, StoresInv, replay_blockchain
    PROVE  StoresInv'
<1>1. /\ task.op = "down" /\ DownInv /\ Files /\ stack # <<>> /\ stack' = <<>>
      /\ UNCHANGED <<index, validated, root, fork_head, head, rbi, blog, mode, bad, fork_file, task>>
  BY DEF replay_blockchain, StoresInv, PhaseInv, fork_vars, node_vars
<1>2. LogHead' = LogHead
  BY <1>1 DEF LogHead
<1>3. Files'
  BY <1>1, <1>2 DEF Files, Trim
<1>4. Written => Written'
  BY <1>1, <1>2 DEF Written
<1>5. Fresh => Fresh'
  BY <1>1 DEF Fresh
<1>6. DownInv'
  BY <1>1, <1>4, <1>5 DEF DownInv
<1>7. QED
  BY <1>1, <1>3, <1>6 DEF StoresInv, PhaseInv

\* startup takes up a head the files know.
LEMMA StartupKeeps ==
    ASSUME UsageInv, StoresInv, NEW m \in {"speculative", "irreversible"}, startup(m)
    PROVE  StoresInv'
<1>1. /\ task.op = "down" /\ DownInv /\ Files /\ LogIsChain /\ mode' = m /\ fork_file' = TRUE
      /\ head' = IF stack = <<>> THEN Genesis ELSE fork_head'
      /\ stack' = IF stack = <<>> THEN <<Genesis>> ELSE stack
      /\ task' = At("init", "idle") /\ UNCHANGED <<rbi, blog, bad>>
  BY DEF startup, StoresInv, PhaseInv, UsageInv, RootInv
<1>2. LogHead' = LogHead
  BY <1>1, SameLog
<1>3. task'.op = "init"
  <2>1. "idle" \in {"idle", "best_loop", "replay_rev"}
    OBVIOUS
  <2>2. QED
    BY <1>1, <2>1, TaskShapes
<1>4. validated' \subseteq validated
  BY DEF startup, reset, rollback_head_to_root, fork_vars
<1>5. Files'
  BY <1>1, <1>2, <1>3, <1>4 DEF Files, Trim
<1>6. fork_file \in BOOLEAN
  BY <1>1 DEF Files
<1>7. CASE fork_file = FALSE
  <2>1. reset(Genesis) /\ stack = <<>>
    BY <1>1, <1>7 DEF startup, DownInv
  <2>2. Genesis \in Elems(blog)
    BY <1>1 DEF LogIsChain, Elems
  <2>3. Fresh' /\ fork_head' = root'
    BY <1>1, <2>1, <2>2 DEF Fresh, reset
  <2>4. InitInv'
    BY <1>1, <2>1, <2>3 DEF InitInv
  <2>5. QED
    BY <1>3, <1>5, <2>4 DEF StoresInv, PhaseInv
<1>8. CASE fork_file = TRUE /\ RollsBack(m)
  <2>1. rollback_head_to_root /\ m = "irreversible" /\ fork_head # root
    BY <1>8 DEF startup, RollsBack
  <2>2. Written /\ (stack = <<>> \/ ChainFrom(stack, LogHead, fork_head))
    BY <1>1, <2>1 DEF DownInv, Fresh
  <2>3. RolledBack' /\ fork_head' = root'
    BY <1>1, <1>2, <2>1, <2>2 DEF RolledBack, Written, rollback_head_to_root
  <2>4. fork_head \in Block
    BY Known
  <2>5. InitInv'
    BY <1>1, <1>2, <2>2, <2>3, <2>4 DEF InitInv
  <2>6. QED
    BY <1>3, <1>5, <2>5 DEF StoresInv, PhaseInv
<1>9. CASE fork_file = TRUE /\ ~RollsBack(m)
  <2>1. UNCHANGED <<index, validated, root, fork_head>>
    BY <1>9 DEF startup, fork_vars
  <2>2. mode' = "irreversible" => fork_head' = root'
    BY <1>1, <1>9, <2>1 DEF RollsBack
  <2>3. Written => Written'
    BY <1>1, <1>2, <2>1 DEF Written
  <2>4. Fresh => Fresh'
    BY <1>1, <2>1 DEF Fresh
  <2>5. fork_head = root \/ ~Fresh
    BY DEF Fresh
  <2>6. InitInv'
    BY <1>1, <1>2, <2>1, <2>2, <2>3, <2>4, <2>5 DEF InitInv, DownInv
  <2>7. QED
    BY <1>3, <1>5, <2>6 DEF StoresInv, PhaseInv
<1>10. QED
  BY <1>6, <1>7, <1>8, <1>9, Zenon

\* The reversible blocks init keeps are those above the log, or it keeps none; a fork database
\* that was written out comes with no others.
LEMMA KeptBlocks ==
    ASSUME UsageInv, Files
    PROVE  /\ mode = "irreversible" => Kept = {}
           /\ mode # "irreversible" => /\ Kept = Trim(Num[LogHead])
                                       /\ Written => Kept = rbi
           /\ Kept \subseteq rbi
<1>1. rbi = Above(fork_head, LogHead) => Trim(Num[LogHead]) = rbi
  BY DEF Trim, Above
<1>2. QED
  BY <1>1 DEF Kept, Trim, Written

\* The assertions of init hold of the files the node left behind.
LEMMA InitAccepted ==
    ASSUME UsageInv, StoresInv, task.op = "init"
    PROVE  ~Refused
<1>1. InitInv /\ Files /\ LogIsChain /\ TypeInv /\ IInv /\ root \in Block /\ fork_head \in Block
      /\ index \subseteq Block
  BY Known DEF StoresInv, PhaseInv, UsageInv
<1>2. /\ LastNum \in Nat /\ Num[LogHead] \in Nat /\ LastNum >= Num[LogHead] /\ LogHead \in Block
      /\ \A b \in Kept : Num[b] \in Nat /\ Num[b] <= LastNum /\ Num[b] > Num[LogHead]
      /\ Kept # {} => \E b \in Kept : Num[b] = LastNum
  BY <1>1, LastNumBound
<1>3. /\ Genesis \in Elems(blog) /\ Num[Genesis] <= Num[LogHead] /\ Num[Genesis] \in Nat /\ Genesis \in Block
  <2>1. Genesis \in Elems(blog)
    BY <1>1 DEF LogIsChain, Elems
  <2>2. QED
    BY <1>1, <2>1, ChainTop
<1>4. Num[root] <= Num[LogHead] /\ Num[root] \in Nat
  <2>1. root \in Elems(blog) => Num[root] <= Num[LogHead]
    BY <1>1, ChainTop
  <2>2. Num[root] \in Nat
    BY <1>1, TreeAssumption
  <2>3. QED
    BY <1>1, <1>2, <2>1, <2>2 DEF InitInv, Written, Fresh, RolledBack
<1>5. ~(Revision < Num[head])
  <2>1. CASE stack = <<Genesis>> /\ head = Genesis
    <3>1. Revision = Num[Genesis] + 1 - 1
      BY <1>3, <2>1, SingleChain DEF Revision
    <3>2. QED
      BY <1>3, <2>1, <3>1
  <2>2. CASE ChainFrom(stack, LogHead, head)
    <3>1. Revision = Num[head] /\ Num[head] \in Nat
      BY <2>2, ChainFacts DEF Revision
    <3>2. QED
      BY <3>1
  <2>3. CASE RolledBack /\ head = root /\ \E h \in Block : ChainFrom(stack, LogHead, h)
    <3>1. PICK h \in Block : ChainFrom(stack, LogHead, h)
      BY <2>3
    <3>2. Revision = Num[h] /\ Num[LogHead] <= Num[h] /\ Num[h] \in Nat
      BY <3>1, ChainFacts DEF Revision
    <3>3. QED
      BY <1>2, <2>3, <3>2 DEF RolledBack
  <2>4. CASE stack = <<root>> /\ head = root
    <3>1. Revision = Num[root] + 1 - 1
      BY <1>1, <2>4, SingleChain DEF Revision
    <3>2. QED
      BY <1>4, <2>4, <3>1
  <2>5. QED
    BY <1>1, <2>1, <2>2, <2>3, <2>4 DEF InitInv
<1>6. ASSUME mode # "irreversible"
      PROVE  /\ ~(Num[head] > LastNum)
             /\ Kept # {} => /\ \E b \in Kept : Num[b] = Num[LogHead] + 1
                             /\ Num[LogHead] < Num[pending_head] => pending_head \in Kept
                             /\ ~(LastNum < Num[pending_head])
  <2>1. Kept = Trim(Num[LogHead]) /\ (Written => Kept = rbi) /\ (Written \/ Fresh) /\ ~RolledBack
    BY <1>1, <1>6, KeptBlocks DEF InitInv, RolledBack
  <2>2. Fresh => pending_head = root /\ ~(Num[LogHead] < Num[root])
    <3>1. Fresh => pending_head = root
      BY <1>1, PendingHead DEF Fresh
    <3>2. QED
      BY <1>2, <1>4, <3>1
  <2>3. ASSUME Written, fork_head # LogHead
        PROVE  pending_head = fork_head /\ fork_head \in Kept
    <3>1. rbi = Above(fork_head, LogHead) /\ NoneBeats(index, fork_head) /\ root = LogHead
      BY <2>3 DEF Written
    <3>2. pending_head = fork_head
      BY <1>1, <3>1, PendingHead DEF NoneBeats
    <3>3. fork_head \in Above(fork_head, LogHead)
      BY <1>1, <2>3, <3>1, AboveEmpty, Known
    <3>4. QED
      BY <2>1, <2>3, <3>1, <3>2, <3>3
  <2>4. ASSUME Written, fork_head = LogHead
        PROVE  Kept = {}
    <3>1. rbi = Above(LogHead, LogHead)
      BY <2>4 DEF Written
    <3>2. QED
      BY <1>2, <2>1, <2>4, <3>1, AboveEmpty, AncestryEnds
  <2>5. ~(Num[head] > LastNum)
    <3>1. CASE head = Genesis
      BY <1>2, <1>3, <3>1
    <3>2. CASE Written /\ head = fork_head
      <4>1. CASE fork_head = LogHead
        BY <1>2, <3>2, <4>1
      <4>2. CASE fork_head # LogHead
        BY <1>2, <2>3, <3>2, <4>2
      <4>3. QED
        BY <4>1, <4>2
    <3>3. CASE head = root
      BY <1>2, <1>4, <3>3
    <3>4. QED
      BY <1>1, <2>1, <3>1, <3>2, <3>3 DEF InitInv
  <2>6. ASSUME Kept # {} PROVE \E b \in Kept : Num[b] = Num[LogHead] + 1
    <3>1. PICK top \in Block : LogHead \in Ancestry[top] /\ Kept = Above(top, LogHead)
      BY <1>1, <2>1, AboveLog
    <3>2. PICK c \in Kept : TRUE
      BY <2>6
    <3>3. c \in Ancestry[top] /\ Num[c] > Num[LogHead] /\ c \in Block /\ Num[c] <= Num[top]
      BY <2>1, <3>1, <3>2, AncestryBelow DEF Above
    <3>4. PICK n : n = Num[LogHead] + 1
      OBVIOUS
    <3>5. n \in Nat /\ Num[LogHead] <= n /\ n <= Num[top] /\ n > Num[LogHead]
      BY <1>2, <3>3, <3>4, TreeAssumption
    <3>6. PICK b \in Ancestry[top] : Num[b] = n
      BY <3>1, <3>5, AncestryNumbers
    <3>7. QED
      BY <2>1, <3>1, <3>4, <3>5, <3>6 DEF Above
  <2>7. ASSUME Kept # {}, Num[LogHead] < Num[pending_head] PROVE pending_head \in Kept
    BY <2>1, <2>2, <2>3, <2>4, <2>7
  <2>8. ASSUME Kept # {} PROVE ~(LastNum < Num[pending_head])
    <3>1. CASE Fresh
      BY <1>2, <1>4, <2>2, <3>1
    <3>2. CASE Written
      BY <1>2, <2>3, <2>4, <2>8, <3>2
    <3>3. QED
      BY <2>1, <3>1, <3>2
  <2>9. QED
    BY <2>5, <2>6, <2>7, <2>8
<1>7. QED
  BY <1>2, <1>4, <1>5, <1>6 DEF Refused

\* With nothing left above the head, the replay has reached the head of the fork database.
LEMMA AllReplayed ==
    ASSUME NEW top \in Block, NEW f \in Ancestry[top], NEW h \in Ancestry[f], NEW l \in Ancestry[h],
           \A b \in Above(top, l) : Num[b] <= Num[h]
    PROVE  f = h /\ top = h
<1>1. f \in Block /\ h \in Block /\ l \in Block /\ Num[h] <= Num[f] /\ Num[f] <= Num[top] /\ Num[l] <= Num[h]
  BY AncestryBelow
<1>2. h \in Ancestry[top] /\ l \in Ancestry[top] /\ top \in Ancestry[top]
  BY <1>1, AncestryTransitive, AncestryEnds
<1>3. Num[top] <= Num[h]
  <2>1. CASE top = l
    BY <1>1, <2>1
  <2>2. CASE top # l
    BY <1>2, <2>2, AboveEmpty
  <2>3. QED
    BY <2>1, <2>2
<1>4. Num[h] = Num[top] /\ Num[f] = Num[top]
  BY <1>1, <1>3, TreeAssumption
<1>5. QED
  BY <1>2, <1>4, AncestryUnique

\* The replay of the reversible blocks starts on the last block of the log.
LEMMA ReplayStarts ==
    ASSUME UsageInv', Files', Written' \/ Fresh', root' = LogHead', ChainFrom(stack', LogHead', head'),
           head' \in Ancestry[fork_head'], mode' = "irreversible" => fork_head' = root',
           task'.op \notin {"down", "init"}
    PROVE  ReplayRevInv'
<1>1. /\ validated' \subseteq index' /\ fork_head' \in Block /\ root' \in Block
  BY DEF UsageInv, IInv, TypeOK
<1>2. CASE Written'
  <2>1. /\ Leads(validated', fork_head') /\ Final(fork_head', LogHead') /\ rbi' = Above(fork_head', LogHead')
        /\ fork_head' = root' \/ NoneBeats(index', fork_head')
    BY <1>2, Zenon DEF Written
  <2>2. fork_head' \in Ancestry[fork_head'] /\ (fork_head' = root' => rbi' = {})
    BY <1>1, <2>1, AncestryEnds, AboveEmpty
  <2>3. Replaying'
    BY <1>1, <2>1, <2>2, Zenon DEF Replaying
  <2>4. QED
    BY <2>1, <2>2, <2>3, Zenon DEF ReplayRevInv
<1>3. CASE Fresh'
  <2>1. index' = {} /\ validated' = {} /\ fork_head' = LogHead'
    BY <1>1, <1>3 DEF Fresh
  <2>2. Leads(validated', fork_head') /\ Final(fork_head', LogHead')
    BY <2>1 DEF Leads, Final
  <2>3. \E top \in Block : fork_head' \in Ancestry[top] /\ rbi' = Above(top, LogHead')
    BY <2>1 DEF Files
  <2>4. Replaying'
    BY <2>2, <2>3 DEF Replaying
  <2>5. QED
    BY <2>1, <2>2, <2>4, Zenon DEF ReplayRevInv
<1>4. QED
  BY <1>2, <1>3

\* A sequence cut after its first element.
LEMMA FirstOnly ==
    ASSUME NEW s \in Seq(Block), s # <<>>
    PROVE  SubSeq(s, 1, 1) = <<Head(s)>>
<1>1. Len(s) \in Nat /\ Len(s) >= 1 /\ Head(s) = s[1] /\ s[1] \in Block
  OBVIOUS
<1>2. PICK w : w = SubSeq(s, 1, 1)
  BY Zenon
<1>3. w \in Seq(Block) /\ Len(w) = 1 /\ w[1] = s[1]
  <2>1. 1 \in 1 .. 1 - 1 + 1 /\ \A i \in 1 .. 1 : s[i] \in Block
    BY <1>1
  <2>2. w \in Seq(Block) /\ Len(w) = (IF 1 <= 1 THEN 1 - 1 + 1 ELSE 0) /\ \A i \in 1 .. 1 - 1 + 1 : w[i] = s[1 + i - 1]
    BY <1>2, <2>1, SeqPart
  <2>3. QED
    BY <2>1, <2>2
<1>4. PICK v : v = <<s[1]>>
  BY Zenon
<1>5. v \in Seq(Block) /\ Len(v) = 1 /\ v[1] = s[1]
  BY <1>1, <1>4
<1>6. \A i \in 1 .. Len(w) : w[i] = v[i]
  BY <1>3, <1>5
<1>7. w = v
  BY <1>3, <1>5, <1>6, SeqSame
<1>8. QED
  BY <1>1, <1>2, <1>4, <1>7, Zenon

\* What init makes of the undo sessions.
LEMMA InitStack ==
    ASSUME UsageInv, StoresInv, task.op = "init"
    PROVE  LET s == SubSeq(stack, 1, Len(stack) - (Revision - Num[head]))
           IN  \/ s = <<head>> /\ (head = Genesis \/ head = root)
               \/ s = stack /\ Written /\ ChainFrom(stack, LogHead, head) /\ head = fork_head
<1>1. InitInv /\ root \in Block /\ LogHead \in Block /\ Genesis \in Block /\ Num[LogHead] \in Nat
  BY Known, TreeAssumption DEF StoresInv, PhaseInv
<1>2. ASSUME NEW h \in Block, stack = <<h>>, head = h
      PROVE  SubSeq(stack, 1, Len(stack) - (Revision - Num[head])) = <<head>>
  <2>1. Head(stack) = h /\ Len(stack) = 1 /\ Num[h] \in Nat
    BY <1>2, SingleChain, TreeAssumption
  <2>2. Revision - Num[head] = 0
    BY <1>2, <2>1 DEF Revision
  <2>3. Len(stack) - (Revision - Num[head]) = 1
    BY <2>1, <2>2
  <2>4. stack \in Seq(Block) /\ stack # <<>>
    BY <1>2
  <2>5. SubSeq(stack, 1, 1) = <<h>>
    BY <2>1, <2>4, FirstOnly
  <2>6. QED
    BY <1>2, <2>3, <2>5
<1>3. ASSUME ChainFrom(stack, LogHead, head)
      PROVE  SubSeq(stack, 1, Len(stack) - (Revision - Num[head])) = stack
  <2>1. Revision = Num[head] /\ Num[head] \in Nat /\ Len(stack) \in Nat /\ stack \in Seq(Block)
    BY <1>3, ChainFacts DEF Revision, ChainFrom
  <2>2. Len(stack) - (Revision - Num[head]) = Len(stack)
    BY <2>1
  <2>3. QED
    BY <2>1, <2>2
<1>4. ASSUME RolledBack, head = root, NEW h \in Block, ChainFrom(stack, LogHead, h)
      PROVE  SubSeq(stack, 1, Len(stack) - (Revision - Num[head])) = <<head>>
  <2>1. /\ head = LogHead /\ Head(stack) = LogHead /\ Len(stack) \in Nat /\ stack \in Seq(Block)
        /\ stack # <<>>
    BY <1>4, ChainFacts DEF RolledBack, ChainFrom
  <2>2. Len(stack) - (Revision - Num[head]) = 1
    <3>1. ASSUME NEW n \in Nat, NEW k \in Nat PROVE k - ((n + k - 1) - n) = 1
      OBVIOUS
    <3>2. QED
      BY <1>1, <2>1, <3>1 DEF Revision
  <2>3. SubSeq(stack, 1, 1) = <<Head(stack)>>
    BY <2>1, FirstOnly
  <2>4. QED
    BY <2>1, <2>2, <2>3
<1>5. QED
  BY <1>1, <1>2, <1>3, <1>4 DEF InitInv

\* init, up to replay: the undo sessions above the head go, and so do the reversible blocks in
\* irreversible mode.
LEMMA InitKeeps ==
    ASSUME UsageInv, UsageInv', StoresInv, init
    PROVE  StoresInv'
<1>1. /\ task.op = "init" /\ InitInv /\ Files /\ LogIsChain /\ TypeInv
  BY DEF init, StoresInv, PhaseInv, UsageInv, RootInv
<1>2. ~Refused
  BY <1>1, InitAccepted
<1>3. /\ stack' = SubSeq(stack, 1, Len(stack) - (Revision - Num[head])) /\ rbi' = Kept
      /\ task' = At(IF LastNum = Num[head] THEN "best"
                    ELSE IF Num[head] < Num[LogHead] THEN "replay_log"
                    ELSE "replay_rev", "idle")
      /\ UNCHANGED <<index, validated, root, fork_head, head, blog, mode, bad, fork_file>>
  BY <1>2 DEF init, fork_vars, node_vars
<1>4. LogHead' = LogHead
  BY <1>1, <1>3, SameLog
<1>5. /\ IInv /\ root \in Block /\ fork_head \in Block /\ head \in Block /\ LogHead \in Block
      /\ root \in Ancestry[fork_head] /\ validated \subseteq index
      /\ "idle" \in {"idle", "best_loop", "replay_rev"}
  BY Known
<1>6. task'.op = IF LastNum = Num[head] THEN "best"
                 ELSE IF Num[head] < Num[LogHead] THEN "replay_log" ELSE "replay_rev"
  BY <1>3, <1>5, TaskShapes
<1>7. \/ stack' = <<head>> /\ (head = Genesis \/ head = root)
      \/ stack' = stack /\ Written /\ ChainFrom(stack, LogHead, head) /\ head = fork_head
  BY <1>1, <1>3, InitStack
<1>8. /\ LastNum \in Nat /\ Num[LogHead] \in Nat /\ LastNum >= Num[LogHead] /\ Num[head] \in Nat
      /\ \A b \in Kept : Num[b] <= LastNum
  BY <1>1, <1>5, LastNumBound, TreeAssumption
<1>9. /\ mode = "irreversible" => Kept = {}
      /\ mode # "irreversible" => Kept = Trim(Num[LogHead]) /\ (Written => Kept = rbi)
      /\ Kept \subseteq rbi
  BY <1>1, KeptBlocks
<1>10. mode' = "irreversible" => fork_head' = root'
  BY <1>1, <1>3 DEF InitInv
<1>11. Above(LogHead, LogHead) = {} /\ LogHead \in Ancestry[LogHead]
  BY <1>5, AboveEmpty, AncestryEnds
<1>12. Files'
  <2>1. \E top \in Block : LogHead \in Ancestry[top] /\ rbi' = Above(top, LogHead)
    BY <1>1, <1>3, <1>5, <1>9, <1>11, AboveLog, Zenon
  <2>2. rbi' \cap bad = {} /\ (mode = "irreversible" => rbi' = {})
    BY <1>1, <1>3, <1>9, Zenon DEF Files
  <2>3. fork_file' = TRUE
    BY <1>1, <1>3 DEF Files
  <2>4. QED
    BY <1>1, <1>3, <1>4, <2>1, <2>2, <2>3 DEF Files
<1>13. Written' \/ Fresh'
  <2>1. CASE Fresh
    BY <1>3, <2>1 DEF Fresh
  <2>2. CASE Written /\ mode # "irreversible"
    BY <1>3, <1>4, <1>9, <2>2 DEF Written
  <2>3. CASE (Written \/ RolledBack) /\ mode = "irreversible"
    <3>1. root = LogHead /\ fork_head = root
      BY <1>1, <2>3 DEF Written, RolledBack, InitInv
    <3>2. Leads(validated, fork_head)
      BY <2>3 DEF Written, RolledBack, Leads
    <3>3. QED
      BY <1>3, <1>4, <1>9, <1>11, <2>3, <3>1, <3>2, Zenon DEF Written, Final
  <2>4. QED
    BY <1>1, <2>1, <2>2, <2>3 DEF InitInv, RolledBack
<1>14. CASE Num[head] < Num[LogHead]
  <2>1. stack' = <<head>>
    <3>1. ChainFrom(stack, LogHead, head) => Num[LogHead] <= Num[head]
      BY ChainFacts
    <3>2. QED
      BY <1>7, <1>8, <1>14, <3>1
  <2>2. ReplayLogInv'
    BY <1>3, <1>10, <1>13, <2>1, Zenon DEF ReplayLogInv
  <2>3. task'.op = "replay_log"
    BY <1>6, <1>8, <1>14
  <2>4. QED
    BY <1>12, <2>2, <2>3 DEF StoresInv, PhaseInv
<1>15. CASE ~(Num[head] < Num[LogHead])
  <2>1. \A b \in Elems(blog) : Num[b] <= Num[LogHead] /\ b \in Ancestry[LogHead] /\ (Num[b] = Num[LogHead] => b = LogHead)
    BY <1>1, ChainTop
  <2>2. Genesis \in Elems(blog)
    BY <1>1 DEF LogIsChain, Elems
  <2>3. head \in Elems(blog) => head = LogHead
    BY <1>8, <1>15, <2>1
  <2>4. root = LogHead /\ (head = LogHead \/ head = fork_head)
    <3>1. CASE stack = <<Genesis>> /\ head = Genesis
      <4>1. Genesis = LogHead
        BY <2>2, <2>3, <3>1
      <4>2. root \in Elems(blog) => root = Genesis
        BY <2>1, <4>1, AncestryAssumption
      <4>3. QED
        BY <1>1, <3>1, <4>1, <4>2 DEF InitInv, Written, RolledBack, Fresh
    <3>2. CASE Written /\ head = fork_head
      BY <3>2 DEF Written
    <3>3. CASE RolledBack /\ head = root
      BY <3>3 DEF RolledBack
    <3>4. CASE Fresh /\ head = root
      BY <2>3, <3>4 DEF Fresh
    <3>5. QED
      BY <1>1, <3>1, <3>2, <3>3, <3>4 DEF InitInv
  <2>5. ChainFrom(stack', LogHead, head)
    <3>1. CASE stack' = <<head>> /\ (head = Genesis \/ head = root)
      <4>1. head = LogHead
        BY <2>2, <2>3, <2>4, <3>1
      <4>2. QED
        BY <1>5, <3>1, <4>1, SingleChain
    <3>2. QED
      BY <1>7, <3>1
  <2>6. head \in Ancestry[fork_head]
    BY <1>5, <2>4, AncestryEnds
  <2>7. ReplayRevInv'
    BY <1>3, <1>4, <1>6, <1>10, <1>12, <1>13, <2>4, <2>5, <2>6, ReplayStarts
  <2>8. CASE LastNum # Num[head]
    <3>1. task'.op = "replay_rev"
      BY <1>6, <1>15, <2>8
    <3>2. QED
      BY <1>12, <2>7, <3>1 DEF StoresInv, PhaseInv
  <2>9. CASE LastNum = Num[head]
    <3>1. task'.op = "best"
      BY <1>6, <2>9
    <3>2. PICK top \in Block : fork_head \in Ancestry[top] /\ rbi' = Above(top, LogHead)
      BY <1>3, <1>4, <2>7, Zenon DEF ReplayRevInv, Replaying
    <3>3. LogHead \in Ancestry[head]
      BY <2>5, ChainFacts
    <3>4. fork_head = head /\ top = head
      BY <1>3, <1>8, <2>6, <2>9, <3>2, <3>3, AllReplayed
    <3>5. Settled'
      BY <1>3, <1>4, <1>10, <2>4, <2>5, <2>7, <3>2, <3>4, Zenon DEF Settled, ReplayRevInv, Replaying
    <3>6. BestInv'
      BY <2>7, <3>5 DEF BestInv, ReplayRevInv
    <3>7. QED
      BY <1>12, <3>1, <3>6 DEF StoresInv, PhaseInv
  <2>10. QED
    BY <2>8, <2>9
<1>16. QED
  BY <1>14, <1>15

\* The replay of the log: one block after the other, and no undo session.
LEMMA ReplayLogKeeps ==
    ASSUME UsageInv, StoresInv, replay_log
    PROVE  StoresInv'
<1>1. /\ task.op = "replay_log" /\ ReplayLogInv /\ Files /\ LogIsChain /\ head \in Elems(blog) /\ head # LogHead
  BY DEF replay_log, StoresInv, PhaseInv, UsageInv, RootInv
<1>2. PICK b : b = blog[Num[head] - Num[Head(blog)] + 2]
  OBVIOUS
<1>3. b \in Received /\ Prev[b] = head /\ head \in Block
  BY <1>1, <1>2, NextInLog, Known, Zenon
<1>4. /\ stack' = Append(Front(stack), b) /\ head' = b
      /\ UNCHANGED <<index, validated, root, fork_head, rbi, blog, mode, bad, fork_file, task>>
  BY <1>2, <1>3, Zenon DEF replay_log, fork_vars, node_vars
<1>5. stack' = <<head'>>
  BY <1>1, <1>3, <1>4, SingleChain DEF ReplayLogInv
<1>6. Files' /\ LogHead' = LogHead
  BY <1>1, <1>4, FilesKept, Zenon DEF Files
<1>7. Written' \/ Fresh'
  BY <1>1, <1>4, <1>6 DEF ReplayLogInv, Written, Fresh
<1>8. ReplayLogInv'
  BY <1>1, <1>4, <1>5, <1>7, Zenon DEF ReplayLogInv
<1>9. QED
  BY <1>1, <1>4, <1>6, <1>8 DEF StoresInv, PhaseInv

\* The end of the log, or of the part of it that was replayed.
LEMMA ReplayLogEndKeeps ==
    ASSUME UsageInv, UsageInv', StoresInv, replay_log_end
    PROVE  StoresInv'
<1>1. /\ task.op = "replay_log" /\ ReplayLogInv /\ Files /\ LogIsChain /\ head \in Elems(blog)
      /\ UNCHANGED <<head, stack, rbi, blog, mode, bad, fork_file>>
  BY Zenon DEF replay_log_end, StoresInv, PhaseInv, UsageInv, RootInv, chain_vars, node_vars
<1>2. /\ head \in Block /\ LogHead \in Block /\ root \in Block /\ root \in Ancestry[fork_head]
      /\ "idle" \in {"idle", "best_loop", "replay_rev"}
  BY Known
<1>3. stack = <<head>> /\ ChainFrom(stack, head, head) /\ Len(stack) = 1
  BY <1>1, <1>2, SingleChain DEF ReplayLogInv
<1>4. task' = IF head = LogHead THEN At("replay_rev", "idle") ELSE Down
  BY <1>3 DEF replay_log_end
<1>5. reset(head) \/ (UNCHANGED fork_vars /\ Num[head] = Num[root])
  BY ReplayEnds DEF UsageInv
<1>6. LogHead' = LogHead
  BY <1>1, SameLog
<1>7. validated' \subseteq validated
  BY <1>5 DEF reset, fork_vars
<1>8. Files'
  BY <1>1, <1>7, FilesKept, Zenon DEF Files
<1>9. (Fresh' /\ root' = head') \/ (Written' /\ root' = head' /\ head = LogHead)
  <2>1. CASE reset(head)
    BY <1>1, <2>1 DEF Fresh, reset
  <2>2. CASE UNCHANGED fork_vars /\ Num[head] = Num[root]
    <3>1. UNCHANGED <<index, validated, root, fork_head>>
      BY <2>2 DEF fork_vars
    <3>2. head \in Ancestry[LogHead] /\ (Num[head] = Num[LogHead] => head = LogHead)
      BY <1>1, ChainTop, Zenon
    <3>3. CASE Written
      <4>1. head = LogHead /\ root = head
        BY <2>2, <3>2, <3>3 DEF Written
      <4>2. QED
        BY <1>1, <1>6, <3>1, <3>3, <4>1 DEF Written
    <3>4. CASE Fresh
      <4>1. root \in Ancestry[LogHead]
        BY <1>1, <3>4, ChainTop DEF Fresh
      <4>2. root = head
        BY <1>2, <2>2, <3>2, <4>1, AncestryUnique
      <4>3. QED
        BY <1>1, <3>1, <3>4, <4>2 DEF Fresh
    <3>5. QED
      BY <1>1, <3>3, <3>4 DEF ReplayLogInv
  <2>3. QED
    BY <1>5, <2>1, <2>2
<1>10. mode' = "irreversible" => fork_head' = root'
  BY <1>1, <1>5 DEF ReplayLogInv, reset, fork_vars
<1>11. CASE head = LogHead
  <2>1. task'.op = "replay_rev"
    BY <1>2, <1>4, <1>11, TaskShapes, Zenon
  <2>2. root' \in Ancestry[fork_head']
    <3>1. fork_head' \in Block
      BY DEF UsageInv, IInv, TypeOK
    <3>2. QED
      BY <1>2, <1>5, <3>1, AncestryEnds DEF reset, fork_vars
  <2>3. ReplayRevInv'
    BY <1>1, <1>3, <1>6, <1>8, <1>9, <1>10, <1>11, <2>1, <2>2, ReplayStarts
  <2>4. QED
    BY <1>8, <2>1, <2>3 DEF StoresInv, PhaseInv
<1>12. CASE head # LogHead
  <2>1. task'.op = "down"
    BY <1>2, <1>4, <1>12, TaskShapes, Zenon
  <2>2. Fresh' /\ stack' = <<root'>> /\ head' = root' /\ fork_file' = TRUE
    BY <1>1, <1>3, <1>9, <1>12 DEF Files
  <2>3. DownInv'
    BY <1>10, <2>2 DEF DownInv
  <2>4. QED
    BY <1>8, <2>1, <2>3 DEF StoresInv, PhaseInv
<1>13. QED
  BY <1>11, <1>12

\* One reversible block of the replay links, and it is on the way to the head of the fork database
\* or beyond it.
LEMMA NextReversible ==
    ASSUME UsageInv, StoresInv, task.op = "replay_rev", NEW b \in rbi, Num[b] = Num[head] + 1
    PROVE  /\ b \in Received /\ Prev[b] = head /\ head \in Linkable /\ mode = "speculative"
           /\ b \in Ancestry[fork_head] => b \in index /\ NoneBeats(index, fork_head)
           /\ b \notin Ancestry[fork_head] => head = fork_head /\ NoneBeats(index, head)
<1>1. ReplayRevInv /\ Files
  BY DEF StoresInv, PhaseInv
<1>2. /\ ChainFrom(stack, LogHead, head) /\ head \in Ancestry[fork_head] /\ LogHead \in Ancestry[head]
      /\ fork_head = root \/ NoneBeats(index, fork_head)
      /\ fork_head = root => index = {}
  BY <1>1, ChainFacts, Zenon DEF ReplayRevInv, Replaying
<1>3. /\ IInv /\ root = LogHead /\ head \in Block /\ fork_head \in Block /\ root \in Block
      /\ fork_head \in validated \cup {root} /\ validated \subseteq index
  BY Known DEF Starting
<1>4. PICK top \in Block : fork_head \in Ancestry[top] /\ rbi = Above(top, LogHead)
  BY <1>1, Zenon DEF ReplayRevInv, Replaying
<1>5. head \in Ancestry[top] /\ LogHead \in Ancestry[top] /\ b \in Ancestry[top] /\ b \in Received
      /\ Num[b] > Num[LogHead]
  <2>1. head \in Ancestry[top] /\ LogHead \in Ancestry[top]
    BY <1>2, <1>3, <1>4, AncestryTransitive, Zenon
  <2>2. QED
    BY <1>4, <2>1, AboveEmpty DEF Above
<1>6. /\ Num[b] \in Nat /\ Num[head] \in Nat /\ Num[fork_head] \in Nat /\ b \in Block /\ Num[b] = Num[Prev[b]] + 1
      /\ Num[Prev[b]] \in Nat
  BY <1>3, <1>5, TreeAssumption DEF Received
<1>7. Prev[b] = head
  <2>1. Prev[b] \in Ancestry[top]
    BY <1>5, AncestryPrev
  <2>2. Num[Prev[b]] = Num[head]
    BY <1>6
  <2>3. QED
    BY <1>5, <2>1, <2>2, AncestryUnique
<1>8. head \in Linkable
  BY <1>2, <1>3, ValidatedBranch DEF Linkable
<1>9. mode = "speculative"
  BY <1>1 DEF Files
<1>10. ASSUME b \in Ancestry[fork_head] PROVE b \in index /\ NoneBeats(index, fork_head)
  <2>1. b \in Above(fork_head, root)
    BY <1>3, <1>5, <1>10 DEF Above
  <2>2. b \in index
    BY <1>3, <2>1, BranchToRoot
  <2>3. QED
    BY <1>2, <2>2, Zenon
<1>11. ASSUME b \notin Ancestry[fork_head] PROVE head = fork_head /\ NoneBeats(index, head)
  <2>1. ~(Num[b] <= Num[fork_head])
    BY <1>4, <1>5, <1>11, AncestryLinear
  <2>2. Num[head] <= Num[fork_head]
    BY <1>2, <1>3, AncestryBelow
  <2>3. Num[head] = Num[fork_head]
    BY <1>6, <2>1, <2>2
  <2>4. head = fork_head
    BY <1>2, <1>3, <2>3, AncestryUnique, AncestryEnds
  <2>5. QED
    BY <1>2, <2>4 DEF NoneBeats
<1>12. QED
  BY <1>5, <1>7, <1>8, <1>9, <1>10, <1>11

\* The replay of the reversible blocks.
LEMMA ReplayReversibleKeeps ==
    ASSUME UsageInv, StoresInv, replay_reversible
    PROVE  StoresInv'
<1>1. /\ task.op = "replay_rev" /\ ReplayRevInv /\ Files
      /\ UNCHANGED <<head, stack, rbi, blog, mode, bad, fork_file>>
  BY DEF replay_reversible, StoresInv, PhaseInv, chain_vars, node_vars
<1>2. /\ IInv /\ root = LogHead /\ head \in Block /\ fork_head \in Block /\ root \in Block
      /\ "idle" \in {"idle", "best_loop", "replay_rev"} /\ "replay_rev" \in {"idle", "best_loop", "replay_rev"}
  BY <1>1, Known DEF Starting
<1>3. Replaying /\ ChainFrom(stack, LogHead, head) /\ LogHead \in Ancestry[head] /\ head \in Ancestry[fork_head]
      /\ Leads(validated, fork_head) /\ Final(fork_head, LogHead)
  BY <1>1, ChainFacts, Zenon DEF ReplayRevInv, Replaying
<1>4. CASE \A b \in rbi : Num[b] # Num[head] + 1
  <2>1. task' = At("best", "idle") /\ UNCHANGED <<index, validated, root, fork_head>>
    BY <1>4 DEF replay_reversible, fork_vars
  <2>2. task'.op = "best"
    BY <1>2, <2>1, TaskShapes
  <2>3. Files' /\ LogHead' = LogHead
    BY <1>1, <2>1, FilesKept, Zenon DEF Files
  <2>4. PICK top \in Block : fork_head \in Ancestry[top] /\ rbi = Above(top, LogHead)
    BY <1>3 DEF Replaying
  <2>5. head \in Ancestry[top]
    BY <1>3, <2>4, AncestryTransitive
  <2>6. \A b \in Above(top, LogHead) : Num[b] <= Num[head]
    <3>1. ASSUME NEW b \in Above(top, LogHead), ~(Num[b] <= Num[head]) PROVE FALSE
      <4>1. b \in Ancestry[top] /\ b \in Block /\ Num[b] <= Num[top] /\ Num[LogHead] <= Num[head] /\ LogHead \in Block
        BY <1>2, <1>3, <2>4, AncestryBelow, Zenon DEF Above
      <4>2. PICK n : n = Num[head] + 1
        OBVIOUS
      <4>3. n \in Nat /\ Num[head] <= n /\ n <= Num[top] /\ n > Num[LogHead]
        <5>1. Num[head] \in Nat /\ Num[top] \in Nat /\ Num[b] \in Nat /\ Num[LogHead] \in Nat
          BY <1>2, <2>4, <4>1, TreeAssumption
        <5>2. QED
          BY <3>1, <4>1, <4>2, <5>1
      <4>4. PICK c \in Ancestry[top] : Num[c] = n
        BY <2>5, <4>3, AncestryNumbers, Zenon
      <4>5. QED
        BY <1>4, <2>4, <4>2, <4>3, <4>4 DEF Above
    <3>2. QED
      BY <3>1
  <2>7. fork_head = head /\ top = head
    BY <1>3, <2>4, <2>6, AllReplayed, Zenon
  <2>8. Settled'
    BY <1>1, <1>2, <1>3, <2>1, <2>3, <2>4, <2>7, Zenon DEF Settled, ReplayRevInv
  <2>9. BestInv'
    BY <1>1, <2>1, <2>8 DEF BestInv, ReplayRevInv
  <2>10. QED
    BY <2>2, <2>3, <2>9 DEF StoresInv, PhaseInv
<1>5. CASE ~\A b \in rbi : Num[b] # Num[head] + 1
  <2>1. PICK b \in rbi : /\ Num[b] = Num[head] + 1
                         /\ IF Prev[b] # head \/ Prev[b] \notin Linkable
                            THEN task' = Down /\ UNCHANGED fork_vars
                            ELSE /\ IF b \in index THEN UNCHANGED fork_vars ELSE add(b)
                                 /\ task' = Task("extend", <<b>>, 0, <<>>, "replay_rev")
    BY <1>5 DEF replay_reversible
  <2>2. /\ b \in Received /\ Prev[b] = head /\ head \in Linkable /\ mode = "speculative"
        /\ b \in Ancestry[fork_head] => b \in index /\ NoneBeats(index, fork_head)
        /\ b \notin Ancestry[fork_head] => head = fork_head /\ NoneBeats(index, head)
    BY <1>1, <2>1, NextReversible, Zenon
  <2>3. /\ IF b \in index THEN UNCHANGED fork_vars ELSE add(b)
        /\ task' = Task("extend", <<b>>, 0, <<>>, "replay_rev")
    BY <2>1, <2>2, Zenon
  <2>4. index' = index \cup {b} /\ validated' = validated /\ root' = root /\ fork_head' = fork_head
    <3>1. CASE b \in index
      BY <2>3, <3>1 DEF fork_vars
    <3>2. CASE b \notin index
      BY <1>2, <1>3, <2>3, <3>2, AddKeepsHead, Zenon DEF add
    <3>3. QED
      BY <3>1, <3>2
  <2>5. Files' /\ LogHead' = LogHead
    BY <1>1, <2>4, FilesKept, Zenon DEF Files
  <2>6. task'.op = "extend" /\ task'.caller = "replay_rev" /\ task'.todo = <<b>>
    BY <2>3 DEF Task
  <2>7. Head(task'.todo) = b
    BY <2>6
  <2>8. Replaying'
    BY <1>1, <1>3, <2>4, <2>5, Zenon DEF Replaying
  <2>9. \/ b \in Ancestry[fork_head'] /\ NoneBeats(index', fork_head')
        \/ head' = fork_head' /\ NoneBeats(index' \ {b}, head')
    <3>1. CASE b \in Ancestry[fork_head]
      BY <2>2, <2>4, <3>1 DEF NoneBeats
    <3>2. CASE b \notin Ancestry[fork_head]
      BY <1>1, <2>2, <2>4, <3>2 DEF NoneBeats
    <3>3. QED
      BY <3>1, <3>2
  <2>10. ExtendInv'
    BY <1>1, <1>3, <2>2, <2>4, <2>5, <2>6, <2>7, <2>8, <2>9, Zenon DEF ExtendInv
  <2>11. QED
    BY <2>5, <2>6, <2>10 DEF StoresInv, PhaseInv
<1>6. QED
  BY <1>4, <1>5

\* The end of init: a better branch than a head at the root is taken up, and then there is none.
LEMMA BestKeeps ==
    ASSUME UsageInv, StoresInv, apply_best_branch
    PROVE  StoresInv'
<1>1. /\ task.op \in {"best", "best_loop"} /\ Files
      /\ UNCHANGED <<index, validated, root, fork_head, head, stack, rbi, blog, mode, bad, fork_file>>
  BY DEF apply_best_branch, StoresInv, PhaseInv, fork_vars, chain_vars, node_vars
<1>2. /\ Settled /\ (fork_head = root \/ NoneBeats(index, fork_head)) /\ fork_head = head
      /\ task.op = "best_loop" => NoneBeats(index, fork_head)
  BY <1>1 DEF StoresInv, PhaseInv, BestInv, LoopInv, Settled
<1>3. /\ PendingHeadIsBest
      /\ pending_head = fork_head \/ (pending_head \in index /\ first_preferred(pending_head, fork_head))
  BY PendingHead DEF UsageInv
<1>4. /\ "idle" \in {"idle", "best_loop", "replay_rev"} /\ "best_loop" \in {"idle", "best_loop", "replay_rev"}
      /\ mode \in {"speculative", "irreversible"}
  BY <1>1, Zenon DEF Files
<1>5. Settled' /\ Files' /\ LogHead' = LogHead
  BY <1>1, <1>2, SettledKept, FilesKept, Zenon DEF Files
<1>6. CASE mode # "irreversible" /\ BetterBranch /\ (fork_head = root \/ task.op = "best_loop")
  <2>1. task' = At("switch", "best_loop")
    BY <1>6 DEF apply_best_branch
  <2>2. task'.op = "switch" /\ task'.caller = "best_loop"
    BY <2>1 DEF At, Task
  <2>3. fork_head = root
    BY <1>2, <1>3, <1>6 DEF BetterBranch, NoneBeats
  <2>4. SwitchInv'
    BY <1>1, <1>4, <1>5, <1>6, <2>2, <2>3 DEF SwitchInv
  <2>5. QED
    BY <1>5, <2>2, <2>4 DEF StoresInv, PhaseInv
<1>7. CASE ~(mode # "irreversible" /\ BetterBranch /\ (fork_head = root \/ task.op = "best_loop"))
  <2>1. task' = Idle
    BY <1>7 DEF apply_best_branch
  <2>2. task'.op = "idle"
    BY <1>4, <2>1, TaskShapes
  <2>3. mode # "irreversible" => NoneBeats(index, fork_head)
    BY <1>2, <1>3, <1>7 DEF BetterBranch, NoneBeats, PendingHeadIsBest
  <2>4. IdleInv'
    BY <1>1, <1>2, <1>5, <2>3 DEF IdleInv
  <2>5. QED
    BY <1>5, <2>2, <2>4 DEF StoresInv, PhaseInv
<1>8. QED
  BY <1>6, <1>7

=============================================================================
