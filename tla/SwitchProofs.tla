---------------------------- MODULE SwitchProofs ----------------------------
(***************************************************************************)
(* New blocks and fork switches, also those that fail, keep the stores of  *)
(* the controller as its invariant says.                                   *)
(***************************************************************************)
EXTENDS ChainProofs

-----------------------------------------------------------------------------
(* Branches and the undo sessions.                                         *)

\* A block is no worse than what it builds on.
LEMMA AncestryPreferred ==
    ASSUME NEW b \in Block, NEW a \in Ancestry[b]
    PROVE  /\ Lib[a] <= Lib[b]
           /\ a # b => first_preferred(b, a)
<1> DEFINE S == {c \in Block : \A d \in Ancestry[c] : Lib[d] <= Lib[c]}
<1>1. Genesis \in S
  BY AncestryAssumption, TreeAssumption
<1>2. ASSUME NEW c \in Received, Prev[c] \in S
      PROVE  c \in S
  <2>1. Ancestry[c] = {c} \cup Ancestry[Prev[c]] /\ c \in Block /\ Prev[c] \in Block
    BY AncestryAssumption, ChildPreferred DEF Received
  <2>2. Lib[Prev[c]] <= Lib[c] /\ Lib[c] \in Nat /\ Lib[Prev[c]] \in Nat
    BY <2>1, TreeAssumption DEF Received
  <2>3. ASSUME NEW d \in Ancestry[c] PROVE Lib[d] <= Lib[c]
    <3>1. CASE d = c
      BY <3>1, <2>2
    <3>2. CASE d # c
      <4>1. Lib[d] <= Lib[Prev[c]] /\ d \in Block
        BY <3>2, <2>1, <1>2, AncestryAssumption
      <4>2. QED
        BY <4>1, <2>2, TreeAssumption
    <3>3. QED
      BY <3>1, <3>2
  <2>4. QED
    BY <2>1, <2>3
<1>3. Block \subseteq S
  <2> HIDE DEF S
  <2> QED BY <1>1, <1>2, TreeInduction
<1>4. Lib[a] <= Lib[b]
  BY <1>3
<1>5. ASSUME a # b PROVE first_preferred(b, a)
  <2>1. Num[a] < Num[b]
    BY <1>5, AncestryStep
  <2>2. a \in Block
    BY AncestryBelow
  <2>3. QED
    BY <2>1, <2>2, <1>4, TreeAssumption DEF first_preferred
<1>6. QED
  BY <1>4, <1>5

\* Dropping the last block of a chain.
LEMMA ChainFront ==
    ASSUME NEW s \in Seq(Block), IsChain(s), Len(s) > 1
    PROVE  /\ Front(s) \in Seq(Block) /\ Front(s) # <<>> /\ IsChain(Front(s))
           /\ Head(Front(s)) = Head(s) /\ Last(Front(s)) = Prev[Last(s)] /\ Len(Front(s)) = Len(s) - 1
<1> DEFINE t == Front(s)
<1>1. Len(s) \in Nat /\ s # <<>>
  BY SeqLen
<1>2. t = SubSeq(s, 1, Len(s) - 1)
  BY DEF Front
<1>3. t \in Seq(Block) /\ Len(t) = Len(s) - 1 /\ \A i \in 1 .. Len(s) - 1 : t[i] = s[i]
  <2>1. 1 \in 1 .. Len(s) + 1 /\ Len(s) - 1 \in 0 .. Len(s)
    BY <1>1
  <2>2. QED
    BY <1>1, <1>2, <2>1, SeqPart
<1>4. t # <<>> /\ Head(t) = t[1] /\ Head(s) = s[1] /\ Last(t) = t[Len(s) - 1] /\ Last(s) = s[Len(s)]
  <2>1. t # <<>>
    BY <1>1, <1>3
  <2>2. QED
    BY <1>1, <1>3, <2>1 DEF Last
<1>5. IsChain(t)
  BY <1>1, <1>3 DEF IsChain
<1>6. Last(t) = Prev[Last(s)]
  <2>1. Len(s) \in 2 .. Len(s) /\ Len(s) - 1 \in 1 .. Len(s) - 1
    BY <1>1
  <2>2. Prev[s[Len(s)]] = s[Len(s) - 1]
    BY <2>1 DEF IsChain
  <2>3. QED
    BY <1>3, <1>4, <2>1, <2>2
<1>7. QED
  BY <1>1, <1>3, <1>4, <1>5, <1>6

\* A chain without its last block, after a session is undone.
LEMMA ChainShrinks ==
    ASSUME NEW s, NEW l, NEW h, ChainFrom(s, l, h), h # l
    PROVE  h \in Received /\ Len(s) # 1 /\ ChainFrom(Front(s), l, Prev[h])
<1>1. l \in Ancestry[h] /\ h \in Block /\ Len(s) \in Nat /\ Len(s) # 1
  BY ChainFacts
<1>2. h \in Received
  BY <1>1, AncestryStep
<1>3. s \in Seq(Block) /\ s # <<>> /\ IsChain(s) /\ Head(s) = l /\ Last(s) = h
  BY DEF ChainFrom
<1>4. Len(s) > 1
  <2>1. Len(s) # 0
    BY <1>3, SeqEmpty
  <2>2. \A n \in Nat : n # 0 /\ n # 1 => n > 1
    OBVIOUS
  <2>3. QED
    BY <1>1, <2>1, <2>2
<1>5. QED
  BY <1>1, <1>2, <1>3, <1>4, ChainFront DEF ChainFrom

\* The branch of a block is that of its parent and the block itself.
LEMMA AboveChild ==
    ASSUME NEW b \in Received, NEW r \in Ancestry[Prev[b]]
    PROVE  Above(b, r) = Above(Prev[b], r) \cup {b} /\ r \in Ancestry[b]
<1>1. Ancestry[b] = {b} \cup Ancestry[Prev[b]] /\ Prev[b] \in Block /\ Num[Prev[b]] < Num[b] /\ b \in Block
  BY AncestryAssumption, ChildPreferred DEF Received
<1>2. r \in Block /\ Num[r] <= Num[Prev[b]]
  BY <1>1, AncestryBelow
<1>3. Num[b] > Num[r]
  BY <1>1, <1>2, TreeAssumption
<1>4. QED
  BY <1>1, <1>3 DEF Above

\* The blocks above r without the last one, as pop_block leaves them.
LEMMA AbovePop ==
    ASSUME NEW h \in Block, NEW r \in Ancestry[h], h # r
    PROVE  /\ h \in Received /\ r \in Ancestry[Prev[h]]
           /\ {c \in Above(h, r) : Num[c] # Num[h]} = Above(Prev[h], r)
<1>1. h \in Received /\ Prev[h] \in Block /\ r \in Ancestry[Prev[h]]
  BY AncestryStep
<1>2. Above(h, r) = Above(Prev[h], r) \cup {h}
  BY <1>1, AboveChild
<1>3. ASSUME NEW c \in Above(Prev[h], r) PROVE Num[c] # Num[h]
  <2>1. c \in Ancestry[Prev[h]]
    BY DEF Above
  <2>2. Num[c] <= Num[Prev[h]] /\ Num[Prev[h]] < Num[h] /\ c \in Block
    BY <1>1, <2>1, AncestryBelow, ChildPreferred
  <2>3. QED
    BY <1>1, <2>2, TreeAssumption
<1>4. QED
  BY <1>1, <1>2, <1>3

\* A block that does not beat the head leaves it alone.
LEMMA MarkStays ==
    ASSUME IInv, NEW b \in index, ~first_preferred(b, fork_head)
    PROVE  HeadAfterMark(validated \cup {b}, fork_head) = fork_head
<1> DEFINE n == HeadAfterMark(validated \cup {b}, fork_head)
<1>1. /\ n \in validated \cup {b} \cup {root}
      /\ n = fork_head \/ first_preferred(n, fork_head)
  BY HeadAfterMarkIsBest DEF IInv
<1>2. \A c \in validated : ~first_preferred(c, fork_head)
  BY DEF IInv, HeadIsBest
<1>3. ~first_preferred(root, fork_head)
  <2>1. CASE fork_head = root
    BY <2>1, PreferredOrder DEF IInv, TypeOK
  <2>2. CASE fork_head \in validated
    <3>1. first_preferred(fork_head, root) /\ root \in Block /\ fork_head \in Block
      BY <2>2 DEF IInv, TypeOK, OneTree
    <3>2. QED
      BY <3>1, PreferredOrder
  <2>3. QED
    BY <2>1, <2>2 DEF IInv, OneTree
<1> HIDE DEF n
<1>4. n = fork_head
  BY <1>1, <1>2, <1>3
<1>5. QED
  BY <1>4 DEF n

\* The queue of remove(id) takes the blocks that build on id.
LEMMA RemovedBlocks ==
    ASSUME IInv, NEW id \in index
    PROVE  remove_queue(index, id) = {b \in index : id \in Ancestry[b]}
<1> DEFINE Q == remove_queue(index, id)
           D == {b \in index : id \in Ancestry[b]}
<1>1. index \subseteq Received /\ index \subseteq Block /\ id \in Block
  BY DEF IInv, TypeOK, Received
<1>2. id \in Q /\ (\A c \in index : Prev[c] \in Q => c \in Q)
  BY RemoveQueue
<1>3. Q \subseteq D
  <2>1. D \in SUBSET (index \cup {id}) /\ id \in D
    BY <1>1, AncestryEnds
  <2>2. \A c \in index : Prev[c] \in D => c \in D
    BY <1>1, AncestryAssumption
  <2>3. QED
    <3> HIDE DEF D
    <3> QED BY <2>1, <2>2, RemoveQueue
<1>4. id \notin Ancestry[root]
  <2>1. id \in Above(id, root) /\ root \in Block
    BY <1>1, BranchToRoot, AncestryEnds
  <2>2. Num[id] > Num[root]
    BY <2>1 DEF Above
  <2>3. QED
    BY <1>1, <2>1, <2>2, AncestryBelow, TreeAssumption
<1> HIDE DEF Q
<1> DEFINE S == {c \in Block : c \in D => c \in Q}
<1>5. Genesis \in S
  BY <1>1, TreeAssumption DEF Received
<1>6. ASSUME NEW c \in Received, Prev[c] \in S
      PROVE  c \in S
  <2>1. c \in Block /\ Ancestry[c] = {c} \cup Ancestry[Prev[c]]
    BY AncestryAssumption DEF Received
  <2>2. SUFFICES ASSUME c \in D PROVE c \in Q
    BY <2>1
  <2>3. CASE c = id
    BY <1>2, <2>3
  <2>4. CASE c # id
    <3>1. id \in Ancestry[Prev[c]] /\ Prev[c] \in index \cup {root}
      BY <2>1, <2>2, <2>4 DEF IInv, OneTree, Linkable
    <3>2. Prev[c] \in index
      BY <3>1, <1>4
    <3>3. QED
      BY <1>2, <1>6, <2>2, <3>1, <3>2
  <2>5. QED
    BY <2>3, <2>4
<1>7. Block \subseteq S
  <2> HIDE DEF S
  <2> QED BY <1>5, <1>6, TreeInduction
<1>8. QED
  BY <1>1, <1>3, <1>7 DEF Q

\* A step that moves the head, and with it the end of the reversible blocks.
LEMMA FilesMoved ==
    ASSUME Files, UNCHANGED <<blog, mode, bad, fork_file>>, task.op \notin {"down", "init"},
           validated' \cap bad = {}, mode = "speculative", rbi' \cap bad = {},
           NEW top \in Block, LogHead \in Ancestry[top], rbi' = Above(top, LogHead)
    PROVE  Files' /\ LogHead' = LogHead
<1>1. LogHead' = LogHead
  BY DEF LogHead
<1>2. QED
  BY <1>1 DEF Files, Elems

\* The stores after apply_block.
LEMMA AppliedBlock ==
    ASSUME NEW b \in Received, Prev[b] = head, ChainFrom(stack, LogHead, head), Applies(b), blog' = blog
    PROVE  /\ head' = b /\ ChainFrom(stack', LogHead, head') /\ LogHead \in Ancestry[b] /\ LogHead' = LogHead
           /\ ~Stores => rbi' = rbi
           /\ Stores /\ rbi = Above(head, LogHead) => rbi' = Above(b, LogHead)
<1>1. head' = b /\ stack' = Append(stack, b) /\ rbi' = IF Stores THEN rbi \cup {b} ELSE rbi
  BY DEF Applies
<1>2. ChainFrom(stack', LogHead, head')
  BY <1>1, ChainGrows
<1>3. LogHead \in Ancestry[head]
  BY ChainFacts
<1>4. Above(b, LogHead) = Above(head, LogHead) \cup {b} /\ LogHead \in Ancestry[b]
  BY <1>3, AboveChild
<1>5. QED
  BY <1>1, <1>2, <1>4 DEF LogHead

-----------------------------------------------------------------------------
(* Blocks from the network, and blocks of this node's own.                 *)

\* push_block and produce_block add a block that alone may beat the head.
LEMMA PushKeeps ==
    ASSUME UsageInv, StoresInv, NEW b \in Block, push_block(b) \/ produce_block(b)
    PROVE  StoresInv'
<1>1. /\ task.op = "idle" /\ add(b) /\ UNCHANGED <<head, stack, rbi, blog, mode, bad, fork_file>>
  BY DEF push_block, produce_block, chain_vars, node_vars
<1>2. IdleInv /\ Files /\ Settled
  BY <1>1 DEF StoresInv, PhaseInv, IdleInv
<1>3. IInv /\ fork_head = head /\ head \in Block /\ index \subseteq Block
  BY <1>2, Known DEF Settled
<1>4. fork_head' = fork_head
  BY <1>1, <1>2, <1>3, AddKeepsHead DEF Settled
<1>5. validated' = validated /\ index' = index \cup {b} /\ root' = root
  BY <1>1 DEF add
<1>6. Settled' /\ LogHead' = LogHead
  BY <1>1, <1>2, <1>4, <1>5, SettledKept
<1>7. Files'
  BY <1>1, <1>2, <1>5, FilesKept DEF Files
<1>8. mode = "speculative" => NoneBeats(index' \ {b}, head)
  BY <1>2, <1>5 DEF IdleInv, NoneBeats
<1>9. CASE push_block(b) /\ mode # "irreversible"
  <2>1. task' = At("switch", "idle") /\ mode = "speculative"
    BY <1>9, <1>2 DEF push_block, Files
  <2>2. task'.op = "switch" /\ task'.caller = "idle"
    BY <2>1, TaskShapes, TaskParts
  <2>3. SwitchInv'
    BY <1>1, <1>5, <1>6, <1>8, <2>1, <2>2 DEF SwitchInv
  <2>4. QED
    BY <1>7, <2>2, <2>3 DEF StoresInv, PhaseInv
<1>10. CASE push_block(b) /\ mode = "irreversible"
  <2>1. task' = At("log", "idle")
    BY <1>10 DEF push_block
  <2>2. task'.op = "log" /\ task'.caller = "idle"
    BY <2>1, TaskShapes, TaskParts
  <2>3. LogInv'
    BY <1>1, <1>4, <1>6, <1>10, <2>2 DEF LogInv, AtLog, Settled
  <2>4. QED
    BY <1>7, <2>2, <2>3 DEF StoresInv, PhaseInv
<1>11. CASE produce_block(b)
  <2>1. /\ task' = Task("commit", <<b>>, 0, <<>>, "idle") /\ mode = "speculative" /\ b \notin bad /\ Prev[b] = head
    BY <1>11, <1>2 DEF produce_block, Files
  <2>2. task'.op = "commit" /\ task'.caller = "idle" /\ task'.todo = <<b>>
    BY <2>1, TaskParts
  <2>3. Head(task'.todo) = b
    BY <2>2
  <2>4. CommitInv'
    BY <1>1, <1>5, <1>6, <1>8, <2>1, <2>2, <2>3, Zenon DEF CommitInv
  <2>5. QED
    BY <1>7, <2>2, <2>4 DEF StoresInv, PhaseInv
<1>12. QED
  BY <1>9, <1>10, <1>11

\* A block that extends the head and is not invalid, applied and marked valid, is the new head
\* everywhere, where it is the only block that could beat the old one.
LEMMA HeadExtended ==
    ASSUME UsageInv, Files, NEW b \in index \ bad, Prev[b] = head, mode = "speculative",
           task.op \notin {"down", "init"}, ChainFrom(stack, LogHead, head),
           fork_head = head, NoneBeats(index, b), Applies(b), mark_valid(b), UNCHANGED <<blog, mode, bad, fork_file>>,
           \/ task.caller # "replay_rev" /\ rbi = Above(head, LogHead)
           \/ /\ task.caller = "replay_rev" /\ b \in rbi
              /\ \E top \in Block : fork_head \in Ancestry[top] /\ rbi = Above(top, LogHead)
    PROVE  /\ Files' /\ LogHead' = LogHead /\ head' = b /\ fork_head' = b /\ Leads(validated', b)
           /\ ChainFrom(stack', LogHead, b) /\ NoneBeats(index', b)
           /\ task.caller # "replay_rev" => rbi' = Above(b, LogHead)
           /\ task.caller = "replay_rev"
              => \E top \in Block : b \in Ancestry[top] /\ rbi' = Above(top, LogHead)
<1>1. b \in Received /\ b \in Block /\ IInv /\ head \in Block
  BY Known
<1>2. first_preferred(b, fork_head)
  BY <1>1, ChildPreferred
<1>3. /\ HeadAfterMark(validated \cup {b}, fork_head) = b /\ Leads(validated \cup {b}, b)
  BY <1>1, <1>2, MarkMoves
<1>4. validated' = validated \cup {b} /\ index' = index /\ fork_head' = b
  BY <1>3 DEF mark_valid
<1>5. /\ head' = b /\ ChainFrom(stack', LogHead, b) /\ LogHead \in Ancestry[b] /\ LogHead' = LogHead
      /\ ~Stores => rbi' = rbi
      /\ Stores /\ rbi = Above(head, LogHead) => rbi' = Above(b, LogHead)
  BY <1>1, AppliedBlock
<1>6. Stores <=> task.caller # "replay_rev"
  BY DEF Stores
<1>7. validated' \cap bad = {} /\ rbi \cap bad = {}
  BY <1>4 DEF Files
<1>8. CASE task.caller # "replay_rev"
  <2>1. rbi' = Above(b, LogHead) /\ rbi' = rbi \cup {b}
    BY <1>5, <1>6, <1>8 DEF Applies
  <2>2. Files'
    BY <1>1, <1>5, <1>7, <2>1, FilesMoved, Zenon
  <2>3. QED
    BY <1>3, <1>4, <1>5, <1>8, <2>1, <2>2
<1>9. CASE task.caller = "replay_rev"
  <2>1. rbi' = rbi
    BY <1>5, <1>6, <1>9
  <2>2. PICK top \in Block : fork_head \in Ancestry[top] /\ rbi = Above(top, LogHead)
    BY <1>9
  <2>3. b \in Ancestry[top]
    BY <1>9, <2>2 DEF Above
  <2>4. Files'
    BY <1>7, <2>1, FilesKept
  <2>5. QED
    BY <1>3, <1>4, <1>5, <1>9, <2>1, <2>2, <2>3, <2>4
<1>10. QED
  BY <1>8, <1>9

\* What follows the new head: log_irreversible, called for the same caller.
LEMMA GoesToLog ==
    ASSUME task.caller \in {"idle", "best_loop", "replay_rev"}, mode' = "speculative",
           Files', LogHead' = LogHead, head' = fork_head', Leads(validated', head'), head' \in Block,
           ChainFrom(stack', LogHead, head'), NoneBeats(index', head'),
           task.caller # "replay_rev" => rbi' = Above(head', LogHead),
           task.caller = "replay_rev" => \E top \in Block : head' \in Ancestry[top] /\ rbi' = Above(top, LogHead),
           task' = At("log", task.caller)
    PROVE  StoresInv'
<1>1. task'.op = "log" /\ task'.caller = task.caller
  BY DEF At, Task
<1>2. BelowHead'
  BY <1>1 DEF BelowHead, Reversible
<1>3. head' \in Ancestry[fork_head']
  BY AncestryEnds
<1>4. LogInv'
  BY <1>2, <1>3 DEF LogInv
<1>5. QED
  BY <1>1, <1>4 DEF StoresInv, PhaseInv

\* commit_block: the assertion that the block became the head of the fork database holds.
LEMMA CommitKeeps ==
    ASSUME UsageInv, StoresInv, commit_block
    PROVE  StoresInv'
<1> DEFINE b == Head(task.todo)
<1>1. task.op = "commit" /\ CommitInv /\ Files
  BY Zenon DEF commit_block, StoresInv, PhaseInv
<1>2. /\ b \in index \ bad /\ Prev[b] = head /\ NoneBeats(index \ {b}, head) /\ mode = "speculative"
      /\ Settled /\ task.caller = "idle"
  BY <1>1 DEF CommitInv
<1>3. /\ b \in Received /\ b \in Block /\ IInv /\ head \in Block /\ fork_head = head /\ index \subseteq Block
      /\ ChainFrom(stack, LogHead, head) /\ rbi = Above(head, LogHead)
  BY <1>2, Known DEF Settled
<1>4. first_preferred(b, fork_head)
  BY <1>2, <1>3, ChildPreferred
<1>5. HeadAfterMark(validated \cup {b}, fork_head) = b
  BY <1>3, <1>4, MarkMoves
<1>6. ApplyFails(b) = "none"
  BY <1>2, <1>3, ApplySucceeds
<1>7. NoneBeats(index, b)
  <2> HIDE DEF b
  <2>1. ~first_preferred(b, b)
    BY <1>3, PreferredOrder
  <2>2. QED
    BY <1>2, <1>3, <1>4, <2>1, Preference DEF NoneBeats
<1>8. mark_valid(b) /\ Applies(b) /\ task' = At("log", "idle") /\ UNCHANGED <<blog, node_vars>>
  BY <1>5, <1>6 DEF commit_block
<1>9. UNCHANGED <<blog, mode, bad, fork_file>>
  BY <1>8 DEF node_vars
<1> HIDE DEF b
<1>10. /\ Files' /\ LogHead' = LogHead /\ head' = b /\ fork_head' = b /\ Leads(validated', b)
       /\ ChainFrom(stack', LogHead, b) /\ NoneBeats(index', b) /\ rbi' = Above(b, LogHead)
  BY <1>1, <1>2, <1>3, <1>7, <1>8, <1>9, HeadExtended
<1>11. QED
  BY <1>2, <1>3, <1>8, <1>9, <1>10, GoesToLog

-----------------------------------------------------------------------------
(* Fork switches.                                                          *)

\* Where only b could beat the head and b builds on the head, no block beats b.
LEMMA ChildIsBest ==
    ASSUME NEW b \in Received, index \subseteq Block, NoneBeats(index \ {b}, Prev[b])
    PROVE  NoneBeats(index, b)
<1>1. b \in Block /\ Prev[b] \in Block /\ first_preferred(b, Prev[b])
  BY ChildPreferred DEF Received
<1>2. ~first_preferred(b, b)
  BY <1>1, PreferredOrder
<1>3. QED
  BY <1>1, <1>2, Preference DEF NoneBeats

\* What a fork switch from the head to a better block starts from.
LEMMA SwitchBranches ==
    ASSUME IInv, head \in index \cup {root}, NEW new \in index, first_preferred(new, head)
    PROVE  \E p \in Block :
              LET first == Oldest(fetch_branch_from(new, head))
                  second == Oldest(fetch_branch_from(head, new))
              IN  /\ p \in Ancestry[head] /\ root \in Ancestry[p]
                  /\ first \in Seq(Block) /\ Links(first, p) /\ Last(first) = new
                  /\ Elems(first) \subseteq index \ Ancestry[head]
                  /\ head = p => second = <<>>
                  /\ head # p => /\ second \in Seq(Block) /\ Links(second, p) /\ Last(second) = head
                                 /\ Elems(second) \subseteq index
<1>1. /\ new \in Block /\ head \in Block /\ root \in Block /\ root \in Ancestry[new] /\ root \in Ancestry[head]
      /\ Ancestry[new] \cap index = Above(new, root) /\ Ancestry[head] \cap index = Above(head, root)
  BY BranchToRoot
<1>2. PICK p \in Block : /\ p \in Ancestry[new] /\ p \in Ancestry[head]
                         /\ Ancestry[new] \ Ancestry[head] = Above(new, p)
                         /\ Ancestry[head] \ Ancestry[new] = Above(head, p)
  <2>1. new \in Block /\ head \in Block
    BY <1>1
  <2>2. QED
    BY <2>1, ForkPoint, Zenon
<1>3. new \notin Ancestry[head]
  <2>1. ASSUME new \in Ancestry[head] PROVE FALSE
    <3>1. new # head
      BY <1>1, PreferredOrder
    <3>2. first_preferred(head, new)
      BY <1>1, <2>1, <3>1, AncestryPreferred
    <3>3. QED
      BY <1>1, <3>2, PreferredOrder
  <2>2. QED
    BY <2>1
<1>4. root \in Ancestry[p] /\ Num[root] <= Num[p]
  <2>1. ~(Num[root] > Num[p])
    BY <1>1, <1>2 DEF Above
  <2>2. Num[root] <= Num[p]
    BY <1>1, <1>2, <2>1, TreeAssumption
  <2>3. QED
    BY <1>1, <1>2, <2>2, AncestryLinear
<1>5. Above(new, p) \subseteq index /\ Above(head, p) \subseteq index
  <2>1. ASSUME NEW t \in Block, NEW c \in Above(t, p) PROVE c \in Above(t, root)
    <3>1. c \in Ancestry[t] /\ Num[c] > Num[p] /\ c \in Block
      BY AncestryBelow DEF Above
    <3>2. Num[c] > Num[root]
      BY <1>1, <1>2, <1>4, <3>1, TreeAssumption
    <3>3. QED
      BY <3>1, <3>2 DEF Above
  <2>2. QED
    BY <1>1, <2>1
<1>6. LET first == Oldest(fetch_branch_from(new, head))
      IN  /\ first \in Seq(Block) /\ Links(first, p) /\ Last(first) = new
          /\ Elems(first) \subseteq index \ Ancestry[head]
  <2>1. new # p
    BY <1>2, <1>3
  <2>2. fetch_branch_from(new, head) = Above(new, p)
    BY <1>2 DEF fetch_branch_from
  <2>3. LET s == Oldest(Above(new, p))
        IN  s \in Seq(Block) /\ Links(s, p) /\ Last(s) = new /\ Elems(s) = Above(new, p)
    BY <1>1, <1>2, <2>1, OldestIsChain
  <2>4. QED
    BY <1>2, <1>5, <2>2, <2>3
<1>7. head = p => Oldest(fetch_branch_from(head, new)) = <<>>
  BY <1>1, <1>2, ForkedBranch
<1>8. ASSUME head # p
      PROVE  LET second == Oldest(fetch_branch_from(head, new))
             IN  /\ second \in Seq(Block) /\ Links(second, p) /\ Last(second) = head
                 /\ Elems(second) \subseteq index
  <2>1. fetch_branch_from(head, new) = Above(head, p)
    BY <1>2 DEF fetch_branch_from
  <2>2. LET s == Oldest(Above(head, p))
        IN  s \in Seq(Block) /\ Links(s, p) /\ Last(s) = head /\ Elems(s) = Above(head, p)
    BY <1>1, <1>2, <1>8, OldestIsChain
  <2>3. QED
    BY <1>5, <2>1, <2>2
<1>9. QED
  BY <1>2, <1>4, <1>6, <1>7, <1>8

\* maybe_switch_forks decides between nothing to do, one block more and a fork switch.
LEMMA SwitchKeeps ==
    ASSUME UsageInv, StoresInv, maybe_switch_forks
    PROVE  StoresInv'
<1> DEFINE new == pending_head
           first == Oldest(fetch_branch_from(new, head))
           second == Oldest(fetch_branch_from(head, new))
<1>1. /\ task.op = "switch" /\ SwitchInv /\ Files
      /\ UNCHANGED <<index, validated, root, fork_head, head, stack, rbi, blog, mode, bad, fork_file>>
  BY DEF maybe_switch_forks, StoresInv, PhaseInv, fork_vars, chain_vars, node_vars
<1>2. /\ mode = "speculative" /\ Settled /\ IInv /\ fork_head = head /\ head \in Block
      /\ index \subseteq Received /\ index \subseteq Block /\ head \in index \cup {root}
      /\ ChainFrom(stack, LogHead, head) /\ rbi = Above(head, LogHead) /\ Leads(validated, fork_head)
      /\ Final(head, LogHead) /\ task.caller \in {"idle", "best_loop"}
      /\ "idle" \in {"idle", "best_loop", "replay_rev"}
  BY <1>1, Known DEF SwitchInv, Settled
<1>3. /\ NoneBeats(index, new) /\ (new = head \/ (new \in index /\ first_preferred(new, head)))
  BY <1>2, PendingHead DEF PendingHeadIsBest, NoneBeats
<1>4. Settled' /\ Files' /\ LogHead' = LogHead
  BY <1>1, <1>2, SettledKept, FilesKept, Zenon DEF Files
<1>5. task' = IF new = head THEN Return(task.caller)
              ELSE IF new \in Received /\ Prev[new] = head
              THEN Task("extend", <<new>>, 0, <<>>, task.caller)
              ELSE Task("pop", first, 0, second, task.caller)
  BY DEF maybe_switch_forks, SwitchTarget
<1> HIDE DEF new
<1>6. CASE new = head
  <2>1. task'.op = task.caller
    BY <1>2, <1>5, <1>6, TaskShapes, Zenon
  <2>2. IdleInv' /\ LoopInv'
    BY <1>1, <1>2, <1>3, <1>4, <1>6 DEF IdleInv, LoopInv, NoneBeats
  <2>3. QED
    BY <1>2, <1>4, <2>1, <2>2 DEF StoresInv, PhaseInv
<1>7. CASE new # head
  <2>1. new \in index /\ first_preferred(new, head) /\ new \in Received
    BY <1>2, <1>3, <1>7
  <2>2. task.caller = "idle" => NoneBeats(index \ {new}, head)
    <3>1. ASSUME task.caller = "idle" PROVE NoneBeats(index \ {new}, head)
      <4>1. PICK x \in index : NoneBeats(index \ {x}, head)
        BY <1>1, <3>1 DEF SwitchInv
      <4>2. new = x
        BY <2>1, <4>1 DEF NoneBeats
      <4>3. QED
        BY <4>1, <4>2
    <3>2. QED
      BY <3>1
  <2>3. CASE Prev[new] = head
    <3>1. task' = Task("extend", <<new>>, 0, <<>>, task.caller)
      BY <1>5, <1>7, <2>1, <2>3
    <3>2. task'.op = "extend" /\ task'.caller = task.caller /\ task'.todo = <<new>>
      BY <1>2, <3>1, TaskParts
    <3>3. Head(task'.todo) = new
      BY <3>2
    <3>4. ExtendInv'
      <4>1. CASE task.caller = "idle"
        BY <1>1, <1>2, <1>4, <2>1, <2>2, <2>3, <3>2, <3>3, <4>1, Zenon DEF ExtendInv
      <4>2. CASE task.caller = "best_loop"
        <5>1. fork_head = root
          BY <1>1, <4>2 DEF SwitchInv
        <5>2. QED
          BY <1>1, <1>2, <1>3, <1>4, <2>1, <2>3, <3>2, <3>3, <4>2, <5>1, Zenon DEF ExtendInv
      <4>3. QED
        BY <1>2, <4>1, <4>2
    <3>5. QED
      BY <1>4, <3>2, <3>4 DEF StoresInv, PhaseInv
  <2>4. CASE Prev[new] # head
    <3>1. task' = Task("pop", first, 0, second, task.caller)
      BY <1>5, <1>7, <2>4
    <3>2. /\ task'.op = "pop" /\ task'.caller = task.caller /\ task'.todo = first /\ task'.done = 0
          /\ task'.undone = second
      BY <3>1 DEF Task
    <3>3. PICK p \in Block :
              /\ p \in Ancestry[head] /\ root \in Ancestry[p]
              /\ first \in Seq(Block) /\ Links(first, p) /\ Last(first) = new
              /\ Elems(first) \subseteq index \ Ancestry[head]
              /\ head = p => second = <<>>
              /\ head # p => /\ second \in Seq(Block) /\ Links(second, p) /\ Last(second) = head
                             /\ Elems(second) \subseteq index
      BY <1>2, <2>1, SwitchBranches, Zenon
    <3> HIDE DEF first, second
    <3>4. Head(first) \in Received /\ Prev[Head(first)] = p /\ Head(first) \in Elems(first)
      BY <3>3, LinksEnds
    <3>5. /\ Taking(p)' /\ OnBranch(p)' /\ Leads(validated', fork_head') /\ head' \in Ancestry[fork_head']
      <4>1. head \in Ancestry[head]
        BY <1>2, AncestryEnds
      <4>2. QED
        BY <1>1, <1>2, <1>4, <3>2, <3>3, <4>1 DEF Taking, OnBranch
    <3>6. CASE task.caller = "idle"
      <4>1. head # p
        <5>1. ASSUME head = p PROVE FALSE
          <6>1. Head(first) \in index /\ first_preferred(Head(first), head)
            BY <3>3, <3>4, <5>1, ChildPreferred
          <6>2. Head(first) = new
            BY <2>2, <3>6, <6>1 DEF NoneBeats
          <6>3. QED
            BY <2>4, <3>4, <5>1, <6>2
        <5>2. QED
          BY <5>1
      <4>2. Leaving(p)'
        BY <1>1, <1>2, <1>4, <3>2, <3>3, <3>6, <4>1, Zenon DEF Leaving
      <4>3. OnlyBetter'
        BY <1>1, <1>2, <2>1, <2>2, <3>2, <3>3, <3>6, Zenon DEF OnlyBetter
      <4>4. PopInv'
        BY <3>2, <3>4, <3>5, <4>2, <4>3, Zenon DEF PopInv
      <4>5. QED
        BY <1>4, <3>2, <4>4 DEF StoresInv, PhaseInv
    <3>7. CASE task.caller = "best_loop"
      <4>1. fork_head = root
        BY <1>1, <3>7 DEF SwitchInv
      <4>2. head = p
        <5>1. root \in Block /\ p \in Ancestry[root] /\ Num[p] <= Num[root] /\ Num[root] <= Num[p]
          BY <1>2, <3>3, <4>1, AncestryBelow DEF IInv, TypeOK
        <5>2. Num[p] = Num[root] /\ root \in Ancestry[root]
          BY <5>1, <3>3, TreeAssumption, AncestryEnds
        <5>3. QED
          BY <1>2, <4>1, <5>1, <5>2, AncestryUnique
      <4>3. FromRoot' /\ fork_head' = root'
        BY <1>1, <1>3, <3>2, <3>3, <3>7, <4>1, <4>2 DEF FromRoot
      <4>4. PopInv'
        BY <3>2, <3>4, <3>5, <4>3 DEF PopInv
      <4>5. QED
        BY <1>4, <3>2, <4>4 DEF StoresInv, PhaseInv
    <3>8. QED
      BY <1>2, <3>6, <3>7
  <2>5. QED
    BY <2>3, <2>4
<1>8. QED
  BY <1>6, <1>7

\* pop_block on a branch: it does not fail above the block q, and the stores follow the head.
LEMMA PopsOnBranch ==
    ASSUME UsageInv, Files, root = LogHead, task.op \notin {"down", "init"},
           NEW q, OnBranch(q), head \in index \cup {root}, head # root, q # head
    PROVE  /\ PopFails = "none"
           /\ Pops /\ UNCHANGED <<index, validated, root, fork_head, blog, mode, bad, fork_file>>
              => /\ Files' /\ LogHead' = LogHead /\ OnBranch(q)' /\ head' = Prev[head]
                 /\ head' \in index' \cup {root'}
<1>1. /\ IInv /\ head \in Block /\ head \in index /\ head # LogHead
  BY Known
<1>2. /\ ChainFrom(stack, LogHead, head) /\ rbi = Above(head, LogHead) /\ mode = "speculative"
      /\ q \in Ancestry[head] /\ root \in Ancestry[q]
  BY DEF OnBranch
<1>3. /\ head \in Received /\ Prev[head] \in Linkable /\ Len(stack) # 1
      /\ ChainFrom(Front(stack), LogHead, Prev[head])
  BY <1>1, <1>2, ChainShrinks DEF IInv, OneTree
<1>4. PopFails = "none"
  BY <1>3 DEF PopFails, Received
<1>5. ASSUME Pops /\ UNCHANGED <<index, validated, root, fork_head, blog, mode, bad, fork_file>>
      PROVE  /\ Files' /\ LogHead' = LogHead /\ OnBranch(q)' /\ head' = Prev[head]
             /\ head' \in index' \cup {root'}
  <2>1. /\ head' = Prev[head] /\ stack' = Front(stack) /\ rbi' \subseteq rbi
        /\ rbi' = {b \in Above(head, LogHead) : Num[b] # Num[head]}
    BY <1>2, <1>5 DEF Pops
  <2>2. LogHead \in Ancestry[Prev[head]] /\ rbi' = Above(Prev[head], LogHead) /\ Prev[head] \in Block
    <3>1. LogHead \in Ancestry[head]
      BY <1>2, ChainFacts
    <3>2. QED
      BY <1>1, <1>3, <2>1, <3>1, AbovePop, ChildPreferred
  <2>3. Files' /\ LogHead' = LogHead
    BY <1>2, <1>5, <2>1, <2>2, FilesMoved, Zenon DEF Files
  <2>4. q \in Ancestry[Prev[head]]
    BY <1>1, <1>2, AncestryStep, Zenon
  <2>5. OnBranch(q)'
    BY <1>2, <1>3, <1>5, <2>1, <2>2, <2>3, <2>4, Zenon DEF OnBranch
  <2>6. QED
    BY <1>3, <1>5, <2>1, <2>3, <2>5 DEF Linkable
<1>6. QED
  BY <1>4, <1>5

\* pop_block in a fork switch: the blocks of the old branch go, down to the fork, and no further.
LEMMA PopKeeps ==
    ASSUME UsageInv, StoresInv, pop_branch
    PROVE  StoresInv'
<1>1. task.op = "pop" /\ PopInv /\ Files
  BY Zenon DEF pop_branch, StoresInv, PhaseInv
<1>0. PICK p : p = Prev[Head(task.todo)]
  OBVIOUS
<1>2. /\ Taking(p) /\ OnBranch(p) /\ task.done = 0
      /\ Leads(validated, fork_head) /\ head \in Ancestry[fork_head]
      /\ \/ Leaving(p) /\ OnlyBetter
         \/ FromRoot /\ fork_head = root
  BY <1>1, <1>0, Zenon DEF PopInv
<1>3. /\ IInv /\ head \in Block /\ fork_head \in Block /\ root \in Block /\ index \subseteq Block /\ TaskShape(task)
      /\ task.todo \in Seq(Block) /\ task.undone \in Seq(Block) /\ root = LogHead /\ root \notin index
      /\ fork_head \in validated \cup {root}
  BY <1>1, Known DEF Starting
<1>4. /\ Links(task.todo, p) /\ p \in Ancestry[head] /\ root \in Ancestry[p] /\ mode = "speculative"
      /\ ChainFrom(stack, LogHead, head) /\ rbi = Above(head, LogHead) /\ p \in Block
  <2>1. Links(task.todo, p) /\ p \in Ancestry[head] /\ root \in Ancestry[p] /\ mode = "speculative"
        /\ ChainFrom(stack, LogHead, head) /\ rbi = Above(head, LogHead)
    BY <1>2 DEF Taking, OnBranch
  <2>2. QED
    BY <2>1, <1>3, AncestryBelow
<1>5. Leaving(p) => /\ Elems(task.undone) = Above(fork_head, p) /\ Prev[Head(task.undone)] = p
                    /\ Elems(task.undone) \subseteq index
  BY <1>3, LinksEnds DEF Leaving
<1>6. CASE head \notin Elems(task.undone)
  <2>1. Num[p] <= Num[head] /\ Num[p] \in Nat /\ Num[head] \in Nat /\ head \in Ancestry[head]
    BY <1>3, <1>4, AncestryBelow, AncestryEnds, TreeAssumption
  <2>2. ~(Num[head] > Num[p])
    <3>1. CASE Leaving(p)
      BY <1>2, <1>5, <1>6, <3>1 DEF Above
    <3>2. CASE fork_head = root
      <4>1. Num[head] <= Num[root] /\ Num[root] <= Num[p]
        BY <1>2, <1>3, <1>4, <3>2, AncestryBelow
      <4>2. QED
        BY <4>1, <2>1, <1>3, TreeAssumption
    <3>3. QED
      BY <1>2, <3>1, <3>2
  <2>3. head = p
    <3>1. Num[p] = Num[head]
      BY <2>1, <2>2
    <3>2. QED
      BY <1>3, <1>4, <2>1, <3>1, AncestryUnique
  <2>4. /\ task' = [task EXCEPT !.op = "apply"]
        /\ UNCHANGED <<index, validated, root, fork_head, head, stack, rbi, blog, mode, bad, fork_file>>
    <3>1. task.todo # <<>>
      BY <1>4 DEF Links
    <3>2. task.undone # <<>> => head = Prev[Head(task.undone)]
      BY <1>2, <1>5, <2>3 DEF FromRoot
    <3>3. head \notin {task.undone[i] : i \in DOMAIN task.undone}
      BY <1>6 DEF Elems
    <3>4. QED
      BY <3>1, <3>2, <3>3, Zenon DEF pop_branch, fork_vars, chain_vars, node_vars
  <2>5. /\ task'.op = "apply" /\ task'.todo = task.todo /\ task'.done = 0
        /\ task'.undone = task.undone /\ task'.caller = task.caller
    BY <1>2, <1>3, <2>4, TaskExceptParts
  <2>6. Files' /\ LogHead' = LogHead
    BY <1>1, <2>4, FilesKept DEF Files
  <2>7. Taking(head)' /\ head' \in validated' \cup {root'}
    <3>1. head \in validated \cup {root}
      BY <1>2, <1>3, <1>4, <2>3, ValidatedBranch
    <3>2. QED
      BY <1>2, <2>3, <2>4, <2>5, <3>1 DEF Taking
  <2>8. CASE Leaving(p) /\ OnlyBetter
    <3>1. Leaving(p)' /\ OnBranch(p)' /\ OnlyBetter'
      BY <1>2, <2>4, <2>5, <2>6, <2>8 DEF Leaving, OnBranch, OnlyBetter
    <3>2. Prev[Head(task'.undone)] = p /\ Num[head'] = Num[p] + task'.done /\ task'.done \in Nat
      BY <1>5, <2>1, <2>3, <2>4, <2>5, <2>8
    <3>3. \A c \in validated' \ {fork_head'} : Precedes(fork_head', c)
      BY <1>2, <2>4 DEF Leads
    <3>4. ApplyInv'
      BY <2>7, <3>1, <3>2, <3>3 DEF ApplyInv
    <3>5. QED
      BY <2>5, <2>6, <3>4 DEF StoresInv, PhaseInv
  <2>9. CASE FromRoot /\ fork_head = root
    <3>1. head = root
      <4>1. Num[head] <= Num[root] /\ Num[root] <= Num[p]
        BY <1>2, <1>3, <1>4, <2>9, AncestryBelow
      <4>2. Num[root] = Num[head] /\ root \in Ancestry[head]
        BY <4>1, <2>3, <1>3, <1>4, TreeAssumption
      <4>3. QED
        BY <4>2, <2>1, <1>3, AncestryUnique
    <3>2. FromRoot' /\ OnBranch(root)'
      BY <1>2, <2>3, <2>4, <2>5, <2>6, <2>9, <3>1 DEF FromRoot, OnBranch
    <3>3. Num[head'] = Num[root'] + task'.done /\ task'.done \in Nat /\ fork_head' = head'
      BY <2>1, <2>4, <2>5, <2>9, <3>1
    <3>4. ApplyInv'
      BY <1>2, <2>4, <2>7, <3>2, <3>3 DEF ApplyInv
    <3>5. QED
      BY <2>5, <2>6, <3>4 DEF StoresInv, PhaseInv
  <2>10. QED
    BY <1>2, <2>8, <2>9
<1>7. CASE head \in Elems(task.undone)
  <2>1. Leaving(p) /\ OnlyBetter
    <3>1. task.undone # <<>>
      BY <1>7 DEF Elems
    <3>2. QED
      BY <1>2, <3>1 DEF FromRoot
  <2>2. head \in index /\ head # p /\ head # root
    <3>1. head \in index /\ Num[head] > Num[p]
      BY <1>5, <1>7, <2>1 DEF Above
    <3>2. head # p
      BY <3>1, <1>4, TreeAssumption
    <3>3. QED
      BY <3>1, <3>2, <1>3
  <2>3. /\ PopFails = "none"
        /\ Pops /\ UNCHANGED <<index, validated, root, fork_head, blog, mode, bad, fork_file>>
           => Files' /\ LogHead' = LogHead /\ OnBranch(p)' /\ head' = Prev[head]
    BY <1>1, <1>2, <1>3, <2>2, PopsOnBranch
  <2>4. Pops /\ UNCHANGED <<index, validated, root, fork_head, blog, mode, bad, fork_file, task>>
    <3>1. head \in {task.undone[i] : i \in DOMAIN task.undone}
      BY <1>7 DEF Elems
    <3>2. QED
      BY <2>3, <3>1, Zenon DEF pop_branch, fork_vars, node_vars
  <2>5. Files' /\ LogHead' = LogHead /\ OnBranch(p)' /\ head' = Prev[head]
    BY <2>3, <2>4
  <2>6. Prev[head] \in Ancestry[fork_head]
    BY <1>2, <1>3, <1>4, <2>2, AncestryStep, AncestryPrev, Zenon
  <2>7. Taking(p)' /\ Leaving(p)' /\ OnlyBetter'
    BY <1>2, <2>1, <2>4, <2>5, Zenon DEF Taking, Leaving, OnlyBetter
  <2>8. Prev[Head(task'.todo)] = p /\ task'.op = "pop" /\ task'.done = 0
    BY <1>0, <1>1, <1>2, <2>4
  <2>9. PopInv'
    BY <1>2, <2>4, <2>5, <2>6, <2>7, <2>8 DEF PopInv
  <2>10. QED
    BY <2>5, <2>8, <2>9 DEF StoresInv, PhaseInv
<1>8. QED
  BY <1>6, <1>7

\* A block that extends the head: applied, or thrown out with whatever builds on it.
LEMMA ExtendKeeps ==
    ASSUME UsageInv, StoresInv, extend_head
    PROVE  StoresInv'
<1>1. task.op = "extend" /\ ExtendInv /\ Files
  BY Zenon DEF extend_head, StoresInv, PhaseInv
<1>2. PICK b : b = Head(task.todo)
  OBVIOUS
<1>3. /\ mode = "speculative" /\ b \in index /\ Prev[b] = head
      /\ \/ task.caller = "idle" /\ Settled /\ NoneBeats(index \ {b}, head)
         \/ task.caller = "best_loop" /\ Settled /\ fork_head = root /\ NoneBeats(index, b)
         \/ /\ task.caller = "replay_rev" /\ Replaying /\ b \in rbi /\ Final(fork_head, LogHead)
            /\ \/ b \in Ancestry[fork_head] /\ NoneBeats(index, fork_head)
               \/ head = fork_head /\ NoneBeats(index \ {b}, head)
  BY <1>1, <1>2 DEF ExtendInv
<1>4. /\ IInv /\ b \in Received /\ b \in Block /\ head \in Block /\ fork_head \in Block /\ index \subseteq Block
      /\ task.caller \in {"idle", "best_loop", "replay_rev"} /\ root = LogHead /\ root \notin index
      /\ fork_head \in validated \cup {root} /\ validated \subseteq index
  BY <1>1, <1>3, Known DEF Starting
<1>5. /\ ChainFrom(stack, LogHead, head) /\ (Stores => rbi = Above(head, LogHead))
      /\ Leads(validated, fork_head)
  BY <1>3, Zenon DEF Settled, Replaying, Stores
<1>6. ApplyFails(b) = "none"
  BY <1>3, <1>4, <1>5, ApplySucceeds
<1>7. CASE Rejects(b)
  <2>1. /\ Settled /\ fork_head = head /\ task.caller \in {"idle", "best_loop"}
        /\ task.caller = "best_loop" => fork_head = root
        /\ task.caller = "idle" => NoneBeats(index \ {b}, head)
    BY <1>1, <1>3, <1>7, Zenon DEF Rejects, Files, Settled
  <2>2. b \notin Ancestry[fork_head]
    <3>1. ASSUME b \in Ancestry[head] PROVE FALSE
      <4>1. Num[b] <= Num[head] /\ Num[Prev[b]] < Num[b]
        BY <1>4, <3>1, AncestryBelow, ChildPreferred
      <4>2. Prev[b] = head
        BY <1>3
      <4>3. Num[b] \in Nat /\ Num[head] \in Nat
        BY <1>4, TreeAssumption
      <4>4. QED
        BY <4>1, <4>2, <4>3
    <3>2. QED
      BY <2>1, <3>1, Zenon
  <2>3. remove_queue(index, b) = {c \in index : b \in Ancestry[c]} /\ fork_head \notin remove_queue(index, b)
    BY <1>3, <1>4, <2>2, RemovedBlocks
  <2>4. /\ remove(b) /\ task' = Thrown(task.caller)
        /\ UNCHANGED <<head, stack, rbi, blog, mode, bad, fork_file>>
    BY <1>2, <1>7, <2>3, Zenon DEF extend_head, chain_vars, node_vars
  <2>5. validated' \subseteq validated /\ index' \subseteq index \ {b} /\ fork_head' = fork_head /\ root' = root
    <3>1. b \in remove_queue(index, b)
      BY <1>3, <1>4, <2>3, AncestryEnds
    <3>2. QED
      BY <2>4, <3>1 DEF remove
  <2>6. Settled' /\ Files' /\ LogHead' = LogHead
    BY <1>1, <2>1, <2>4, <2>5, SettledKept, FilesKept, Zenon DEF Files
  <2>7. CASE task.caller = "idle"
    <3>1. task'.op = "idle"
      BY <1>4, <2>4, <2>7, TaskShapes DEF Thrown
    <3>2. IdleInv'
      BY <2>1, <2>4, <2>5, <2>6, <2>7 DEF IdleInv, NoneBeats
    <3>3. QED
      BY <2>6, <3>1, <3>2 DEF StoresInv, PhaseInv
  <2>8. CASE task.caller = "best_loop"
    <3>1. task'.op = "down"
      BY <1>4, <2>4, <2>8, TaskShapes DEF Thrown
    <3>2. Written'
      BY <1>4, <2>1, <2>4, <2>5, <2>6, <2>8 DEF Written, Settled
    <3>3. DownInv'
      BY <1>1, <1>3, <1>5, <2>1, <2>4, <2>5, <2>6, <3>2, Zenon DEF DownInv, Files
    <3>4. QED
      BY <2>6, <3>1, <3>3 DEF StoresInv, PhaseInv
  <2>9. QED
    BY <2>1, <2>7, <2>8
<1>8. CASE ~Rejects(b)
  <2>1. /\ Applies(b) /\ task' = At("log", task.caller) /\ UNCHANGED <<blog, mode, bad, fork_file>>
        /\ IF b \in validated THEN UNCHANGED fork_vars ELSE mark_valid(b)
        /\ b \notin bad
    BY <1>2, <1>6, <1>8 DEF extend_head, node_vars, Rejects
  <2>2. CASE head = fork_head /\ (NoneBeats(index \ {b}, head) \/ NoneBeats(index, b))
    <3>1. first_preferred(b, fork_head)
      BY <1>3, <1>4, <2>2, ChildPreferred, Zenon
    <3>2. b \notin validated
      BY <1>4, <3>1, MarkMoves
    <3>3. NoneBeats(index, b)
      BY <1>3, <1>4, <2>2, ChildIsBest
    <3>4. \/ task.caller # "replay_rev" /\ rbi = Above(head, LogHead)
          \/ /\ task.caller = "replay_rev" /\ b \in rbi
             /\ \E top \in Block : fork_head \in Ancestry[top] /\ rbi = Above(top, LogHead)
      BY <1>3, Zenon DEF Settled, Replaying
    <3>5. /\ Files' /\ LogHead' = LogHead /\ head' = b /\ fork_head' = b /\ Leads(validated', b)
          /\ ChainFrom(stack', LogHead, b) /\ NoneBeats(index', b)
          /\ task.caller # "replay_rev" => rbi' = Above(b, LogHead)
          /\ task.caller = "replay_rev"
             => \E top \in Block : b \in Ancestry[top] /\ rbi' = Above(top, LogHead)
      BY <1>1, <1>3, <1>5, <2>1, <2>2, <3>2, <3>3, <3>4, HeadExtended, Zenon
    <3>6. QED
      BY <1>3, <1>4, <2>1, <3>5, GoesToLog, Zenon
  <2>3. CASE /\ task.caller = "replay_rev" /\ Replaying /\ b \in rbi /\ Final(fork_head, LogHead)
             /\ b \in Ancestry[fork_head] /\ NoneBeats(index, fork_head)
    <3>1. b \in validated
      <4>1. root \in Ancestry[b]
        BY <1>3, <1>4, BranchToRoot
      <4>2. QED
        BY <1>3, <1>4, <2>3, <4>1, ValidatedBranch
    <3>2. UNCHANGED <<index, validated, root, fork_head>>
      BY <2>1, <3>1 DEF fork_vars
    <3>3. ~Stores
      BY <2>3 DEF Stores
    <3>4. /\ head' = b /\ ChainFrom(stack', LogHead, b) /\ rbi' = rbi /\ LogHead' = LogHead
      BY <1>3, <1>4, <1>5, <2>1, <3>3, AppliedBlock, Zenon
    <3>5. Files'
      BY <1>1, <2>1, <3>2, <3>4, FilesKept, Zenon DEF Files
    <3>6. task'.op = "log" /\ task'.caller = "replay_rev"
      BY <2>1, <2>3 DEF At, Task
    <3>7. BelowHead'
      BY <1>3, <2>1, <2>3, <3>2, <3>4, <3>6, Zenon DEF BelowHead, Reversible, Replaying
    <3>8. LogInv'
      BY <2>3, <3>2, <3>4, <3>6, <3>7 DEF LogInv
    <3>9. QED
      BY <3>5, <3>6, <3>8 DEF StoresInv, PhaseInv
  <2>4. QED
    BY <1>3, <2>2, <2>3 DEF Settled
<1>9. QED
  BY <1>7, <1>8

\* What a failing block of the new branch leaves behind: it and what builds on it is gone, what
\* the switch left is still there, and it comes first again.
LEMMA SwitchFails ==
    ASSUME TiesSettled, UsageInv, Files, ApplyInv, task.op = "apply", NEW b, b = Head(task.todo), b \in bad,
           remove(b), task' = [task EXCEPT !.op = "revert"],
           UNCHANGED <<head, stack, rbi, blog, mode, bad, fork_file>>
    PROVE  StoresInv'
<1>1. PICK p : p = Prev[Head(task.undone)]
  OBVIOUS
<1>2. /\ Taking(head) /\ task.done \in Nat /\ head \in validated \cup {root}
      /\ \/ /\ Leaving(p) /\ OnBranch(p) /\ OnlyBetter /\ Num[head] = Num[p] + task.done
            /\ \A c \in validated \ {fork_head} :
                  Precedes(fork_head, c) \/ (task.done > 0 /\ c = head)
         \/ FromRoot /\ OnBranch(root) /\ Num[head] = Num[root] + task.done
  BY <1>1 DEF ApplyInv
<1>3. /\ IInv /\ head \in Block /\ fork_head \in Block /\ index \subseteq Block /\ TaskShape(task)
      /\ task.todo \in Seq(Block) /\ task.undone \in Seq(Block) /\ validated \subseteq index
      /\ fork_head \in validated \cup {root} /\ HeadIsBest
  BY Known DEF IInv
<1>4. /\ b \in Received /\ b \in Block /\ Prev[b] = head /\ b \in index /\ b \notin Ancestry[fork_head]
      /\ Last(task.todo) \in Block /\ b \in Ancestry[Last(task.todo)]
  <2>1. Links(task.todo, head) /\ Elems(task.todo) \subseteq index \ Ancestry[fork_head]
    BY <1>2 DEF Taking
  <2>2. /\ b \in Received /\ Prev[b] = head /\ b \in Elems(task.todo) /\ Last(task.todo) \in Received
        /\ Elems(task.todo) = Above(Last(task.todo), head)
    BY <1>3, <2>1, LinksEnds
  <2>3. QED
    BY <1>3, <2>1, <2>2 DEF Above, Received
<1>5. remove_queue(index, b) = {c \in index : b \in Ancestry[c]}
  BY <1>3, <1>4, RemovedBlocks
<1>6. /\ index' = {c \in index : b \notin Ancestry[c]} /\ validated' \subseteq validated
      /\ fork_head' = fork_head /\ root' = root
  BY <1>5 DEF remove
<1>7. Files' /\ LogHead' = LogHead
  BY <1>6, FilesKept DEF Files
<1>8. /\ task'.op = "revert" /\ task'.todo = task.todo /\ task'.done = task.done
      /\ task'.undone = task.undone /\ task'.caller = task.caller
  BY <1>3, TaskExceptParts
<1>9. head' \in index' \cup {root'}
  <2>1. b \notin Ancestry[head]
    <3>1. ASSUME b \in Ancestry[head] PROVE FALSE
      <4>1. Num[b] <= Num[head] /\ Num[Prev[b]] < Num[b]
        BY <1>3, <1>4, <3>1, AncestryBelow, ChildPreferred
      <4>2. QED
        BY <1>3, <1>4, <4>1, TreeAssumption
    <3>2. QED
      BY <3>1
  <2>2. QED
    BY <1>2, <1>3, <1>6, <2>1
<1>10. CASE /\ Leaving(p) /\ OnBranch(p) /\ OnlyBetter /\ Num[head] = Num[p] + task.done
            /\ \A c \in validated \ {fork_head} : Precedes(fork_head, c) \/ (task.done > 0 /\ c = head)
  <2>1. Elems(task.undone) \subseteq index'
    <3>1. Elems(task.undone) = Above(fork_head, p) /\ Elems(task.undone) \subseteq index
      BY <1>3, <1>10, LinksEnds DEF Leaving
    <3>2. ASSUME NEW c \in Elems(task.undone) PROVE b \notin Ancestry[c]
      <4>1. c \in Ancestry[fork_head]
        BY <3>1 DEF Above
      <4>2. QED
        BY <1>3, <1>4, <4>1, AncestryTransitive
    <3>3. QED
      BY <1>6, <3>1, <3>2
  <2>2. Leaving(p)'
    BY <1>6, <1>7, <1>8, <1>10, <2>1 DEF Leaving
  <2>3. OnBranch(p)'
    BY <1>6, <1>7, <1>10 DEF OnBranch
  <2>4. NoneBeats(index', fork_head')
    BY <1>4, <1>6, <1>10 DEF OnlyBetter, NoneBeats
  <2>5. Leads(validated', fork_head')
    <3>1. ASSUME head \in validated, head # fork_head PROVE Precedes(fork_head, head)
      <4>1. ~first_preferred(head, fork_head)
        BY <1>3, <3>1 DEF HeadIsBest
      <4>2. Lib[fork_head] = Lib[head] /\ Num[fork_head] = Num[head] => Rank[fork_head] < Rank[head]
        BY <1>3, <1>4, <3>1 DEF TiesSettled, Files
      <4>3. /\ Lib[fork_head] \in Nat /\ Lib[head] \in Nat /\ Num[fork_head] \in Nat /\ Num[head] \in Nat
        BY <1>3, TreeAssumption
      <4>4. first_preferred(fork_head, head) \/ (Lib[fork_head] = Lib[head] /\ Num[fork_head] = Num[head])
        BY <4>1, <4>3 DEF first_preferred
      <4>5. QED
        BY <4>1, <4>2, <4>4 DEF Precedes
    <3>2. QED
      BY <1>6, <1>10, <3>1 DEF Leads
  <2>6. Prev[Head(task'.undone)] = p /\ Num[head'] = Num[p] + task'.done /\ task'.done \in Nat
    BY <1>1, <1>2, <1>8, <1>10
  <2>7. RevertInv'
    BY <1>9, <2>2, <2>3, <2>4, <2>5, <2>6 DEF RevertInv
  <2>8. QED
    BY <1>7, <1>8, <2>7 DEF StoresInv, PhaseInv
<1>11. CASE FromRoot /\ OnBranch(root) /\ Num[head] = Num[root] + task.done
  <2>1. task'.undone = <<>> /\ Num[head'] = Num[root'] + task'.done /\ task'.done \in Nat
    BY <1>2, <1>6, <1>8, <1>11 DEF FromRoot
  <2>2. OnBranch(root)'
    BY <1>6, <1>7, <1>11 DEF OnBranch
  <2>3. RevertInv'
    BY <1>9, <2>1, <2>2 DEF RevertInv
  <2>4. QED
    BY <1>7, <1>8, <2>3 DEF StoresInv, PhaseInv
<1>12. QED
  BY <1>2, <1>10, <1>11

\* A block of the new branch that is not the last.
LEMMA SwitchGoesOn ==
    ASSUME UsageInv, Files, ApplyInv, task.op = "apply", NEW b, b = Head(task.todo), b \notin bad, Len(task.todo) # 1,
           Applies(b), IF b \in validated THEN UNCHANGED fork_vars ELSE mark_valid(b),
           task' = [task EXCEPT !.todo = Tail(@), !.done = @ + 1],
           UNCHANGED <<blog, mode, bad, fork_file>>,
           Files', LogHead' = LogHead, head' = b, ChainFrom(stack', LogHead, b), rbi' = Above(b, LogHead)
    PROVE  StoresInv'
<1>1. PICK p, t : p = Prev[Head(task.undone)] /\ t = Last(task.todo)
  OBVIOUS
<1>2. /\ Taking(head) /\ task.done \in Nat /\ head \in validated \cup {root}
      /\ \/ /\ Leaving(p) /\ OnBranch(p) /\ OnlyBetter /\ Num[head] = Num[p] + task.done
            /\ \A c \in validated \ {fork_head} :
                  Precedes(fork_head, c) \/ (task.done > 0 /\ c = head)
         \/ /\ FromRoot /\ OnBranch(root) /\ Num[head] = Num[root] + task.done
            /\ fork_head = head /\ Leads(validated, fork_head)
  BY <1>1 DEF ApplyInv
<1>3. /\ IInv /\ head \in Block /\ fork_head \in Block /\ index \subseteq Block /\ TaskShape(task)
      /\ task.todo \in Seq(Block) /\ validated \subseteq index /\ root \in Block
  BY Known
<1>4. /\ b \in Received /\ b \in Block /\ Prev[b] = head /\ b \in index /\ t \in index
      /\ Links(Tail(task.todo), b) /\ Last(Tail(task.todo)) = t /\ Tail(task.todo) \in Seq(Block)
      /\ Elems(Tail(task.todo)) \subseteq index \ Ancestry[fork_head]
      /\ Elems(Tail(task.todo)) = Above(t, b) /\ t # b
  <2>1. Links(task.todo, head) /\ Elems(task.todo) \subseteq index \ Ancestry[fork_head]
    BY <1>2 DEF Taking
  <2>2. /\ b \in Received /\ Prev[b] = head /\ b \in Elems(task.todo) /\ t \in Elems(task.todo)
    BY <1>1, <1>3, <2>1, LinksEnds
  <2>3. /\ Tail(task.todo) \in Seq(Block) /\ Links(Tail(task.todo), b) /\ Last(Tail(task.todo)) = t
        /\ Elems(Tail(task.todo)) \subseteq Elems(task.todo)
    BY <1>1, <1>3, <2>1, ChainTail
  <2>4. Elems(Tail(task.todo)) = Above(t, b) /\ t \in Above(t, b)
    <3>1. PICK w : w = Tail(task.todo)
      BY Zenon
    <3>2. w \in Seq(Block) /\ Links(w, b) /\ Last(w) = t
      BY <2>3, <3>1
    <3>3. Elems(w) = Above(Last(w), b) /\ Last(w) \in Elems(w)
      BY <3>2, LinksEnds, Zenon
    <3>4. QED
      BY <3>1, <3>2, <3>3
  <2>5. t # b
    <3>1. Num[t] > Num[b]
      BY <2>4 DEF Above
    <3>2. QED
      BY <1>3, <2>1, <2>2, <3>1, TreeAssumption
  <2>6. QED
    BY <1>3, <2>1, <2>2, <2>3, <2>4, <2>5
<1>5. /\ task'.op = "apply" /\ task'.todo = Tail(task.todo) /\ task'.done = task.done + 1
      /\ task'.undone = task.undone /\ task'.caller = task.caller
  BY <1>3, TaskExceptParts
<1>6. validated' = validated \cup {b} /\ index' = index /\ root' = root
  BY DEF mark_valid, fork_vars
<1>7. Num[b] = Num[head] + 1 /\ task'.done \in Nat /\ task'.done > 0 /\ head \in Ancestry[b]
  <2>1. Num[b] = Num[head] + 1
    BY <1>4, TreeAssumption DEF Received
  <2>2. head \in Ancestry[b]
    BY <1>4, AncestryEnds, AncestryPrev
  <2>3. QED
    BY <1>2, <1>5, <2>1, <2>2
<1>8. CASE /\ Leaving(p) /\ OnBranch(p) /\ OnlyBetter /\ Num[head] = Num[p] + task.done
           /\ \A c \in validated \ {fork_head} : Precedes(fork_head, c) \/ (task.done > 0 /\ c = head)
  <2>1. ~first_preferred(b, fork_head)
    BY <1>1, <1>4, <1>8 DEF OnlyBetter, NoneBeats
  <2>2. fork_head' = fork_head
    <3>1. HeadAfterMark(validated \cup {b}, fork_head) = fork_head
      BY <1>3, <1>4, <2>1, MarkStays
    <3>2. QED
      BY <1>6, <3>1 DEF mark_valid, fork_vars
  <2>3. Taking(head)'
    BY <1>4, <1>5, <1>6, <2>2 DEF Taking
  <2>4. Leaving(p)' /\ OnlyBetter'
    BY <1>1, <1>4, <1>5, <1>6, <1>8, <2>2, Zenon DEF Leaving, OnlyBetter
  <2>5. OnBranch(p)'
    <3>1. p \in Ancestry[b]
      BY <1>4, <1>7, <1>8, AncestryTransitive DEF OnBranch
    <3>2. QED
      BY <1>6, <1>8, <3>1 DEF OnBranch
  <2>6. Num[head'] = Num[p] + task'.done
    <3>1. p \in Block
      BY <1>3, <1>8, AncestryBelow DEF OnBranch
    <3>2. Num[p] \in Nat
      BY <3>1, TreeAssumption
    <3>3. QED
      BY <1>2, <1>5, <1>7, <1>8, <3>2
  <2>7. \A c \in validated' \ {fork_head'} : Precedes(fork_head', c) \/ (task'.done > 0 /\ c = head')
    <3>1. ASSUME NEW c \in validated, c = head PROVE Precedes(fork_head, c)
      <4>1. first_preferred(b, head)
        BY <1>4, ChildPreferred
      <4>2. QED
        BY <1>3, <1>4, <2>1, <3>1, <4>1, Preference
    <3>2. QED
      BY <1>6, <1>7, <1>8, <2>2, <3>1
  <2>8. Prev[Head(task'.undone)] = p
    BY <1>1, <1>5
  <2>9. ApplyInv'
    BY <1>6, <1>7, <2>3, <2>4, <2>5, <2>6, <2>7, <2>8 DEF ApplyInv
  <2>10. QED
    BY <1>5, <2>9 DEF StoresInv, PhaseInv
<1>9. CASE /\ FromRoot /\ OnBranch(root) /\ Num[head] = Num[root] + task.done
           /\ fork_head = head /\ Leads(validated, fork_head)
  <2>1. first_preferred(b, fork_head)
    BY <1>4, <1>9, ChildPreferred
  <2>2. b \notin validated /\ HeadAfterMark(validated \cup {b}, fork_head) = b /\ Leads(validated \cup {b}, b)
    BY <1>3, <1>4, <2>1, MarkMoves, Zenon
  <2>3. fork_head' = b /\ Leads(validated', fork_head')
    BY <1>6, <2>2 DEF mark_valid
  <2>4. Taking(head)'
    <3>1. ASSUME NEW c \in Above(t, b) PROVE c \notin Ancestry[b]
      <4>1. c \in Block /\ Num[c] > Num[b]
        BY <1>3, <1>4, AncestryBelow DEF Above
      <4>2. c \in Ancestry[b] => Num[c] <= Num[b]
        BY <1>4, AncestryBelow
      <4>3. QED
        BY <1>4, <4>1, <4>2, TreeAssumption
    <3>2. QED
      BY <1>4, <1>5, <1>6, <2>3, <3>1 DEF Taking
  <2>5. FromRoot'
    BY <1>1, <1>4, <1>5, <1>6, <1>9 DEF FromRoot
  <2>6. OnBranch(root)'
    <3>1. root \in Ancestry[b]
      BY <1>4, <1>7, <1>9, AncestryTransitive DEF OnBranch
    <3>2. QED
      BY <1>6, <1>9, <3>1 DEF OnBranch
  <2>7. Num[head'] = Num[root'] + task'.done
    <3>1. Num[root] \in Nat
      BY <1>3, TreeAssumption
    <3>2. QED
      BY <1>2, <1>5, <1>6, <1>7, <1>9, <3>1
  <2>8. ApplyInv'
    BY <1>6, <1>7, <2>3, <2>4, <2>5, <2>6, <2>7 DEF ApplyInv
  <2>9. QED
    BY <1>5, <2>8 DEF StoresInv, PhaseInv
<1>10. QED
  BY <1>2, <1>8, <1>9

\* One block of the new branch.
LEMMA ApplyKeeps ==
    ASSUME TiesSettled, UsageInv, StoresInv, apply_branch
    PROVE  StoresInv'
<1>1. task.op = "apply" /\ ApplyInv /\ Files
  BY Zenon DEF apply_branch, StoresInv, PhaseInv
<1>2. PICK b, p : b = Head(task.todo) /\ p = Prev[Head(task.undone)]
  OBVIOUS
<1>3. /\ Taking(head) /\ head \in validated \cup {root}
      /\ \/ Leaving(p) /\ OnBranch(p) /\ OnlyBetter
         \/ FromRoot /\ OnBranch(root) /\ fork_head = head /\ Leads(validated, fork_head)
  BY <1>1, <1>2 DEF ApplyInv
<1>4. /\ IInv /\ head \in Block /\ fork_head \in Block /\ index \subseteq Block /\ TaskShape(task)
      /\ task.todo \in Seq(Block) /\ validated \subseteq index
      /\ task.caller \in {"idle", "best_loop", "replay_rev"}
  BY Known
<1>5. /\ b \in Received /\ b \in Block /\ Prev[b] = head /\ b \in index /\ b \notin Ancestry[fork_head]
      /\ Len(task.todo) = 1 => Last(task.todo) = b
  BY <1>2, <1>3, <1>4, LinksEnds, Zenon DEF Taking
<1>6. /\ ChainFrom(stack, LogHead, head) /\ rbi = Above(head, LogHead) /\ mode = "speculative"
      /\ task.caller # "replay_rev" /\ Stores
  BY <1>3, Zenon DEF OnBranch, Leaving, FromRoot, Stores
<1>7. ApplyFails(b) = "none"
  BY <1>5, <1>6, ApplySucceeds
<1>8. CASE Rejects(b)
  <2>1. fork_head \notin remove_queue(index, b)
    BY <1>4, <1>5, RemovedBlocks
  <2>2. /\ remove(b) /\ task' = [task EXCEPT !.op = "revert"]
        /\ UNCHANGED <<head, stack, rbi, blog, mode, bad, fork_file>>
    BY <1>2, <1>8, <2>1 DEF apply_branch, chain_vars, node_vars
  <2>3. QED
    BY <1>1, <1>2, <1>8, <2>2, SwitchFails DEF Rejects
<1>9. CASE ~Rejects(b)
  <2>1. /\ Applies(b) /\ UNCHANGED <<blog, mode, bad, fork_file>> /\ b \notin bad
        /\ IF b \in validated THEN UNCHANGED fork_vars ELSE mark_valid(b)
        /\ task' = IF Len(task.todo) = 1 THEN At("log", task.caller)
                   ELSE [task EXCEPT !.todo = Tail(@), !.done = @ + 1]
    BY <1>2, <1>7, <1>9 DEF apply_branch, node_vars, Rejects
  <2>2. /\ head' = b /\ ChainFrom(stack', LogHead, b) /\ LogHead \in Ancestry[b] /\ LogHead' = LogHead
        /\ rbi' = Above(b, LogHead)
    BY <1>5, <1>6, <2>1, AppliedBlock
  <2>3. validated' = validated \cup {b} /\ rbi' = rbi \cup {b} /\ index' = index
    BY <1>6, <2>1 DEF Applies, mark_valid, fork_vars
  <2>4. Files'
    <3>1. validated' \cap bad = {} /\ rbi' \cap bad = {}
      BY <1>1, <2>1, <2>3 DEF Files
    <3>2. QED
      BY <1>1, <1>5, <1>6, <2>1, <2>2, <3>1, FilesMoved
  <2>5. CASE Len(task.todo) = 1
    <3>1. first_preferred(b, fork_head) /\ NoneBeats(index, b)
      <4>1. CASE OnlyBetter
        <5>1. first_preferred(b, fork_head) /\ NoneBeats(index \ {b}, fork_head)
          BY <1>5, <2>5, <4>1 DEF OnlyBetter
        <5>2. ~first_preferred(b, b)
          BY <1>5, PreferredOrder
        <5>3. QED
          BY <1>4, <1>5, <5>1, <5>2, Preference DEF NoneBeats
      <4>2. CASE FromRoot /\ fork_head = head
        BY <1>5, <2>5, <4>2, ChildPreferred DEF FromRoot
      <4>3. QED
        BY <1>3, <4>1, <4>2
    <3>2. b \notin validated /\ HeadAfterMark(validated \cup {b}, fork_head) = b /\ Leads(validated \cup {b}, b)
      BY <1>4, <1>5, <3>1, MarkMoves, Zenon
    <3>3. fork_head' = b
      BY <2>1, <2>3, <3>2 DEF mark_valid
    <3>4. QED
      BY <1>4, <1>5, <1>6, <2>1, <2>2, <2>3, <2>4, <2>5, <3>1, <3>2, <3>3, GoesToLog
  <2>6. CASE Len(task.todo) # 1
    BY <1>1, <1>2, <2>1, <2>2, <2>4, <2>6, SwitchGoesOn
  <2>7. QED
    BY <2>5, <2>6
<1>10. QED
  BY <1>8, <1>9

\* The blocks of the new branch go again, the last one first.
LEMMA RevertKeeps ==
    ASSUME UsageInv, StoresInv, revert_branch
    PROVE  StoresInv'
<1>1. task.op = "revert" /\ RevertInv /\ Files /\ task.done > 0
  BY DEF revert_branch, StoresInv, PhaseInv
<1>2. PICK p : p = Prev[Head(task.undone)]
  OBVIOUS
<1>3. /\ task.done \in Nat /\ head \in index \cup {root}
      /\ \/ /\ Leaving(p) /\ OnBranch(p) /\ Num[head] = Num[p] + task.done
            /\ NoneBeats(index, fork_head) /\ Leads(validated, fork_head)
         \/ task.undone = <<>> /\ OnBranch(root) /\ Num[head] = Num[root] + task.done
  BY <1>1, <1>2 DEF RevertInv
<1>4. /\ IInv /\ head \in Block /\ root \in Block /\ TaskShape(task) /\ root = LogHead
  BY <1>1, Known DEF Starting
<1>5. PICK q : /\ q \in {p, root} /\ OnBranch(q) /\ Num[head] = Num[q] + task.done
               /\ \/ q = p /\ Leaving(p) /\ NoneBeats(index, fork_head) /\ Leads(validated, fork_head)
                  \/ q = root /\ task.undone = <<>>
  BY <1>3
<1>6. q \in Block /\ q # head /\ head # root
  <2>1. q \in Ancestry[head] /\ root \in Ancestry[q]
    BY <1>5 DEF OnBranch
  <2>2. q \in Block /\ Num[q] \in Nat /\ Num[root] \in Nat /\ Num[root] <= Num[q]
    BY <1>4, <2>1, AncestryBelow, TreeAssumption
  <2>3. Num[head] > Num[q] /\ Num[head] > Num[root]
    <3>1. task.done \in Nat /\ task.done > 0 /\ Num[head] = Num[q] + task.done
      BY <1>1, <1>3, <1>5, Zenon
    <3>2. QED
      BY <2>2, <3>1
  <2>4. QED
    BY <2>2, <2>3
<1>7. /\ PopFails = "none"
      /\ Pops /\ UNCHANGED <<index, validated, root, fork_head, blog, mode, bad, fork_file>>
         => /\ Files' /\ LogHead' = LogHead /\ OnBranch(q)' /\ head' = Prev[head]
            /\ head' \in index' \cup {root'}
  BY <1>1, <1>3, <1>4, <1>5, <1>6, PopsOnBranch, Zenon
<1>8. /\ Pops /\ task' = [task EXCEPT !.done = @ - 1]
      /\ UNCHANGED <<index, validated, root, fork_head, blog, mode, bad, fork_file>>
  BY <1>7 DEF revert_branch, fork_vars, node_vars
<1>9. /\ task'.op = "revert" /\ task'.todo = task.todo /\ task'.done = task.done - 1
      /\ task'.undone = task.undone /\ task'.caller = task.caller
  BY <1>1, <1>4, <1>8, TaskExceptParts
<1>10. task'.done \in Nat /\ Num[head'] = Num[q] + task'.done
  <2>1. head \in Received
    BY <1>3, <1>6, Known, Zenon
  <2>2. Num[head] = Num[Prev[head]] + 1 /\ Num[Prev[head]] \in Nat /\ Num[q] \in Nat
    BY <1>6, <2>1, TreeAssumption DEF Received
  <2>3. QED
    BY <1>1, <1>3, <1>5, <1>7, <1>8, <1>9, <2>2
<1>11. Prev[Head(task'.undone)] = p /\ (Leaving(p) => Leaving(p)')
  BY <1>2, <1>7, <1>8, <1>9 DEF Leaving
<1>12. RevertInv'
  <2>1. CASE q = p /\ Leaving(p) /\ NoneBeats(index, fork_head) /\ Leads(validated, fork_head)
    BY <1>7, <1>8, <1>10, <1>11, <2>1 DEF RevertInv
  <2>2. CASE q = root /\ task.undone = <<>>
    <3>1. OnBranch(root)'
      BY <1>7, <1>8, <2>2 DEF OnBranch
    <3>2. Num[head'] = Num[root'] + task'.done /\ task'.undone = <<>>
      BY <1>8, <1>9, <1>10, <2>2
    <3>3. QED
      BY <1>7, <1>8, <1>10, <3>1, <3>2 DEF RevertInv
  <2>3. QED
    BY <1>5, <2>1, <2>2, Zenon
<1>13. QED
  BY <1>7, <1>8, <1>9, <1>12 DEF StoresInv, PhaseInv

\* With the new branch gone the head is where the branches part, and the old branch is next.
LEMMA RevertedKeeps ==
    ASSUME UsageInv, StoresInv, reverted
    PROVE  StoresInv'
<1>1. /\ task.op = "revert" /\ RevertInv /\ Files /\ task.done = 0 /\ task.undone # <<>>
      /\ UNCHANGED <<index, validated, root, fork_head, head, stack, rbi, blog, mode, bad, fork_file>>
  BY Zenon DEF reverted, StoresInv, PhaseInv, fork_vars, chain_vars, node_vars
<1>2. PICK p : p = Prev[Head(task.undone)]
  OBVIOUS
<1>3. /\ Leaving(p) /\ OnBranch(p) /\ Num[head] = Num[p] + task.done
      /\ NoneBeats(index, fork_head) /\ Leads(validated, fork_head)
  BY <1>1, <1>2 DEF RevertInv
<1>4. /\ head \in Block /\ root \in Block /\ task.caller = "idle"
      /\ p \in Ancestry[head] /\ root \in Ancestry[p] /\ ChainFrom(stack, LogHead, head)
      /\ rbi = Above(head, LogHead) /\ mode = "speculative"
  BY <1>3, Known, Zenon DEF Leaving, OnBranch
<1>5. head = p
  <2>1. p \in Block /\ head \in Ancestry[head]
    BY <1>4, AncestryBelow, AncestryEnds
  <2>2. Num[head] = Num[p]
    BY <1>1, <1>3, <2>1, TreeAssumption
  <2>3. QED
    BY <1>4, <2>1, <2>2, AncestryUnique
<1>6. task' = Task("reapply", task.undone, 0, <<>>, "idle")
  BY <1>2, <1>4, <1>5 DEF reverted
<1>7. task'.op = "reapply" /\ task'.todo = task.undone /\ task'.caller = "idle"
  BY <1>6 DEF Task
<1>8. Files' /\ LogHead' = LogHead
  BY <1>1, FilesKept, Zenon DEF Files
<1>9. OnBranch(root)'
  BY <1>1, <1>4, <1>5, <1>8, AncestryEnds DEF OnBranch
<1>10. ReapplyInv'
  BY <1>1, <1>3, <1>5, <1>7, <1>8, <1>9, Zenon DEF ReapplyInv, Leaving
<1>11. QED
  BY <1>7, <1>8, <1>10, Zenon DEF StoresInv, PhaseInv

\* The old branch is applied again: it was validated, so nothing of it is rejected.
LEMMA ReapplyKeeps ==
    ASSUME UsageInv, StoresInv, reapply_branch
    PROVE  StoresInv'
<1>1. task.op = "reapply" /\ ReapplyInv /\ Files
  BY DEF reapply_branch, StoresInv, PhaseInv
<1>2. PICK b : b = Head(task.todo)
  OBVIOUS
<1>3. /\ Links(task.todo, head) /\ Last(task.todo) = fork_head /\ Elems(task.todo) \subseteq index
      /\ Final(fork_head, LogHead) /\ NoneBeats(index, fork_head) /\ Leads(validated, fork_head)
      /\ ChainFrom(stack, LogHead, head) /\ rbi = Above(head, LogHead) /\ mode = "speculative"
      /\ root \in Ancestry[head] /\ task.caller = "idle" /\ OnBranch(root)
  BY <1>1, Zenon DEF ReapplyInv, OnBranch
<1>4. /\ IInv /\ head \in Block /\ fork_head \in Block /\ root \in Block /\ TaskShape(task)
      /\ task.todo \in Seq(Block) /\ fork_head \in validated \cup {root} /\ root \notin index
  BY Known
<1>5. /\ b \in Received /\ b \in Block /\ Prev[b] = head /\ b \in index /\ b \in Ancestry[fork_head]
      /\ Len(task.todo) = 1 => fork_head = b
  <2>1. /\ b \in Received /\ Prev[b] = head /\ b \in Elems(task.todo)
        /\ Elems(task.todo) = Above(fork_head, head) /\ (Len(task.todo) = 1 => fork_head = b)
    BY <1>2, <1>3, <1>4, LinksEnds, Zenon
  <2>2. QED
    BY <1>3, <2>1, Zenon DEF Above, Received
<1>6. root \in Ancestry[b]
  BY <1>4, <1>5, BranchToRoot
<1>7. b \notin bad
  <2>1. b \in validated \cup {root}
    BY <1>4, <1>5, <1>6, ValidatedBranch
  <2>2. QED
    BY <1>1, <1>4, <1>5, <2>1, Zenon DEF Files
<1>8. Stores /\ ApplyFails(b) = "none"
  <2>1. Stores
    BY <1>3 DEF Stores
  <2>2. QED
    BY <1>3, <1>5, <2>1, ApplySucceeds, Zenon
<1>9. /\ Applies(b) /\ UNCHANGED <<index, validated, root, fork_head, blog, mode, bad, fork_file>>
      /\ task' = IF Len(task.todo) = 1 THEN Thrown(task.caller) ELSE [task EXCEPT !.todo = Tail(@)]
  BY <1>2, <1>8 DEF reapply_branch, fork_vars, node_vars
<1>10. /\ head' = b /\ ChainFrom(stack', LogHead, b) /\ LogHead \in Ancestry[b] /\ LogHead' = LogHead
       /\ rbi' = Above(b, LogHead) /\ rbi' = rbi \cup {b}
  BY <1>3, <1>5, <1>8, <1>9, AppliedBlock DEF Applies
<1>11. Files'
  BY <1>1, <1>3, <1>5, <1>7, <1>9, <1>10, FilesMoved, Zenon DEF Files
<1>12. CASE Len(task.todo) = 1
  <2>1. task'.op = "idle"
    BY <1>3, <1>9, <1>12, TaskShapes DEF Thrown
  <2>2. IdleInv'
    BY <1>3, <1>5, <1>9, <1>10, <1>12 DEF IdleInv, Settled
  <2>3. QED
    BY <1>11, <2>1, <2>2 DEF StoresInv, PhaseInv
<1>13. CASE Len(task.todo) # 1
  <2>1. task'.op = "reapply" /\ task'.todo = Tail(task.todo) /\ task'.caller = "idle"
    BY <1>1, <1>3, <1>4, <1>9, <1>13, TaskExceptParts
  <2>2. /\ Links(Tail(task.todo), b) /\ Last(Tail(task.todo)) = fork_head
        /\ Elems(Tail(task.todo)) \subseteq index
    BY <1>2, <1>3, <1>4, <1>13, ChainTail, Zenon
  <2>3. OnBranch(root)'
    BY <1>3, <1>6, <1>9, <1>10 DEF OnBranch
  <2>4. ReapplyInv'
    BY <1>3, <1>9, <1>10, <2>1, <2>2, <2>3 DEF ReapplyInv
  <2>5. QED
    BY <1>11, <2>1, <2>4 DEF StoresInv, PhaseInv
<1>14. QED
  BY <1>12, <1>13

=============================================================================
