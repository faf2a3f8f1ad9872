-------------------------- MODULE ControllerProofs --------------------------
(***************************************************************************)
(* The controller uses the fork database through its interface only. The   *)
(* block log, the reversible blocks, the undo sessions of the chain state  *)
(* and the fork database agree between any two calls of the controller,    *)
(* and a restart takes up the head the node went down with: through fork   *)
(* switches that succeed and that fail, in every read mode, and with a     *)
(* crash between any two steps.                                            *)
(***************************************************************************)
EXTENDS SwitchProofs, RestartProofs

-----------------------------------------------------------------------------
(* The steps, the types and the root of the fork database.                 *)

\* A task with one of its parts replaced.
LEMMA TaskExcept ==
    ASSUME NEW t, TaskShape(t)
    PROVE  /\ \A x : TaskShape([t EXCEPT !.op = x]) /\ [t EXCEPT !.op = x].op = x
           /\ \A x : TaskShape([t EXCEPT !.todo = x]) /\ [t EXCEPT !.todo = x].op = t.op
                     /\ [t EXCEPT !.todo = x].todo = x
           /\ \A x : TaskShape([t EXCEPT !.done = x]) /\ [t EXCEPT !.done = x].op = t.op
BY DEF TaskShape

\* A step of a call that leaves the log and the root alone keeps the invariant.
LEMMA RootStays ==
    ASSUME RootInv, blog' = blog, root' = root, TaskShape(task'),
           task.op \notin Starting \cup {"append", "advance", "halted"},
           task'.op \notin {"init", "replay_log", "append"}
    PROVE  RootInv'
<1>1. LogIsChain' /\ LogHead' = LogHead /\ root = LogHead
  BY SameLog DEF RootInv
<1>2. QED
  BY <1>1 DEF RootInv, Starting

\* After a crash the fork database has nothing but its root, which is in every log.
LEMMA CrashRoot ==
    ASSUME RootInv, NEW log, LoseState(log), \/ log = blog
                                             \/ task.op = "append" /\ log = Append(blog, Head(task.todo))
    PROVE  RootInv' /\ reset(Genesis)
<1>1. blog' = log /\ reset(Genesis) /\ task' = Down
  BY DEF LoseState
<1>2. LogIsChain'
  <2>1. CASE log = blog
    BY <1>1, <2>1, SameLog DEF RootInv
  <2>2. CASE task.op = "append" /\ log = Append(blog, Head(task.todo))
    <3>1. PICK b : b = Head(task.todo)
      OBVIOUS
    <3>2. b \in Received /\ Prev[b] = LogHead
      BY <2>2, <3>1, LinksEnds DEF RootInv
    <3>3. blog \in Seq(Block) /\ blog # <<>> /\ IsChain(blog) /\ Head(blog) = Genesis /\ LogHead = Last(blog)
      BY DEF RootInv, LogIsChain, LogHead
    <3>4. blog' \in Seq(Block) /\ blog' # <<>> /\ IsChain(blog') /\ Head(blog') = Genesis
      BY <1>1, <2>2, <3>1, <3>2, <3>3, ChainAppend
    <3>5. QED
      BY <3>4 DEF LogIsChain
  <2>3. QED
    BY <2>1, <2>2
<1>3. Fresh'
  <2>1. Genesis \in Elems(blog')
    <3>1. blog' \in Seq(Block) /\ blog' # <<>> /\ Head(blog') = Genesis
      BY <1>2 DEF LogIsChain
    <3>2. Genesis = blog'[1] /\ Len(blog') \in Nat /\ Len(blog') >= 1 /\ DOMAIN blog' = 1 .. Len(blog')
      BY <3>1, SeqLen
    <3>3. QED
      BY <3>2 DEF Elems
  <2>2. QED
    BY <1>1, <2>1 DEF Fresh, reset
<1>4. TaskShape(task') /\ task'.op = "down"
  BY <1>1, TaskShapes
<1>5. QED
  BY <1>1, <1>2, <1>3, <1>4 DEF RootInv, Starting

\* The calls of the controller that leave the root where it is are steps of the fork database.
LEMMA ForkCalls ==
    ASSUME IInv, NEW b, add(b) \/ mark_valid(b) \/ remove(b) \/ UNCHANGED fork_vars
    PROVE  [Next]_vars /\ root' = root
<1>1. index \subseteq Block /\ Received \subseteq Block
  BY DEF IInv, TypeOK, Received
<1>2. CASE add(b)
  BY <1>1, <1>2 DEF Next, add
<1>3. CASE mark_valid(b)
  BY <1>1, <1>3 DEF Next, mark_valid
<1>4. CASE remove(b)
  BY <1>1, <1>4 DEF Next, remove
<1>5. CASE UNCHANGED fork_vars
  BY <1>5 DEF fork_vars, vars
<1>6. QED
  BY <1>2, <1>3, <1>4, <1>5

\* A part of the reversible blocks, or one more, is bounded as they are.
LEMMA BoundedSets ==
    ASSUME NEW S, Bounded(S)
    PROVE  /\ \A T \in SUBSET S : Bounded(T)
           /\ \A b \in Received : Bounded(S \cup {b})
<1>1. PICK M \in Nat : \A b \in S : Num[b] <= M
  BY DEF Bounded
<1>2. \A T \in SUBSET S : Bounded(T)
  BY <1>1 DEF Bounded
<1>3. ASSUME NEW b \in Received PROVE Bounded(S \cup {b})
  <2>1. Num[b] \in Nat /\ S \subseteq Received /\ \A c \in S : Num[c] \in Nat
    BY TreeAssumption DEF Received, Bounded
  <2>2. CASE Num[b] <= M
    BY <1>1, <2>1, <2>2 DEF Bounded
  <2>3. CASE ~(Num[b] <= M)
    <3>1. \A c \in S \cup {b} : Num[c] <= Num[b]
      BY <1>1, <2>1, <2>3
    <3>2. QED
      BY <2>1, <3>1 DEF Bounded
  <2>4. QED
    BY <2>2, <2>3
<1>4. QED
  BY <1>2, <1>3

\* The steps of push_block, commit_block and maybe_switch_forks.
LEMMA SwitchSteps ==
    ASSUME RootInv, IInv,
           \/ \E b \in Block : push_block(b) \/ produce_block(b)
           \/ commit_block \/ maybe_switch_forks \/ pop_branch \/ extend_head \/ apply_branch
           \/ revert_branch \/ reverted \/ reapply_branch
    PROVE  RootInv' /\ [Next]_vars
<1> DEFINE ops == Starting \cup {"append", "advance", "halted"}
           Quiet == /\ blog' = blog /\ TaskShape(task')
                    /\ task.op \notin ops
                    /\ task'.op \notin {"init", "replay_log", "append"}
                    /\ \E b : add(b) \/ mark_valid(b) \/ remove(b) \/ UNCHANGED fork_vars
<1>0. TaskShape(task) /\ task.caller \in {"idle", "best_loop", "replay_rev"}
  BY DEF RootInv, TaskShape
<1>a. ASSUME NEW why, Halt(why) PROVE blog' = blog /\ TaskShape(task') /\ task'.op = "halted" /\ UNCHANGED fork_vars
  BY <1>a, TaskShapes DEF Halt, chain_vars
<1>b. "log" \notin {"init", "replay_log", "append"} /\ Return(task.caller).op \notin {"init", "replay_log", "append"}
      /\ Thrown(task.caller).op \notin {"init", "replay_log", "append"}
  BY <1>0, TaskShapes
<1>1. ASSUME NEW b \in Block, push_block(b) PROVE Quiet
  <2>1. task' = At(IF mode = "irreversible" THEN "log" ELSE "switch", "idle") /\ task.op = "idle" /\ add(b) /\ blog' = blog
    BY <1>1 DEF push_block, chain_vars
  <2>2. TaskShape(task') /\ task'.op \in {"log", "switch"}
    BY <2>1, TaskShapes
  <2>3. QED
    BY <2>1, <2>2 DEF Starting
<1>2. ASSUME NEW b \in Block, produce_block(b) PROVE Quiet
  <2>1. task' = Task("commit", <<b>>, 0, <<>>, "idle") /\ task.op = "idle" /\ add(b) /\ blog' = blog
    BY <1>2 DEF produce_block, chain_vars
  <2>2. TaskShape(task') /\ task'.op = "commit"
    BY <2>1, TaskShapes
  <2>3. QED
    BY <2>1, <2>2 DEF Starting
<1>3. ASSUME commit_block PROVE Quiet
  <2>1. task.op = "commit"
    BY <1>3, Zenon DEF commit_block
  <2>2. CASE \E why : Halt(why)
    BY <2>1, <2>2, <1>a DEF Starting
  <2>3. CASE \E b : mark_valid(b) /\ task' = At("log", "idle") /\ blog' = blog
    BY <2>1, <2>3, TaskShapes DEF Starting
  <2>4. QED
    BY <1>3, <2>2, <2>3, Zenon DEF commit_block
<1>4. ASSUME maybe_switch_forks PROVE Quiet
  <2>1. task.op = "switch" /\ UNCHANGED fork_vars /\ blog' = blog
    BY <1>4 DEF maybe_switch_forks, chain_vars
  <2>2. \/ task' = Return(task.caller)
        \/ \E op \in {"extend", "pop"} : \E todo, undone : task' = Task(op, todo, 0, undone, task.caller)
    BY <1>4 DEF maybe_switch_forks
  <2>3. QED
    BY <2>1, <2>2, <1>0, <1>b, TaskShapes DEF Starting
<1>5. ASSUME pop_branch PROVE Quiet
  <2>1. task.op = "pop" /\ UNCHANGED fork_vars /\ blog' = blog
    BY <1>5, <1>a, Zenon DEF pop_branch, Halt, chain_vars
  <2>2. task' \in {[task EXCEPT !.op = "apply"], At("log", task.caller), task} \/ \E why : task' = Halted(why)
    BY <1>5, Zenon DEF pop_branch, Halt
  <2>3. TaskShape(task') /\ task'.op \in {"apply", "pop", "log", "halted"}
    <3>1. CASE task' = [task EXCEPT !.op = "apply"]
      BY <3>1, <1>0, TaskExcept
    <3>2. CASE task' = task
      BY <3>2, <2>1, <1>0
    <3>3. CASE \E why : task' = Halted(why)
      BY <3>3, TaskShapes
    <3>4. CASE task' = At("log", task.caller)
      BY <3>4, <1>0, TaskShapes
    <3>5. QED
      BY <2>2, <3>1, <3>2, <3>3, <3>4
  <2>4. QED
    BY <2>1, <2>3 DEF Starting
<1>6. ASSUME extend_head PROVE Quiet
  <2>1. task.op = "extend"
    BY <1>6, Zenon DEF extend_head
  <2>2. CASE \E why : Halt(why)
    BY <2>1, <2>2, <1>a DEF Starting
  <2>3. CASE \E b : /\ remove(b) \/ mark_valid(b) \/ UNCHANGED fork_vars
                    /\ blog' = blog
                    /\ task' \in {Thrown(task.caller), At("log", task.caller)}
    BY <2>1, <2>3, <1>0, <1>b, TaskShapes DEF Starting
  <2>4. QED
    BY <1>6, <2>2, <2>3, Zenon DEF extend_head, chain_vars
<1>7. ASSUME apply_branch PROVE Quiet
  <2>1. task.op = "apply"
    BY <1>7, Zenon DEF apply_branch
  <2>2. CASE \E why : Halt(why)
    BY <2>1, <2>2, <1>a DEF Starting
  <2>3. CASE \E b : /\ remove(b) \/ mark_valid(b) \/ UNCHANGED fork_vars
                    /\ blog' = blog
                    /\ task' \in {[task EXCEPT !.op = "revert"], At("log", task.caller),
                                  [task EXCEPT !.todo = Tail(task.todo), !.done = task.done + 1]}
    <3>1. TaskShape(task') /\ task'.op \in {"revert", "log", "apply"}
      <4>1. CASE task' = [task EXCEPT !.op = "revert"]
        BY <4>1, <1>0, TaskExcept
      <4>2. CASE task' = At("log", task.caller)
        BY <4>2, <1>0, TaskShapes
      <4>3. CASE task' = [task EXCEPT !.todo = Tail(task.todo), !.done = task.done + 1]
        BY <4>3, <2>1, <1>0 DEF TaskShape
      <4>4. QED
        BY <2>3, <4>1, <4>2, <4>3
    <3>2. QED
      BY <2>1, <2>3, <3>1 DEF Starting
  <2>4. QED
    BY <1>7, <2>2, <2>3, Zenon DEF apply_branch, chain_vars
<1>8. ASSUME revert_branch PROVE Quiet
  <2>1. task.op = "revert"
    BY <1>8 DEF revert_branch
  <2>2. CASE \E why : Halt(why)
    BY <2>1, <2>2, <1>a DEF Starting
  <2>3. CASE /\ UNCHANGED fork_vars
             /\ blog' = blog
             /\ task' = [task EXCEPT !.done = task.done - 1]
    <3>1. TaskShape(task') /\ task'.op = "revert"
      BY <2>1, <2>3, <1>0, TaskExcept
    <3>2. QED
      BY <2>1, <2>3, <3>1 DEF Starting
  <2>4. QED
    BY <1>8, <2>2, <2>3 DEF revert_branch
<1>9. ASSUME reverted PROVE Quiet
  <2>1. task.op = "revert" /\ UNCHANGED fork_vars /\ blog' = blog
    BY <1>9, Zenon DEF reverted, chain_vars
  <2>2. \/ \E why : task' = Halted(why)
        \/ task' = Task("reapply", task.undone, 0, <<>>, task.caller)
    BY <1>9, Zenon DEF reverted
  <2>3. QED
    BY <2>1, <2>2, <1>0, TaskShapes DEF Starting
<1>10. ASSUME reapply_branch PROVE Quiet
  <2>1. task.op = "reapply"
    BY <1>10 DEF reapply_branch
  <2>2. CASE \E why : Halt(why)
    BY <2>1, <2>2, <1>a DEF Starting
  <2>3. CASE /\ UNCHANGED fork_vars
             /\ blog' = blog
             /\ task' \in {Thrown(task.caller), [task EXCEPT !.todo = Tail(task.todo)]}
    <3>1. TaskShape(task') /\ task'.op \in {"idle", "down", "reapply"}
      <4>1. CASE task' = Thrown(task.caller)
        BY <4>1, <1>0, TaskShapes
      <4>2. CASE task' = [task EXCEPT !.todo = Tail(task.todo)]
        BY <4>2, <2>1, <1>0, TaskExcept, Zenon
      <4>3. QED
        BY <2>3, <4>1, <4>2
    <3>2. QED
      BY <2>1, <2>3, <3>1 DEF Starting
  <2>4. QED
    BY <1>10, <2>2, <2>3 DEF reapply_branch
<1>11. Quiet
  BY <1>1, <1>2, <1>3, <1>4, <1>5, <1>6, <1>7, <1>8, <1>9, <1>10
<1>12. [Next]_vars /\ root' = root
  BY <1>11, ForkCalls
<1>13. QED
  BY <1>11, <1>12, RootStays

\* The steps of log_irreversible.
LEMMA LogSteps ==
    ASSUME RootInv, IInv, log_irreversible \/ append_irreversible \/ advance_after_log
    PROVE  RootInv' /\ [Next]_vars
<1>0. TaskShape(task) /\ task.caller \in {"idle", "best_loop", "replay_rev"} /\ LogIsChain
  BY DEF RootInv, TaskShape
<1>a. ASSUME NEW why, Halt(why) PROVE RootInv' /\ [Next]_vars
  <2>1. TaskShape(task') /\ task'.op = "halted" /\ blog' = blog
    BY <1>a, TaskShapes DEF Halt, chain_vars
  <2>2. LogIsChain'
    BY <2>1, <1>0, SameLog
  <2>3. [Next]_vars
    BY <1>a DEF Halt, fork_vars, vars
  <2>4. QED
    BY <2>1, <2>2, <2>3 DEF RootInv, Starting
<1>1. ASSUME log_irreversible PROVE RootInv' /\ [Next]_vars
  <2> DEFINE tip == IF mode = "irreversible" THEN pending_head ELSE fork_head
             branch == Oldest({b \in fetch_branch(tip) : Num[b] <= Lib[tip]})
  <2>1. task.op = "log" /\ UNCHANGED fork_vars /\ blog' = blog
    BY <1>1, Zenon DEF log_irreversible, chain_vars
  <2>2. LogIsChain' /\ LogHead' = LogHead /\ root' = root /\ [Next]_vars /\ root = LogHead
    BY <2>1, <1>0, SameLog DEF fork_vars, vars, RootInv, Starting
  <2>3. tip \in index \cup {root}
    BY PendingHead DEF IInv, OneTree, TypeOK
  <2>4. CASE Lib[tip] <= Num[LogHead]
    <3>1. task' = Return(task.caller)
      BY <1>1, <2>2, <2>4 DEF log_irreversible
    <3>2. TaskShape(task') /\ task'.op \in {"idle", "best_loop", "replay_rev"}
      BY <3>1, <1>0, TaskShapes
    <3>3. QED
      BY <3>2, <2>1, <2>2, RootStays DEF Starting
  <2>5. CASE ~(Lib[tip] <= Num[LogHead])
    <3>1. task' = Task("append", branch, 0, <<>>, task.caller)
      BY <1>1, <2>2, <2>5 DEF log_irreversible
    <3>2. TaskShape(task') /\ task'.op = "append" /\ task'.todo = branch
      BY <3>1, <1>0, TaskShapes
    <3>3. branch \in Seq(Block) /\ Links(branch, LogHead)
      <4> HIDE DEF tip
      <4> QED BY <2>2, <2>3, <2>5, FetchedBranch, Zenon
    <3>4. QED
      BY <2>2, <3>2, <3>3 DEF RootInv, Starting
  <2>6. QED
    BY <2>4, <2>5
<1>2. ASSUME append_irreversible PROVE RootInv' /\ [Next]_vars
  <2> DEFINE b == Head(task.todo)
  <2>1. task.op = "append" /\ task.todo \in Seq(Block) /\ Links(task.todo, LogHead)
    BY <1>2 DEF append_irreversible, RootInv
  <2>2. CASE \E why : Halt(why)
    BY <2>2, <1>a
  <2>3. CASE task' = Task("advance", <<b>>, 0, <<>>, task.caller) /\ UNCHANGED <<fork_vars, blog>>
    <3>1. TaskShape(task') /\ task'.op = "advance" /\ LogIsChain'
      BY <2>3, <1>0, TaskShapes, SameLog
    <3>2. [Next]_vars
      BY <2>3 DEF fork_vars, vars
    <3>3. QED
      BY <3>1, <3>2 DEF RootInv, Starting
  <2>4. CASE /\ mark_valid(b) \/ UNCHANGED fork_vars
             /\ blog' = Append(blog, b)
             /\ task' = IF Len(task.todo) = 1 THEN At("advance", task.caller)
                        ELSE [task EXCEPT !.todo = Tail(task.todo)]
    <3>1. b \in Received /\ Prev[b] = LogHead
      BY <2>1, LinksEnds
    <3>2. LogIsChain' /\ LogHead' = b
      <4>1. blog \in Seq(Block) /\ blog # <<>> /\ IsChain(blog) /\ Head(blog) = Genesis /\ LogHead = Last(blog)
        BY <1>0 DEF LogIsChain, LogHead
      <4>2. /\ blog' \in Seq(Block) /\ blog' # <<>> /\ IsChain(blog') /\ Last(blog') = b
            /\ Head(blog') = Genesis
        <5> HIDE DEF b
        <5> QED BY <4>1, <3>1, <2>4, ChainAppend
      <4>3. QED
        BY <4>2 DEF LogIsChain, LogHead
    <3>3. [Next]_vars
      BY <2>4, ForkCalls
    <3>4. CASE Len(task.todo) = 1
      <4>1. TaskShape(task') /\ task'.op = "advance"
        BY <2>4, <3>4, <1>0, TaskShapes
      <4>2. QED
        BY <3>2, <3>3, <4>1 DEF RootInv, Starting
    <3>5. CASE Len(task.todo) # 1
      <4>1. task' = [task EXCEPT !.todo = Tail(task.todo)]
        BY <2>4, <3>5
      <4>2. TaskShape(task') /\ task'.op = "append" /\ task'.todo = Tail(task.todo)
        BY <4>1, <2>1, <1>0, TaskExcept, Zenon
      <4>3. Tail(task.todo) \in Seq(Block) /\ Links(Tail(task.todo), b)
        BY <2>1, <3>5, ChainTail
      <4>4. QED
        <5> HIDE DEF b
        <5> QED BY <3>2, <3>3, <4>2, <4>3 DEF RootInv, Starting
    <3>6. QED
      BY <3>4, <3>5
  <2>5. QED
    BY <1>2, <2>2, <2>3, <2>4 DEF append_irreversible, chain_vars
<1>3. ASSUME advance_after_log PROVE RootInv' /\ [Next]_vars
  <2>1. CASE \E why : Halt(why)
    BY <2>1, <1>a
  <2>2. CASE /\ IF MustAdvance THEN Advance ELSE UNCHANGED fork_vars
             /\ task' \in {Return(task.caller), Thrown(task.caller)}
             /\ blog' = blog
    <3>1. LogIsChain' /\ LogHead' = LogHead
      BY <2>2, <1>0, SameLog
    <3>2. TaskShape(task') /\ task'.op \in {"idle", "best_loop", "replay_rev", "down"}
      BY <2>2, <1>0, TaskShapes
    <3>3. LogHead \in Block
      BY <1>0, ChainEnds DEF LogIsChain, LogHead
    <3>4. root' = LogHead /\ [Next]_vars
      BY <2>2, <3>3 DEF MustAdvance, Advance, advance_root, fork_vars, vars, Next
    <3>5. QED
      BY <3>1, <3>2, <3>4 DEF RootInv, Starting
  <2>3. QED
    BY <1>3, <2>1, <2>2, Zenon DEF advance_after_log, chain_vars
<1>4. QED
  BY <1>1, <1>2, <1>3

\* Every step keeps the types.
LEMMA TypesKept ==
    ASSUME TypeInv, RootInv, IInv, ControllerNext
    PROVE  TypeInv'
<1> DEFINE NewTask == /\ task'.todo \in Seq(Received) /\ task'.undone \in Seq(Received)
                      /\ task'.op \in Applying => task'.todo # <<>>
           NewChain == head' \in Block /\ Bounded(rbi')
<1>0. /\ TaskShape(task) /\ task.caller \in {"idle", "best_loop", "replay_rev"} /\ LogIsChain
      /\ task.todo \in Seq(Received) /\ task.undone \in Seq(Received)
      /\ head \in Block /\ Bounded(rbi)
      /\ "idle" \in {"idle", "best_loop", "replay_rev"}
  BY DEF RootInv, TaskShape, TypeInv
<1>a. ASSUME task'.todo = <<>>, task'.undone = <<>>, task'.op \notin Applying PROVE NewTask
  BY <1>a
<1>b. ASSUME NEW b \in Received, Applies(b) PROVE NewChain
  BY <1>b, <1>0, BoundedSets DEF Applies, Received
<1>c. ASSUME Pops, head # Genesis PROVE NewChain
  <2>1. head \in Received
    BY <1>c, <1>0 DEF Received
  <2>2. QED
    BY <1>c, <2>1, <1>0, ChildPreferred, BoundedSets DEF Pops
<1>d. ASSUME UNCHANGED chain_vars PROVE NewChain
  BY <1>d, <1>0 DEF chain_vars
<1>e. ASSUME NEW why, Halt(why) PROVE NewTask /\ NewChain
  <2>1. task' = Halted(why) /\ UNCHANGED chain_vars
    BY <1>e DEF Halt
  <2>2. NewTask
    BY <2>1, <1>0, <1>a, TaskShapes, TaskParts DEF Applying
  <2>3. QED
    BY <2>1, <2>2, <1>d
<1>f. ASSUME task.op \in Applying
      PROVE  /\ Head(task.todo) \in Received /\ Tail(task.todo) \in Seq(Received)
             /\ Len(task.todo) # 1 => Tail(task.todo) # <<>>
  <2>1. task.todo # <<>>
    BY <1>f DEF TypeInv
  <2>2. Head(task.todo) \in Received /\ Tail(task.todo) \in Seq(Received)
    BY <2>1, <1>0
  <2>3. Len(task.todo) \in Nat /\ Len(task.todo) # 0 /\ Len(Tail(task.todo)) = Len(task.todo) - 1
    BY <2>1, <1>0, SeqLen, SeqEmpty, SeqTail
  <2>4. Len(task.todo) # 1 => Tail(task.todo) # <<>>
    <3> DEFINE t == Tail(task.todo)
               n == Len(task.todo)
    <3>1. t \in Seq(Received) /\ n \in Nat /\ n # 0 /\ Len(t) = n - 1
      BY <2>2, <2>3
    <3> HIDE DEF t, n
    <3>2. n # 1 => t # <<>>
      BY <3>1
    <3>3. QED
      BY <3>2 DEF t, n
  <2>5. QED
    BY <2>2, <2>4
<1>g. ASSUME task' \in {Return(task.caller), Thrown(task.caller), Down, Idle, At("log", task.caller),
                        At("advance", task.caller), At("switch", "idle"), At("log", "idle"), At("best", "idle"),
                        At("switch", "best_loop"), At("init", "idle"), At("replay_log", "idle"), At("replay_rev", "idle")}
      PROVE  NewTask
  <2>1. task'.todo = <<>> /\ task'.undone = <<>> /\ task'.op \notin Applying
    BY <1>g, <1>0 DEF Return, Thrown, Down, Idle, At, Task, Applying
  <2>2. QED
    BY <1>a, <2>1, Zenon
<1>1. ASSUME NEW b \in Block, push_block(b) PROVE NewTask /\ NewChain
  BY <1>1, <1>d, <1>g DEF push_block
<1>2. ASSUME NEW b \in Block, produce_block(b) PROVE NewTask /\ NewChain
  <2>1. task' = Task("commit", <<b>>, 0, <<>>, "idle") /\ b \in Received /\ UNCHANGED chain_vars
    BY <1>2 DEF produce_block
  <2>2. task'.todo = <<b>> /\ task'.undone = <<>>
    BY <2>1, TaskParts
  <2>3. <<b>> \in Seq(Received) /\ <<b>> # <<>>
    BY <2>1
  <2>4. <<>> \in Seq(Received)
    OBVIOUS
  <2>5. NewChain
    BY <2>1, <1>d
  <2>6. QED
    BY <2>2, <2>3, <2>4, <2>5
<1>3. ASSUME commit_block PROVE NewTask /\ NewChain
  <2>1. task.op \in Applying
    BY <1>3, Zenon DEF commit_block, Applying
  <2>2. CASE \E why : Halt(why)
    BY <2>2, <1>e
  <2>3. CASE Applies(Head(task.todo)) /\ task' = At("log", "idle")
    BY <2>1, <2>3, <1>b, <1>f, <1>g
  <2>4. QED
    BY <1>3, <2>2, <2>3, Zenon DEF commit_block
<1>4. ASSUME maybe_switch_forks PROVE NewTask /\ NewChain
  <2> DEFINE new == SwitchTarget
             first == Oldest(fetch_branch_from(new, head))
             second == Oldest(fetch_branch_from(head, new))
  <2>1. NewChain
    BY <1>4, <1>d, Zenon DEF maybe_switch_forks
  <2>2. new \in Block
    BY PendingHead DEF SwitchTarget, IInv, TypeOK, Received
  <2>3. first \in Seq(Received) /\ second \in Seq(Received)
    <3> HIDE DEF new
    <3> QED BY <2>2, <1>0, ForkedBranch, Zenon
  <2>4. CASE task' = Return(task.caller)
    BY <2>1, <2>4, <1>g
  <2>5. CASE new \in Received /\ task' = Task("extend", <<new>>, 0, <<>>, task.caller)
    <3>1. task'.todo = <<new>> /\ task'.undone = <<>>
      BY <2>5, <1>0, TaskParts
    <3>2. <<new>> \in Seq(Received) /\ <<new>> # <<>>
      BY <2>5
    <3>3. QED
      BY <2>1, <3>1, <3>2
  <2>6. CASE task' = Task("pop", first, 0, second, task.caller)
    <3>1. task'.todo = first /\ task'.undone = second /\ task'.op = "pop"
      BY <2>6, <1>0, TaskParts, SMTT(30)
    <3>2. QED
      BY <2>1, <2>3, <3>1 DEF Applying
  <2>7. QED
    BY <1>4, <2>4, <2>5, <2>6, Zenon DEF maybe_switch_forks
<1>5. ASSUME pop_branch PROVE NewTask /\ NewChain
  <2>1. CASE task' = [task EXCEPT !.op = "apply"] /\ task.todo # <<>> /\ UNCHANGED chain_vars
    <3>1. task'.todo = task.todo /\ task'.undone = task.undone
      BY <2>1, <1>0, TaskExceptParts
    <3>2. QED
      BY <2>1, <3>1, <1>0, <1>d
  <2>2. CASE task' = At("log", task.caller) /\ UNCHANGED chain_vars
    BY <2>2, <1>d, <1>g
  <2>3. CASE \E why : Halt(why)
    BY <2>3, <1>e
  <2>4. CASE Pops /\ head # Genesis /\ task' = task
    BY <2>4, <1>0, <1>c DEF TypeInv
  <2>5. QED
    BY <1>5, <2>1, <2>2, <2>3, <2>4, Zenon DEF pop_branch, PopFails, Halt
<1>6. ASSUME extend_head PROVE NewTask /\ NewChain
  <2>1. task.op \in Applying
    BY <1>6, Zenon DEF extend_head, Applying
  <2>2. CASE \E why : Halt(why)
    BY <2>2, <1>e
  <2>3. CASE Applies(Head(task.todo)) /\ task' = At("log", task.caller)
    BY <2>1, <2>3, <1>b, <1>f, <1>g, Zenon
  <2>4. CASE UNCHANGED chain_vars /\ task' = Thrown(task.caller)
    BY <2>4, <1>d, <1>g
  <2>5. QED
    BY <1>6, <2>2, <2>3, <2>4, Zenon DEF extend_head
<1>7. ASSUME apply_branch PROVE NewTask /\ NewChain
  <2>1. task.op \in Applying
    BY <1>7, Zenon DEF apply_branch, Applying
  <2>2. CASE \E why : Halt(why)
    BY <2>2, <1>e
  <2>3. CASE UNCHANGED chain_vars /\ task' = [task EXCEPT !.op = "revert"]
    <3>1. task'.op = "revert" /\ task'.todo = task.todo /\ task'.undone = task.undone
      BY <2>3, <1>0, TaskExceptParts
    <3>2. QED
      BY <2>3, <3>1, <1>0, <1>d DEF Applying
  <2>4. CASE Applies(Head(task.todo)) /\ task' = At("log", task.caller)
    BY <2>1, <2>4, <1>b, <1>f, <1>g
  <2>5. CASE /\ Applies(Head(task.todo)) /\ Len(task.todo) # 1
             /\ task' = [task EXCEPT !.todo = Tail(task.todo), !.done = task.done + 1]
    <3>1. task'.todo = Tail(task.todo) /\ task'.undone = task.undone
      BY <2>5, <1>0, TaskExceptParts
    <3>2. QED
      BY <2>1, <2>5, <3>1, <1>0, <1>b, <1>f
  <2>6. QED
    BY <1>7, <2>2, <2>3, <2>4, <2>5, Zenon DEF apply_branch
<1>8. ASSUME revert_branch PROVE NewTask /\ NewChain
  <2>1. CASE \E why : Halt(why)
    BY <2>1, <1>e
  <2>2. CASE Pops /\ head # Genesis /\ task' = [task EXCEPT !.done = task.done - 1]
    <3>1. task'.op = task.op /\ task'.todo = task.todo /\ task'.undone = task.undone
      BY <2>2, <1>0, TaskExceptParts
    <3>2. QED
      BY <2>2, <3>1, <1>0, <1>c DEF TypeInv
  <2>3. QED
    BY <1>8, <2>1, <2>2, Zenon DEF revert_branch, PopFails
<1>9. ASSUME reverted PROVE NewTask /\ NewChain
  <2>1. NewChain /\ task.undone # <<>>
    BY <1>9, <1>d, Zenon DEF reverted
  <2>2. CASE \E why : task' = Halted(why)
    <3>1. task'.todo = <<>> /\ task'.undone = <<>> /\ task'.op \notin Applying
      BY <2>2 DEF Halted, At, Task, Applying
    <3>2. QED
      BY <2>1, <3>1, <1>a, Zenon
  <2>3. CASE task' = Task("reapply", task.undone, 0, <<>>, task.caller)
    <3>1. task'.todo = task.undone /\ task'.undone = <<>>
      BY <2>3 DEF Task
    <3>2. <<>> \in Seq(Received)
      OBVIOUS
    <3>3. QED
      BY <2>1, <3>1, <3>2, <1>0
  <2>4. QED
    BY <1>9, <2>2, <2>3, Zenon DEF reverted
<1>10. ASSUME reapply_branch PROVE NewTask /\ NewChain
  <2>1. task.op \in Applying
    BY <1>10 DEF reapply_branch, Applying
  <2>2. CASE \E why : Halt(why)
    BY <2>2, <1>e
  <2>3. CASE Applies(Head(task.todo)) /\ task' = Thrown(task.caller)
    BY <2>1, <2>3, <1>b, <1>f, <1>g
  <2>4. CASE /\ Applies(Head(task.todo)) /\ Len(task.todo) # 1
             /\ task' = [task EXCEPT !.todo = Tail(task.todo)]
    <3>1. task'.todo = Tail(task.todo) /\ task'.undone = task.undone
      BY <2>4, <1>0, TaskExceptParts
    <3>2. QED
      BY <2>1, <2>4, <3>1, <1>0, <1>b, <1>f
  <2>5. QED
    BY <1>10, <2>2, <2>3, <2>4 DEF reapply_branch
<1>11. ASSUME log_irreversible PROVE NewTask /\ NewChain
  <2> DEFINE tip == IF mode = "irreversible" THEN pending_head ELSE fork_head
             branch == Oldest({b \in fetch_branch(tip) : Num[b] <= Lib[tip]})
  <2>1. NewChain
    BY <1>11, <1>d, Zenon DEF log_irreversible
  <2>2. CASE \E why : task' = Halted(why)
    <3>1. task'.todo = <<>> /\ task'.undone = <<>> /\ task'.op \notin Applying
      BY <2>2 DEF Halted, At, Task, Applying
    <3>2. QED
      BY <2>1, <3>1, <1>a, Zenon
  <2>3. CASE task' = Return(task.caller)
    BY <2>1, <2>3, <1>g
  <2>4. CASE /\ root = LogHead /\ ~(Lib[tip] <= Num[LogHead])
             /\ task' = Task("append", branch, 0, <<>>, task.caller)
    <3>1. tip \in index \cup {root}
      BY PendingHead DEF IInv, OneTree, TypeOK
    <3>2. branch \in Seq(Block) /\ Links(branch, LogHead)
      <4> HIDE DEF tip
      <4> QED BY <3>1, <2>4, FetchedBranch, Zenon
    <3>3. branch \in Seq(Received) /\ branch # <<>>
      <4> HIDE DEF branch
      <4>1. \A i \in 1 .. Len(branch) : branch[i] \in Received
        BY <3>2, SeqLen DEF Links, Elems
      <4>2. QED
        BY <3>2, <4>1 DEF Links
    <3>4. task'.todo = branch /\ task'.undone = <<>>
      <4> HIDE DEF branch
      <4> QED BY <2>4 DEF Task
    <3>5. <<>> \in Seq(Received)
      OBVIOUS
    <3>6. QED
      <4> HIDE DEF branch
      <4> QED BY <2>1, <3>3, <3>4, <3>5, Zenon
  <2>5. QED
    BY <1>11, <2>2, <2>3, <2>4, Zenon DEF log_irreversible
<1>12. ASSUME append_irreversible PROVE NewTask /\ NewChain
  <2> DEFINE b == Head(task.todo)
  <2>1. task.op \in Applying
    BY <1>12 DEF append_irreversible, Applying
  <2>2. b \in Received /\ b \in Block
    BY <2>1, <1>f DEF Received
  <2>3. CASE \E why : Halt(why)
    BY <2>3, <1>e
  <2>4. CASE UNCHANGED chain_vars /\ task' = Task("advance", <<b>>, 0, <<>>, task.caller)
    <3>1. task'.todo = <<b>> /\ task'.undone = <<>>
      BY <2>4 DEF Task
    <3>2. <<b>> \in Seq(Received) /\ <<b>> # <<>>
      BY <2>2
    <3>3. NewChain
      BY <2>4, <1>d
    <3>4. <<>> \in Seq(Received)
      OBVIOUS
    <3>5. QED
      BY <3>1, <3>2, <3>3, <3>4
  <2>5. CASE /\ head' \in {b, head} /\ rbi' = Trim(Num[b])
             /\ \/ task' = At("advance", task.caller)
                \/ Len(task.todo) # 1 /\ task' = [task EXCEPT !.todo = Tail(task.todo)]
    <3>1. NewChain
      BY <2>2, <2>5, <1>0, BoundedSets DEF Trim
    <3>2. CASE task' = At("advance", task.caller)
      BY <3>1, <3>2, <1>g
    <3>3. CASE Len(task.todo) # 1 /\ task' = [task EXCEPT !.todo = Tail(task.todo)]
      <4>1. task'.todo = Tail(task.todo) /\ task'.undone = task.undone
        BY <3>3, <1>0, TaskExceptParts
      <4>2. QED
        BY <3>1, <3>3, <4>1, <2>1, <1>0, <1>f
    <3>4. QED
      BY <2>5, <3>2, <3>3
  <2>6. QED
    BY <1>12, <2>3, <2>4, <2>5 DEF append_irreversible
<1>13. ASSUME advance_after_log PROVE NewTask /\ NewChain
  BY <1>13, <1>d, <1>e, <1>g, Zenon DEF advance_after_log
<1>14. ASSUME shutdown PROVE NewTask /\ NewChain
  BY <1>14, <1>d, <1>g DEF shutdown
<1>15. ASSUME NEW log, LoseState(log) PROVE NewTask /\ NewChain
  <2>1. task' = Down /\ head' = Genesis /\ rbi' \subseteq rbi
    BY <1>15 DEF LoseState
  <2>2. QED
    BY <2>1, <1>0, <1>g, BoundedSets, TreeAssumption
<1>16. ASSUME replay_blockchain PROVE NewTask /\ NewChain
  BY <1>16, <1>0 DEF replay_blockchain, TypeInv
<1>17. ASSUME NEW m, startup(m) PROVE NewTask /\ NewChain
  <2>1. task' = At("init", "idle") /\ rbi' = rbi
    BY <1>17 DEF startup
  <2>2. fork_head \in Block /\ root \in Block /\ Genesis \in Block
    BY TreeAssumption DEF IInv, TypeOK
  <2>3. fork_head' \in {Genesis, root, fork_head}
    BY <1>17 DEF startup, reset, rollback_head_to_root, fork_vars
  <2>4. head' \in Block
    BY <1>17, <2>2, <2>3 DEF startup
  <2>5. QED
    BY <2>1, <2>4, <1>0, <1>g
<1>18. ASSUME init PROVE NewTask /\ NewChain
  <2>1. CASE task' = Down /\ UNCHANGED chain_vars
    BY <2>1, <1>d, <1>g
  <2>2. CASE /\ rbi' = Kept /\ head' = head
             /\ task' \in {At("best", "idle"), At("replay_log", "idle"), At("replay_rev", "idle")}
    <3>1. rbi' \subseteq rbi
      BY <2>2 DEF Kept, Trim
    <3>2. QED
      BY <2>2, <3>1, <1>0, <1>g, BoundedSets
  <2>3. QED
    BY <1>18, <2>1, <2>2 DEF init
<1>19. ASSUME replay_log PROVE NewTask /\ NewChain
  <2>1. CASE task' = Down /\ UNCHANGED chain_vars
    BY <2>1, <1>d, <1>g
  <2>2. CASE head' = blog[Num[head] - Num[Head(blog)] + 2] /\ rbi' = rbi /\ task' = task
    <3>1. head \in Elems(blog) /\ head # LogHead
      BY <1>19 DEF replay_log, RootInv
    <3>2. head' \in Block
      BY <2>2, <3>1, <1>0, NextInLog DEF Received
    <3>3. QED
      BY <2>2, <3>2, <1>0 DEF TypeInv
  <2>3. QED
    BY <1>19, <2>1, <2>2 DEF replay_log
<1>20. ASSUME replay_log_end PROVE NewTask /\ NewChain
  <2>1. /\ UNCHANGED chain_vars
        /\ task' \in {At("replay_rev", "idle"), Down} \/ \E why : task' = Halted(why)
    BY <1>20, Zenon DEF replay_log_end
  <2>2. QED
    BY <2>1, <1>0, <1>a, <1>d, <1>g, TaskShapes, TaskParts, SMTT(30) DEF Applying
<1>21. ASSUME replay_reversible PROVE NewTask /\ NewChain
  <2>1. NewChain
    BY <1>21, <1>d, Zenon DEF replay_reversible
  <2>2. CASE task' \in {Down, At("best", "idle")}
    BY <2>1, <2>2, <1>g
  <2>3. CASE \E b \in rbi : task' = Task("extend", <<b>>, 0, <<>>, "replay_rev")
    <3>1. PICK b \in rbi : task' = Task("extend", <<b>>, 0, <<>>, "replay_rev")
      BY <2>3
    <3>2. task'.todo = <<b>> /\ task'.undone = <<>>
      BY <3>1, TaskParts
    <3>3. <<b>> \in Seq(Received) /\ <<b>> # <<>>
      BY <1>0 DEF Bounded
    <3>4. QED
      BY <2>1, <3>2, <3>3
  <2>4. QED
    BY <1>21, <2>2, <2>3, Zenon DEF replay_reversible
<1>22. ASSUME apply_best_branch PROVE NewTask /\ NewChain
  BY <1>22, <1>d, <1>g DEF apply_best_branch
<1>23. NewTask /\ NewChain
  BY <1>1, <1>2, <1>3, <1>4, <1>5, <1>6, <1>7, <1>8, <1>9, <1>10, <1>11, <1>12, <1>13, <1>14, <1>15,
     <1>16, <1>17, <1>18, <1>19, <1>20, <1>21, <1>22, Zenon
  DEF ControllerNext, Step, crash, crash_logged, revert_on_nothing
<1>24. QED
  BY <1>23 DEF TypeInv

\* The steps of stopping and starting.
LEMMA StartSteps ==
    ASSUME RootInv, IInv, TypeInv,
           \/ shutdown \/ crash \/ crash_logged \/ revert_on_nothing \/ replay_blockchain
           \/ \E m \in {"speculative", "irreversible"} : startup(m)
           \/ init \/ replay_log \/ replay_log_end \/ replay_reversible \/ apply_best_branch
    PROVE  RootInv' /\ [Next]_vars
<1>0. /\ TaskShape(task) /\ LogIsChain /\ Genesis \in Block
      /\ "idle" \in {"idle", "best_loop", "replay_rev"}
  BY TreeAssumption DEF RootInv
<1>a. ASSUME crash \/ crash_logged \/ revert_on_nothing PROVE RootInv' /\ [Next]_vars
  BY <1>a, <1>0, CrashRoot DEF crash, crash_logged, revert_on_nothing, Next
<1>b. ASSUME UNCHANGED <<fork_vars, blog>>
      PROVE  /\ [Next]_vars /\ LogIsChain' /\ LogHead' = LogHead /\ root' = root
             /\ Fresh' <=> Fresh
  <2>1. UNCHANGED fork_vars /\ blog' = blog
    BY <1>b
  <2>2. [Next]_vars /\ root' = root
    BY <2>1 DEF fork_vars, vars
  <2>3. Fresh' <=> Fresh
    BY <2>1 DEF Fresh, fork_vars, Elems
  <2>4. QED
    BY <2>1, <2>2, <2>3, <1>0, SameLog
<1>c. task.op \in Starting => root = LogHead \/ Fresh
  BY DEF RootInv
<1>d. ASSUME UNCHANGED <<fork_vars, blog>>, TaskShape(task'), task'.op = "down",
             root = LogHead \/ Fresh
      PROVE  RootInv' /\ [Next]_vars
  BY <1>b, <1>d DEF RootInv, Starting
<1>e. ASSUME UNCHANGED <<fork_vars, blog>>, TaskShape(task'), root = LogHead,
             task'.op \in {"idle", "best", "best_loop", "switch", "extend", "replay_rev"}
      PROVE  RootInv' /\ [Next]_vars
  BY <1>b, <1>e DEF RootInv, Starting
<1>1. ASSUME shutdown PROVE RootInv' /\ [Next]_vars
  <2>1. UNCHANGED <<fork_vars, blog>> /\ task' = Down /\ task.op = "idle"
    BY <1>1 DEF shutdown, chain_vars
  <2>2. root = LogHead
    BY <2>1 DEF RootInv, Starting
  <2>3. QED
    BY <2>1, <2>2, <1>d, <1>0, TaskShapes
<1>2. ASSUME replay_blockchain PROVE RootInv' /\ [Next]_vars
  <2>1. UNCHANGED <<fork_vars, blog>> /\ task' = task /\ task.op = "down"
    BY <1>2 DEF replay_blockchain
  <2>2. QED
    BY <2>1, <1>d, <1>0, <1>c DEF Starting
<1>3. ASSUME NEW m \in {"speculative", "irreversible"}, startup(m) PROVE RootInv' /\ [Next]_vars
  <2>1. /\ task' = At("init", "idle") /\ task.op = "down" /\ blog' = blog
        /\ head' = Genesis \/ head' = fork_head'
    BY <1>3 DEF startup
  <2>2. TaskShape(task') /\ task'.op = "init" /\ LogIsChain' /\ LogHead' = LogHead
    BY <2>1, <1>0, TaskShapes, SameLog
  <2>3. root = LogHead \/ Fresh
    BY <2>1, <1>c DEF Starting
  <2>4. CASE reset(Genesis)
    <3>1. Fresh'
      <4>1. Genesis \in Elems(blog)
        <5>1. Genesis = blog[1] /\ Len(blog) \in Nat /\ Len(blog) >= 1 /\ DOMAIN blog = 1 .. Len(blog)
          BY <1>0, ChainEnds, SeqLen DEF LogIsChain
        <5>2. QED
          BY <5>1 DEF Elems
      <4>2. QED
        BY <2>1, <2>4, <4>1 DEF Fresh, reset, Elems
    <3>2. [Next]_vars
      BY <2>4, <1>0 DEF Next
    <3>3. QED
      BY <2>1, <2>2, <3>1, <3>2 DEF RootInv, Starting
  <2>5. CASE rollback_head_to_root
    <3>1. root' = root /\ [Next]_vars /\ (Fresh => Fresh')
      BY <2>1, <2>5 DEF rollback_head_to_root, Next, Fresh, Elems
    <3>2. QED
      BY <2>1, <2>2, <2>3, <3>1 DEF RootInv, Starting
  <2>6. CASE UNCHANGED fork_vars
    <3>1. root' = root /\ [Next]_vars /\ (Fresh => Fresh')
      BY <2>1, <2>6, <1>b
    <3>2. QED
      BY <2>1, <2>2, <2>3, <3>1 DEF RootInv, Starting
  <2>7. QED
    BY <1>3, <2>4, <2>5, <2>6 DEF startup
<1>4. ASSUME init PROVE RootInv' /\ [Next]_vars
  <2>1. task.op = "init" /\ UNCHANGED <<fork_vars, blog>>
    BY <1>4 DEF init, chain_vars
  <2>2. root = LogHead \/ Fresh
    BY <2>1, <1>c DEF Starting
  <2>3. CASE Refused
    <3>1. task' = Down
      BY <1>4, <2>3 DEF init
    <3>2. QED
      BY <2>1, <2>2, <3>1, <1>d, <1>0, TaskShapes
  <2>4. CASE ~Refused
    <3>1. head' = head /\ task' = At(IF LastNum = Num[head] THEN "best"
                                      ELSE IF Num[head] < Num[LogHead] THEN "replay_log"
                                      ELSE "replay_rev", "idle")
      BY <1>4, <2>4 DEF init
    <3>2. TaskShape(task') /\ task'.op = IF LastNum = Num[head] THEN "best"
                                          ELSE IF Num[head] < Num[LogHead] THEN "replay_log"
                                          ELSE "replay_rev"
      BY <3>1, TaskShapes
    <3>3. /\ LastNum \in Nat /\ Num[LogHead] \in Nat /\ LastNum >= Num[LogHead]
          /\ head \in Block /\ Num[head] \in Nat
      BY <1>0, LastNumBound, TreeAssumption DEF TypeInv
    <3>4. Genesis \in Elems(blog)
      <4>1. Genesis = blog[1] /\ Len(blog) \in Nat /\ Len(blog) >= 1 /\ DOMAIN blog = 1 .. Len(blog)
        BY <1>0, ChainEnds, SeqLen, Zenon DEF LogIsChain
      <4>2. QED
        BY <4>1 DEF Elems
    <3>5. CASE ~(Num[head] < Num[LogHead])
      <4>1. head = Genesis \/ head = fork_head
        BY <2>1 DEF RootInv
      <4>2. Fresh => root = LogHead
        <5>1. CASE Fresh
          <6>1. head \in Elems(blog) /\ root \in Elems(blog)
            BY <5>1, <4>1, <3>4 DEF Fresh
          <6>2. head = LogHead
            BY <6>1, <3>3, <3>5, <1>0, ChainTop
          <6>3. CASE head = fork_head
            BY <6>2, <6>3, <5>1 DEF Fresh
          <6>4. CASE head = Genesis
            <7>1. LogHead = Genesis /\ root \in Ancestry[LogHead]
              BY <6>1, <6>2, <6>4, <1>0, ChainTop
            <7>2. QED
              BY <7>1, AncestryAssumption
          <6>5. QED
            BY <4>1, <6>3, <6>4
        <5>2. QED
          BY <5>1
      <4>3. task'.op \in {"best", "replay_rev"}
        BY <3>2, <3>5
      <4>4. QED
        BY <2>1, <2>2, <3>2, <4>2, <4>3, <1>e
    <3>6. CASE Num[head] < Num[LogHead]
      <4>1. task'.op = "replay_log"
        BY <3>2, <3>3, <3>6
      <4>2. head \in Elems(blog)
        <5>1. CASE head = Genesis
          BY <5>1, <3>4
        <5>2. CASE head = fork_head /\ Fresh
          BY <5>2 DEF Fresh
        <5>3. CASE head = fork_head /\ root = LogHead
          <6>1. fork_head \in index \cup {root} /\ root \in Block
            BY DEF IInv, TypeOK, OneTree
          <6>2. root \in Ancestry[fork_head] /\ fork_head \in Block
            BY <6>1, BranchToRoot
          <6>3. Num[root] <= Num[fork_head]
            BY <6>2, AncestryBelow
          <6>4. QED
            BY <6>3, <5>3, <3>3, <3>6
        <5>4. QED
          BY <5>1, <5>2, <5>3, <2>1, <2>2 DEF RootInv
      <4>3. head' \in Elems(blog)' /\ root' = root /\ LogHead' = LogHead /\ LogIsChain' /\ [Next]_vars
            /\ (Fresh' <=> Fresh)
        BY <4>2, <3>1, <2>1, <1>b, Zenon DEF Elems
      <4>4. QED
        BY <4>1, <4>3, <3>2, <2>2 DEF RootInv, Starting
    <3>7. QED
      BY <3>5, <3>6
  <2>5. QED
    BY <2>3, <2>4
<1>5. ASSUME replay_log PROVE RootInv' /\ [Next]_vars
  <2> DEFINE b == blog[Num[head] - Num[Head(blog)] + 2]
  <2>1. task.op = "replay_log" /\ UNCHANGED <<fork_vars, blog>> /\ head \in Elems(blog) /\ head # LogHead
    BY <1>5, Zenon DEF replay_log, chain_vars, RootInv
  <2>2. b \in Elems(blog) /\ Prev[b] = head
    BY <2>1, <1>0, NextInLog, Zenon
  <2>3. head' = b /\ task' = task
    BY <1>5, <2>2, Zenon DEF replay_log
  <2>4. head' \in Elems(blog)'
    BY <2>1, <2>2, <2>3 DEF Elems
  <2>5. root = LogHead \/ Fresh
    BY <2>1, <1>c DEF Starting
  <2>6. QED
    BY <2>1, <2>3, <2>4, <2>5, <1>0, <1>b, Zenon DEF RootInv, Starting
<1>6. ASSUME replay_log_end PROVE RootInv' /\ [Next]_vars
  <2>1. /\ task.op = "replay_log" /\ head \in Elems(blog) /\ UNCHANGED <<chain_vars, node_vars>>
        /\ task' = IF Len(stack) # 1 THEN Halted("cannot set revision with undo sessions")
                   ELSE IF head = LogHead THEN At("replay_rev", "idle")
                   ELSE Down
    BY <1>6, Zenon DEF replay_log_end, RootInv
  <2>2. LogIsChain' /\ LogHead' = LogHead /\ blog' = blog /\ Elems(blog)' = Elems(blog)
    BY <2>1, <1>0, SameLog, Zenon DEF chain_vars, Elems
  <2>3. root = LogHead \/ Fresh
    BY <2>1, <1>c, Zenon DEF Starting
  <2>4. /\ head \in Block /\ Num[head] <= Num[LogHead] /\ Num[head] \in Nat /\ Num[LogHead] \in Nat
        /\ Num[head] = Num[LogHead] => head = LogHead
        /\ Num[LogHead] = Num[head] => head = LogHead
    BY <2>1, <1>0, ChainTop, Zenon
  <2>5. /\ TaskShape(task') /\ task'.op \in {"halted", "replay_rev", "down"}
        /\ task'.op = "replay_rev" => head = LogHead
    BY <2>1, TaskShapes, Zenon
  <2>6. root \in Block /\ Num[root] \in Nat
    BY TreeAssumption DEF IInv, TypeOK
  <2>7. CASE reset(head)
    <3>1. [Next]_vars
      BY <2>4, <2>7 DEF Next
    <3>2. Fresh' /\ root' = head
      BY <2>1, <2>2, <2>7, Zenon DEF Fresh, reset
    <3>3. QED
      BY <2>2, <2>5, <3>1, <3>2 DEF RootInv, Starting
  <2>8. CASE UNCHANGED fork_vars /\ Num[head] = Num[root]
    <3>1. root' = root /\ [Next]_vars /\ (Fresh => Fresh')
      BY <2>2, <2>8, <1>b
    <3>2. head = LogHead => root = LogHead
      <4>1. CASE Fresh /\ head = LogHead
        <5>1. root \in Elems(blog) /\ Num[root] = Num[LogHead]
          BY <4>1, <2>8 DEF Fresh
        <5>2. QED
          BY <5>1, <1>0, ChainTop
      <4>2. QED
        BY <4>1, <2>3
    <3>3. QED
      BY <2>2, <2>3, <2>5, <3>1, <3>2 DEF RootInv, Starting
  <2>9. reset(head) \/ (UNCHANGED fork_vars /\ Num[head] = Num[root])
    BY <1>6, ReplayEnds
  <2>10. QED
    BY <2>7, <2>8, <2>9
<1>7. ASSUME replay_reversible PROVE RootInv' /\ [Next]_vars
  <2>1. task.op = "replay_rev" /\ blog' = blog /\ root = LogHead
    BY <1>7, Zenon DEF replay_reversible, chain_vars, RootInv, Starting
  <2>2. CASE task' \in {Down, At("best", "idle")} /\ UNCHANGED fork_vars
    <3>1. TaskShape(task') /\ task'.op \in {"down", "best"}
      BY <2>2 DEF Down, At, Task, TaskShape
    <3>2. QED
      BY <2>1, <2>2, <3>1, <1>d, <1>e
  <2>3. CASE \E b : (UNCHANGED fork_vars \/ add(b)) /\ task' = Task("extend", <<b>>, 0, <<>>, "replay_rev")
    <3>1. PICK b : (UNCHANGED fork_vars \/ add(b)) /\ task' = Task("extend", <<b>>, 0, <<>>, "replay_rev")
      BY <2>3, Zenon
    <3>2. TaskShape(task') /\ task'.op = "extend"
      <4>1. task' = Task("extend", <<b>>, 0, <<>>, "replay_rev") /\ "replay_rev" \in {"idle", "best_loop", "replay_rev"}
        BY <3>1
      <4>2. QED
        BY <4>1 DEF Task, TaskShape
    <3>3. [Next]_vars /\ root' = root
      BY <3>1, ForkCalls
    <3>4. QED
      BY <2>1, <3>2, <3>3, RootStays DEF Starting
  <2>4. QED
    BY <1>7, <2>2, <2>3, Zenon DEF replay_reversible
<1>8. ASSUME apply_best_branch PROVE RootInv' /\ [Next]_vars
  <2>1. /\ task.op \in {"best", "best_loop"} /\ UNCHANGED <<fork_vars, blog>>
        /\ task' \in {At("switch", "best_loop"), Idle}
    BY <1>8 DEF apply_best_branch, chain_vars
  <2>2. root = LogHead
    BY <2>1 DEF RootInv, Starting
  <2>3. QED
    BY <2>1, <2>2, <1>e, <1>0, TaskShapes, SMTT(30)
<1>9. QED
  BY <1>a, <1>1, <1>2, <1>3, <1>4, <1>5, <1>6, <1>7, <1>8

-----------------------------------------------------------------------------
(* The controller and the fork database.                                   *)

\* A step of the controller keeps that and is a step of the fork database or none.
LEMMA UsageStep ==
    ASSUME UsageInv, [ControllerNext]_controller_vars
    PROVE  UsageInv' /\ [Next]_vars
<1>1. CASE UNCHANGED controller_vars
  <2>1. /\ UNCHANGED <<index, validated, root, fork_head, mode, bad, head, stack, rbi, blog, task>>
    BY <1>1 DEF controller_vars, fork_vars, chain_vars, node_vars
  <2>2. TypeInv' /\ [Next]_vars
    BY <2>1 DEF UsageInv, TypeInv, vars, Bounded
  <2>3. RootInv'
    BY <2>1 DEF UsageInv, RootInv, LogIsChain, Fresh, LogHead
  <2>4. QED
    BY <2>2, <2>3, NextPreserves DEF UsageInv
<1>2. CASE ControllerNext
  <2>1. TypeInv'
    BY <1>2, TypesKept DEF UsageInv
  <2>2. RootInv' /\ [Next]_vars
    BY <1>2, SwitchSteps, LogSteps, StartSteps DEF UsageInv, ControllerNext, Step
  <2>3. QED
    BY <2>1, <2>2, NextPreserves DEF UsageInv
<1>3. QED
  BY <1>1, <1>2

\* It holds at the start.
LEMMA UsageInit ==
    ASSUME ControllerInit
    PROVE  UsageInv
<1>1. Genesis \in Block /\ task = Idle /\ head = Genesis /\ rbi = {} /\ blog = <<Genesis>> /\ Init
  BY TreeAssumption DEF ControllerInit
<1>2. IInv
  BY <1>1 DEF Init, IInv, TypeOK, OneTree, HeadIsBest, ValidatedPrefix, NumsBounded
<1>3. TypeInv
  <2>1. task.todo = <<>> /\ task.undone = <<>> /\ task.op = "idle"
    BY <1>1, TaskParts, TaskShapes, Zenon
  <2>2. Bounded(rbi)
    BY <1>1 DEF Bounded
  <2>3. QED
    BY <1>1, <2>1, <2>2 DEF TypeInv, Applying
<1>4. RootInv
  <2>1. TaskShape(task) /\ task.op = "idle"
    BY <1>1, TaskShapes
  <2>2. blog \in Seq(Block) /\ blog # <<>> /\ Head(blog) = Genesis /\ IsChain(blog) /\ Last(blog) = Genesis
    BY <1>1 DEF IsChain, Last
  <2>3. QED
    BY <1>1, <2>1, <2>2 DEF RootInv, LogIsChain, LogHead, Init, Starting
<1>5. QED
  BY <1>2, <1>3, <1>4 DEF UsageInv

\* The fork database and the log agree in every state of the controller.
THEOREM LogAndRootAgree == ControllerSpec => []UsageInv
<1>1. ControllerInit => UsageInv
  BY UsageInit
<1>2. UsageInv /\ [ControllerNext]_controller_vars => UsageInv'
  BY UsageStep
<1>3. QED
  BY <1>1, <1>2, PTL DEF ControllerSpec

\* The controller implements the fork database's specification: push_block, the fork switch and
\* its reversal, log_irreversible, crashes, restarts and replays change the database only by
\* calls its interface allows, one at a time, with what each call requires of its caller.
THEOREM ControllerUsesForkDatabase == ControllerSpec => UsesForkDatabase
<1>1. ControllerInit => Init
  BY DEF ControllerInit
<1>2. UsageInv /\ [ControllerNext]_controller_vars => [Next]_vars
  BY UsageStep
<1>3. ControllerSpec => []UsageInv
  BY LogAndRootAgree
<1>4. QED
  BY <1>1, <1>2, <1>3, PTL DEF ControllerSpec, UsesForkDatabase, Spec

-----------------------------------------------------------------------------
(* The stores agree.                                                       *)

\* The phases a call goes through, besides halted.
Phases ==
    {"idle", "switch", "commit", "extend", "pop", "apply", "revert", "reapply", "log", "append", "advance",
     "down", "init", "replay_log", "replay_rev", "best", "best_loop", "halted"}

\* A call goes from one phase to another.
LEMMA PhasesKept ==
    ASSUME UsageInv, task.op \in Phases, [ControllerNext]_controller_vars
    PROVE  task'.op \in Phases
<1>1. /\ TaskShape(task) /\ task.caller \in {"idle", "best_loop", "replay_rev"}
      /\ "idle" \in {"idle", "best_loop", "replay_rev"} /\ "best_loop" \in {"idle", "best_loop", "replay_rev"}
      /\ "replay_rev" \in {"idle", "best_loop", "replay_rev"}
  BY Known
<1>2. ASSUME NEW c \in {"idle", "best_loop", "replay_rev"}
      PROVE  /\ Return(c).op \in Phases /\ Thrown(c).op \in Phases
             /\ \A op \in Phases : \A todo, done, undone : Task(op, todo, done, undone, c).op \in Phases
             /\ \A op \in Phases : At(op, c).op \in Phases
  BY <1>2 DEF Phases, Return, Thrown, Task, At, Idle, Down
<1>3. Down.op \in Phases /\ Idle.op \in Phases /\ \A why : Halted(why).op \in Phases
  BY <1>1, TaskShapes DEF Phases
<1>4. /\ \A op \in Phases : [task EXCEPT !.op = op].op \in Phases
      /\ \A x : [task EXCEPT !.todo = x].op \in Phases /\ [task EXCEPT !.done = x].op \in Phases
      /\ \A x, y : [task EXCEPT !.todo = x, !.done = y].op \in Phases
  BY <1>1, TaskExceptParts
<1>5. \A op \in {"switch", "commit", "extend", "pop", "apply", "revert", "reapply", "log", "append",
                 "advance", "init", "replay_log", "replay_rev", "best"} : op \in Phases
  BY DEF Phases
<1>6. CASE UNCHANGED controller_vars
  BY <1>6 DEF controller_vars
<1>7. CASE \E b \in Block : push_block(b) \/ produce_block(b)
  BY <1>1, <1>2, <1>5, <1>7, Zenon DEF push_block, produce_block
<1>8. CASE shutdown \/ crash \/ crash_logged \/ revert_on_nothing \/ replay_blockchain
  BY <1>3, <1>8, Zenon DEF shutdown, crash, crash_logged, revert_on_nothing, LoseState, replay_blockchain
<1>9. CASE \E m \in {"speculative", "irreversible"} : startup(m)
  BY <1>1, <1>2, <1>5, <1>9 DEF startup
<1>10. CASE commit_block
  BY <1>1, <1>2, <1>3, <1>5, <1>10, Zenon DEF commit_block, Halt
<1>11. CASE maybe_switch_forks
  BY <1>1, <1>2, <1>5, <1>11, Zenon DEF maybe_switch_forks
<1>12. CASE pop_branch
  BY <1>1, <1>2, <1>3, <1>4, <1>5, <1>12, Zenon DEF pop_branch, Halt
<1>13. CASE extend_head
  BY <1>1, <1>2, <1>3, <1>5, <1>13, Zenon DEF extend_head, Halt
<1>14. CASE apply_branch
  BY <1>1, <1>2, <1>3, <1>4, <1>5, <1>14, Zenon DEF apply_branch, Halt
<1>15. CASE revert_branch \/ reverted
  BY <1>1, <1>2, <1>3, <1>4, <1>5, <1>15, Zenon DEF revert_branch, reverted, Halt
<1>16. CASE reapply_branch
  BY <1>1, <1>2, <1>3, <1>4, <1>16, Zenon DEF reapply_branch, Halt
<1>17. CASE log_irreversible \/ advance_after_log
  BY <1>1, <1>2, <1>3, <1>5, <1>17, Zenon DEF log_irreversible, advance_after_log, Halt
<1>18. CASE append_irreversible
  BY <1>1, <1>2, <1>3, <1>4, <1>5, <1>18, Zenon DEF append_irreversible, Halt
<1>19. CASE init \/ replay_log \/ replay_log_end
  BY <1>1, <1>2, <1>3, <1>5, <1>19, Zenon DEF init, replay_log, replay_log_end
<1>20. CASE replay_reversible \/ apply_best_branch
  BY <1>1, <1>2, <1>3, <1>5, <1>20, Zenon DEF replay_reversible, apply_best_branch
<1>21. QED
  BY <1>6, <1>7, <1>8, <1>9, <1>10, <1>11, <1>12, <1>13, <1>14, <1>15, <1>16, <1>17, <1>18, <1>19, <1>20
     DEF ControllerNext, Step

\* A fresh node starts with stores that agree.
LEMMA StoresStart ==
    ASSUME ControllerInit
    PROVE  task.op \in Phases /\ StoresInv
<1>1. /\ Init /\ mode \in {"speculative", "irreversible"} /\ bad \in BadSets /\ head = Genesis
      /\ stack = <<Genesis>> /\ rbi = {} /\ blog = <<Genesis>> /\ fork_file = TRUE /\ task = Idle
  BY DEF ControllerInit
<1>2. index = {} /\ validated = {} /\ root = Genesis /\ fork_head = Genesis
  BY <1>1 DEF Init
<1>3. Genesis \in Block
  BY TreeAssumption
<1>4. LogHead = Genesis /\ ChainFrom(stack, Genesis, Genesis)
  BY <1>1, <1>3, SingleChain DEF LogHead, ChainFrom
<1>5. Genesis \in Ancestry[Genesis] /\ Above(Genesis, Genesis) = {}
  BY <1>3, AncestryEnds, AboveEmpty
<1>6. task.op = "idle"
  <2>1. "idle" \in {"idle", "best_loop", "replay_rev"}
    OBVIOUS
  <2>2. QED
    BY <1>1, <2>1, TaskShapes
<1>7. Elems(blog) \cap bad = {}
  <2>1. Genesis \notin bad
    BY <1>1, BadSetsAssumption DEF Received
  <2>2. Elems(blog) = {Genesis}
    BY <1>1 DEF Elems
  <2>3. QED
    BY <2>1, <2>2
<1>8. Files
  BY <1>1, <1>2, <1>3, <1>4, <1>5, <1>6, <1>7 DEF Files
<1>9. IdleInv
  BY <1>1, <1>2, <1>4, <1>5 DEF IdleInv, Settled, Leads, Final, NoneBeats
<1>10. QED
  BY <1>6, <1>8, <1>9 DEF StoresInv, PhaseInv, Phases

\* Every step of the node keeps the invariant.
LEMMA StoresStep ==
    ASSUME TiesSettled, UsageInv, StoresInv, [ControllerNext]_controller_vars
    PROVE  StoresInv'
<1>1. UsageInv'
  BY UsageStep
<1>2. CASE UNCHANGED controller_vars
  <2>1. UNCHANGED <<index, validated, root, fork_head, head, stack, rbi, blog, mode, bad, fork_file, task>>
    BY <1>2 DEF controller_vars, fork_vars, chain_vars, node_vars
  <2>2. LogHead' = LogHead /\ Settled' = Settled /\ Replaying' = Replaying
    BY <2>1, Zenon DEF LogHead, Settled, Replaying
  <2>3. Files'
    <3>1. Trim(Num[LogHead])' = Trim(Num[LogHead])
      BY <2>1, <2>2, Zenon DEF Trim
    <3>2. QED
      BY <2>1, <2>2, <3>1, Zenon DEF StoresInv, Files
  <2>4. IdleInv' = IdleInv /\ SwitchInv' = SwitchInv /\ CommitInv' = CommitInv /\ ExtendInv' = ExtendInv
        /\ BestInv' = BestInv /\ LoopInv' = LoopInv
    BY <2>1, <2>2, Zenon DEF IdleInv, SwitchInv, CommitInv, ExtendInv, BestInv, LoopInv
  <2>5. PopInv' = PopInv
    BY <2>1, <2>2, Zenon DEF PopInv, Taking, OnBranch, Leaving, OnlyBetter, FromRoot
  <2>6. ApplyInv' = ApplyInv
    BY <2>1, <2>2, Zenon DEF ApplyInv, Taking, OnBranch, Leaving, OnlyBetter, FromRoot
  <2>7. RevertInv' = RevertInv /\ ReapplyInv' = ReapplyInv
    BY <2>1, <2>2, Zenon DEF RevertInv, ReapplyInv, OnBranch, Leaving
  <2>8. LogInv' = LogInv /\ AppendInv' = AppendInv /\ AdvanceInv' = AdvanceInv
    BY <2>1, <2>2, Zenon DEF LogInv, AppendInv, AdvanceInv, AtLog, BelowHead, Reversible
  <2>9. Written' = Written /\ Fresh' = Fresh /\ RolledBack' = RolledBack
    BY <2>1, <2>2 DEF Written, Fresh, RolledBack
  <2>10. DownInv' = DownInv /\ InitInv' = InitInv /\ ReplayLogInv' = ReplayLogInv /\ ReplayRevInv' = ReplayRevInv
    BY <2>1, <2>2, <2>9, Zenon DEF DownInv, InitInv, ReplayLogInv, ReplayRevInv
  <2>11. QED
    <3>1. PhaseInv' = PhaseInv
      BY <2>1, <2>4, <2>5, <2>6, <2>7, <2>8, <2>10, Zenon DEF PhaseInv
    <3>2. QED
      BY <2>3, <3>1 DEF StoresInv
<1>3. CASE \E b \in Block : push_block(b) \/ produce_block(b)
  BY <1>3, PushKeeps
<1>4. CASE shutdown
  BY <1>4, ShutdownKeeps
<1>5. CASE crash \/ crash_logged \/ revert_on_nothing
  BY <1>5, CrashKeeps, CrashLoggedKeeps DEF crash, revert_on_nothing
<1>6. CASE replay_blockchain
  BY <1>6, ReplayBlockchainKeeps
<1>7. CASE \E m \in {"speculative", "irreversible"} : startup(m)
  BY <1>7, StartupKeeps
<1>8. CASE commit_block \/ maybe_switch_forks \/ pop_branch \/ extend_head
  BY <1>8, CommitKeeps, SwitchKeeps, PopKeeps, ExtendKeeps
<1>9. CASE apply_branch \/ revert_branch \/ reverted \/ reapply_branch
  BY <1>9, ApplyKeeps, RevertKeeps, RevertedKeeps, ReapplyKeeps
<1>10. CASE log_irreversible \/ append_irreversible \/ advance_after_log
  BY <1>1, <1>10, LogKeeps, AppendKeeps, AdvanceKeeps
<1>11. CASE init \/ replay_log \/ replay_log_end \/ replay_reversible \/ apply_best_branch
  BY <1>1, <1>11, InitKeeps, ReplayLogKeeps, ReplayLogEndKeeps, ReplayReversibleKeeps, BestKeeps
<1>12. QED
  BY <1>2, <1>3, <1>4, <1>5, <1>6, <1>7, <1>8, <1>9, <1>10, <1>11 DEF ControllerNext, Step

\* The inductive invariant of the controller: in every phase of a call the block log, the
\* reversible blocks, the undo sessions and the fork database hold what the next phase needs.
THEOREM StoresInvariant ==
    ASSUME TiesSettled
    PROVE  ControllerSpec => [](UsageInv /\ task.op \in Phases /\ StoresInv)
<1>1. ControllerInit => UsageInv /\ task.op \in Phases /\ StoresInv
  BY UsageInit, StoresStart
<1>2. UsageInv /\ task.op \in Phases /\ StoresInv /\ [ControllerNext]_controller_vars
      => (UsageInv /\ task.op \in Phases /\ StoresInv)'
  BY UsageStep, PhasesKept, StoresStep
<1>3. QED
  BY <1>1, <1>2, PTL DEF ControllerSpec

\* What the invariant says between two calls.
LEMMA InvariantIsSound ==
    ASSUME UsageInv, task.op \in Phases, StoresInv
    PROVE  StoresSound
<1>1. Files /\ LogIsChain /\ task.op # "halted"
  BY DEF StoresInv, PhaseInv, UsageInv, RootInv
<1>2. StoresAgree
  <2>1. ASSUME task.op = "idle"
        PROVE  /\ IsChain(stack) /\ Head(stack) = LogHead /\ Last(stack) = head
               /\ rbi = IF mode = "irreversible" THEN {}
                        ELSE {b \in Ancestry[head] : Num[b] > Num[LogHead]}
               /\ root = LogHead
               /\ mode = "irreversible" => head = root
    <3>1. Settled /\ root = LogHead
      BY <2>1, Known, Zenon DEF StoresInv, PhaseInv, IdleInv, Starting
    <3>2. mode = "irreversible" => rbi = {}
      BY <1>1, <2>1, Zenon DEF Files
    <3>3. QED
      BY <3>1, <3>2 DEF Settled, ChainFrom, Above
  <2>2. QED
    BY <1>1, <2>1, Zenon DEF StoresAgree
<1>3. HeadBuildsOnLog
  <2>1. IsChain(blog) /\ \A i \in DOMAIN blog : blog[i] \notin bad
    BY <1>1, Zenon DEF LogIsChain, Files, Elems
  <2>2. ASSUME task.op \notin {"down", "init", "replay_log", "halted"} PROVE LogHead \in Ancestry[head]
    <3>1. ChainFrom(stack, LogHead, head)
      <4>1. task.op \in Phases
        OBVIOUS
      <4>2. QED
        BY <2>2, <4>1, Zenon DEF Phases, StoresInv, PhaseInv, IdleInv, Settled, SwitchInv, CommitInv, ExtendInv, Replaying, PopInv,
           ApplyInv, RevertInv, ReapplyInv, OnBranch, LogInv, AppendInv, AdvanceInv, ReplayRevInv, BestInv, LoopInv
    <3>2. QED
      BY <3>1, ChainFacts, Zenon
  <2>3. QED
    BY <2>1, <2>2, Zenon DEF HeadBuildsOnLog
<1>4. HeadIsBestKnown
  BY <1>1, Zenon DEF HeadIsBestKnown, StoresInv, PhaseInv, IdleInv, NoneBeats, Files
<1>5. QED
  BY <1>2, <1>3, <1>4 DEF StoresSound

\* Between calls the block log, the reversible blocks, the undo sessions and the fork database agree
\* on the head, the head never leaves the log, and no known block beats it: for every tree of
\* blocks, every set of invalid ones that leaves no tie open, and however the calls, the
\* crashes and the restarts of the node follow on each other.
THEOREM StoresStaySound ==
    ASSUME TiesSettled
    PROVE  ControllerSpec => []StoresSound
<1>1. UsageInv /\ task.op \in Phases /\ StoresInv => StoresSound
  BY InvariantIsSound
<1>2. QED
  BY <1>1, StoresInvariant, PTL

\* What a step of a start may do.
LEMMA RestartStep ==
    ASSUME UsageInv, StoresInv, [ControllerNext]_controller_vars
    PROVE  /\ task.op \in {"init", "replay_rev"} /\ task'.op = "down" => stack' = <<>> \/ UNCHANGED controller_vars
           /\ task.op = "down" /\ task'.op = "init" /\ mode' = mode /\ stack # <<>>
              => head' = head
<1>1. "idle" \in {"idle", "best_loop", "replay_rev"} /\ "replay_rev" \in {"idle", "best_loop", "replay_rev"}
  OBVIOUS
<1>2. ASSUME task.op \in {"init", "replay_rev"}, task'.op = "down", ~UNCHANGED controller_vars
      PROVE  stack' = <<>>
  <2>1. crash \/ init \/ replay_reversible
    BY <1>2, Zenon DEF ControllerNext, Step, push_block, produce_block, shutdown, crash_logged, replay_blockchain, startup, commit_block,
       maybe_switch_forks, pop_branch, extend_head, apply_branch, revert_branch, reverted, revert_on_nothing,
       reapply_branch, log_irreversible, append_irreversible, advance_after_log, replay_log, replay_log_end,
       apply_best_branch
  <2>2. CASE crash
    BY <2>2 DEF crash, LoseState
  <2>3. CASE init
    <3>1. ~Refused
      BY <2>3, InitAccepted DEF init
    <3>2. \E op \in {"best", "replay_log", "replay_rev"} : task' = At(op, "idle")
      BY <2>3, <3>1 DEF init
    <3>3. task'.op \in {"best", "replay_log", "replay_rev"}
      BY <1>1, <3>2, TaskShapes
    <3>4. QED
      BY <1>2, <3>3
  <2>4. CASE replay_reversible
    <3>1. CASE \A b \in rbi : Num[b] # Num[head] + 1
      <4>1. task' = At("best", "idle")
        BY <2>4, <3>1 DEF replay_reversible
      <4>2. QED
        BY <1>1, <1>2, <4>1, TaskShapes
    <3>2. CASE ~\A b \in rbi : Num[b] # Num[head] + 1
      <4>1. PICK b \in rbi : /\ Num[b] = Num[head] + 1 /\ task.op = "replay_rev"
                             /\ ~(Prev[b] # head \/ Prev[b] \notin Linkable)
                                => task' = Task("extend", <<b>>, 0, <<>>, "replay_rev")
        BY <2>4, <3>2, Zenon DEF replay_reversible
      <4>2. Prev[b] = head /\ head \in Linkable
        BY <4>1, NextReversible
      <4>3. task'.op = "extend"
        <5>1. task' = Task("extend", <<b>>, 0, <<>>, "replay_rev")
          BY <4>1, <4>2, Zenon
        <5>2. QED
          BY <5>1 DEF Task
      <4>4. QED
        BY <1>2, <4>3
    <3>3. QED
      BY <3>1, <3>2
  <2>5. QED
    BY <2>1, <2>2, <2>3, <2>4
<1>3. ASSUME task.op = "down", task'.op = "init", mode' = mode, stack # <<>>
      PROVE  head' = head
  <2>1. task.op # task'.op /\ DownInv /\ Files
    BY <1>3 DEF StoresInv, PhaseInv
  <2>2. PICK m \in {"speculative", "irreversible"} : startup(m)
    BY <1>3, <2>1 DEF ControllerNext, Step, push_block, produce_block, shutdown, crash, crash_logged, replay_blockchain, commit_block,
       maybe_switch_forks, pop_branch, extend_head, apply_branch, revert_branch, reverted, revert_on_nothing,
       reapply_branch, log_irreversible, append_irreversible, advance_after_log, init, replay_log,
       replay_log_end, replay_reversible, apply_best_branch, controller_vars
  <2>3. fork_file = TRUE /\ ~RollsBack(m)
    BY <1>3, <2>1, <2>2, Zenon DEF startup, RollsBack, DownInv, Files
  <2>4. head' = fork_head' /\ fork_head' = fork_head
    BY <1>3, <2>2, <2>3 DEF startup, fork_vars
  <2>5. head = fork_head
    BY <1>3, <2>1 DEF DownInv, Fresh
  <2>6. QED
    BY <2>4, <2>5
<1>4. QED
  BY <1>2, <1>3

\* init never refuses the files this node itself has left behind, and a clean restart in the same
\* mode takes up the head the node went down with.
THEOREM RestartsStaySound ==
    ASSUME TiesSettled
    PROVE  ControllerSpec => RestartSound
<1>1. UsageInv /\ StoresInv /\ [ControllerNext]_controller_vars
      => [task.op \in {"init", "replay_rev"} /\ task'.op = "down" => stack' = <<>>]_controller_vars
  BY RestartStep
<1>2. UsageInv /\ StoresInv /\ [ControllerNext]_controller_vars
      => [task.op = "down" /\ task'.op = "init" /\ mode' = mode /\ stack # <<>> => head' = head]_controller_vars
  BY RestartStep
<1>3. QED
  BY <1>1, <1>2, StoresInvariant, PTL DEF ControllerSpec, RestartSound, InitAccepts, RestartKeepsHead

=============================================================================
