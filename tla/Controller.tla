----------------------------- MODULE Controller -----------------------------
(***************************************************************************)
(* The controller: how one node turns the blocks it hears of into a chain  *)
(* state, a log of irreversible blocks and a cache of reversible ones, and *)
(* how it comes back after a shutdown or a crash.                          *)
(*                                                                         *)
(* push_block, commit_block and startup run to completion on the main      *)
(* thread. Each is cut into steps, one per block applied, popped, logged   *)
(* or replayed, so that a crash may come between any two of them; task     *)
(* holds what the running call still has to do.                            *)
(***************************************************************************)
EXTENDS ForkDatabase, Sequences

CONSTANT
    BadSets     \* the sets of blocks that may turn out invalid when applied

ASSUME BadSetsAssumption == BadSets \subseteq SUBSET Received

VARIABLES
    mode,       \* read_mode: "irreversible", or "speculative" for all others
    bad,        \* the blocks apply_block rejects
    head,       \* controller_impl::head
    stack,      \* the chain state: the blocks whose changes it holds, from the
                \* last committed one on, one undo session each; <<>> if fresh
    rbi,        \* the reversible block database
    blog,       \* the block log
    fork_file,  \* whether the fork database was written out or is open
    task        \* what the running call is doing

fork_vars == <<index, validated, root, fork_head>>
chain_vars == <<head, stack, rbi, blog>>
node_vars == <<mode, bad, fork_file>>
controller_vars == <<fork_vars, chain_vars, node_vars, task>>

\* todo: blocks still to apply, oldest first; done: how many of the branch have
\* been applied; undone: the blocks popped, oldest first; caller: where control
\* returns to; why: the assertion that failed.
Task(op, todo, done, undone, caller) ==
    [op |-> op, todo |-> todo, done |-> done, undone |-> undone, caller |-> caller,
     why |-> "none"]
At(op, caller) == Task(op, <<>>, 0, <<>>, caller)
Idle == At("idle", "idle")
Down == At("down", "idle")

\* A call that ends well returns to its caller.
Return(caller) == IF caller = "idle" THEN Idle ELSE At(caller, "idle")

\* An exception ends the call: a running node carries on, one that is starting
\* goes down.
Thrown(caller) == IF caller = "idle" THEN Idle ELSE Down

\* An assertion that is meant never to fail has failed.
Halted(why) == [At("halted", "idle") EXCEPT !.why = why]

\* The last element of a sequence, and the others.
Last(s) == s[Len(s)]
Front(s) == SubSeq(s, 1, Len(s) - 1)

LogHead == Last(blog)
Revision == Num[Head(stack)] + Len(stack) - 1

Max(S) == CHOOSE n \in S : \A m \in S : n >= m
Min(S) == CHOOSE n \in S : \A m \in S : n <= m

\* The blocks of a part of a chain, oldest first.
Oldest(S) ==
    LET nums == {Num[b] : b \in S}
    IN  IF S = {} THEN <<>>
        ELSE [i \in 1 .. (Max(nums) - Min(nums) + 1) |-> CHOOSE b \in S : Num[b] = Min(nums) + i - 1]

ControllerInit ==
    /\ Init
    /\ mode \in {"speculative", "irreversible"}
    /\ bad \in BadSets
    /\ head = Genesis
    /\ stack = <<Genesis>>
    /\ rbi = {}
    /\ blog = <<Genesis>>
    /\ fork_file = TRUE
    /\ task = Idle

-----------------------------------------------------------------------------
(* Parts of the handlers.                                                  *)

\* reversible_blocks.create, when commit_block does it; a second block with
\* the same number violates the index.
Stores == mode # "irreversible" /\ task.caller # "replay_rev"
Collides(b) == Stores /\ \E c \in rbi : Num[c] = Num[b]

\* apply_block on a block that turns out valid: start_block requires the state
\* to be at the head, and the new undo session stays.
Applies(b) ==
    /\ stack' = Append(stack, b)
    /\ rbi' = IF Stores THEN rbi \cup {b} ELSE rbi
    /\ head' = b
ApplyFails(b) ==
    IF Revision # Num[head] THEN "db revision is not on par with head block"
    ELSE IF Prev[b] # head THEN "block does not build on the head"
    ELSE IF Collides(b) THEN "reversible block already exists"
    ELSE "none"

RejectsNothing(b) == FALSE
AdvanceWithoutPruning ==
    /\ index' = index \ {LogHead}
    /\ validated' = validated \ {LogHead}
    /\ root' = LogHead
    /\ UNCHANGED fork_head
RollsBackAlways(m) == fork_head # root
BetterBranchAlways == TRUE

\* pop_block: by number in the reversible blocks, one undo session, one link.
Pops ==
    /\ head' = Prev[head]
    /\ rbi' = {b \in rbi : Num[b] # Num[head]}
    /\ stack' = Front(stack)
PopFails ==
    IF head = Genesis \/ Prev[head] \notin Linkable
    THEN "attempt to pop beyond last irreversible block"
    ELSE IF Len(stack) = 1 THEN "no undo session" ELSE "none"

\* db.commit: the undo sessions up to the revision become permanent.
Commit(s, n) == IF Num[Head(s)] >= n THEN s ELSE SubSeq(s, n - Num[Head(s)] + 1, Len(s))
LoggedRevision(b) == Num[b]

\* reversible_blocks.remove of all that the log now holds.
Trim(n) == {b \in rbi : Num[b] > n}

\* apply_block throws.
Rejects(b) == b \in bad

Halt(why) ==
    /\ task' = Halted(why)
    /\ UNCHANGED <<fork_vars, chain_vars, node_vars>>

-----------------------------------------------------------------------------
(* Blocks from the network, and blocks of this node's own.                 *)

\* What the block is checked for before it is handed to push_block: that it is
\* not known and that it links.
create_block_state_future(b) == b \notin index /\ Prev[b] \in Linkable

\* push_block up to the call of maybe_switch_forks or log_irreversible.
push_block(b) ==
    /\ task.op = "idle"
    /\ b \in Received
    /\ create_block_state_future(b)
    /\ add(b)
    /\ task' = At(IF mode = "irreversible" THEN "log" ELSE "switch", "idle")
    /\ UNCHANGED <<chain_vars, node_vars>>

\* commit_block(true) for a block this node has built on its head and signed,
\* in two steps: fork_db.add, then mark_valid and the new head.
produce_block(b) ==
    /\ task.op = "idle"
    /\ mode # "irreversible"
    /\ b \in Received \ bad
    /\ Prev[b] = head
    /\ add(b)
    /\ task' = Task("commit", <<b>>, 0, <<>>, "idle")
    /\ UNCHANGED <<chain_vars, node_vars>>

commit_block ==
    /\ task.op = "commit"
    /\ LET b == Head(task.todo)
           why == IF HeadAfterMark(validated \cup {b}, fork_head) # b
                  THEN "committed block did not become the new head in fork database"
                  ELSE ApplyFails(b)
       IN  IF why # "none" THEN Halt(why)
           ELSE /\ mark_valid(b)
                /\ Applies(b)
                /\ task' = At("log", "idle")
                /\ UNCHANGED <<blog, node_vars>>

-----------------------------------------------------------------------------
(* maybe_switch_forks.                                                     *)

\* The block push_block and init want to switch to.
SwitchTarget == pending_head

\* The three cases at its top: the new head extends the head, is on another
\* branch, or is the head.
maybe_switch_forks ==
    /\ task.op = "switch"
    /\ LET new == SwitchTarget
           first == Oldest(fetch_branch_from(new, head))
           second == Oldest(fetch_branch_from(head, new))
       IN  task' = IF new = head THEN Return(task.caller)
                   ELSE IF new \in Received /\ Prev[new] = head
                   THEN Task("extend", <<new>>, 0, <<>>, task.caller)
                   ELSE Task("pop", first, 0, second, task.caller)
    /\ UNCHANGED <<fork_vars, chain_vars, node_vars>>

\* One pop_block of the switch; when the head's branch is gone, the blocks of
\* the new branch are next.
pop_branch ==
    /\ task.op = "pop"
    /\ IF head \notin {task.undone[i] : i \in DOMAIN task.undone}
       THEN /\ task' = IF task.undone # <<>> /\ head # Prev[Head(task.undone)]
                       THEN Halted("loss of sync between fork_db and chainbase")
                       ELSE IF task.todo = <<>> THEN At("log", task.caller)
                       ELSE [task EXCEPT !.op = "apply"]
            /\ UNCHANGED <<fork_vars, chain_vars, node_vars>>
       ELSE IF PopFails # "none" THEN Halt(PopFails)
       ELSE /\ Pops
            /\ UNCHANGED <<fork_vars, blog, node_vars, task>>

\* The branch "new_head->header.previous == head->id".
extend_head ==
    /\ task.op = "extend"
    /\ LET b == Head(task.todo)
       IN  IF Rejects(b)
           THEN IF fork_head \in remove_queue(index, b)
                THEN Halt("removing the block would remove the current head block")
                ELSE /\ remove(b)
                     /\ task' = Thrown(task.caller)
                     /\ UNCHANGED <<chain_vars, node_vars>>
           ELSE IF ApplyFails(b) # "none" THEN Halt(ApplyFails(b))
           ELSE /\ Applies(b)
                /\ IF b \in validated THEN UNCHANGED fork_vars ELSE mark_valid(b)
                /\ task' = At("log", task.caller)
                /\ UNCHANGED <<blog, node_vars>>

\* One block of the new branch in a fork switch.
apply_branch ==
    /\ task.op = "apply"
    /\ LET b == Head(task.todo)
       IN  IF Rejects(b)
           THEN IF fork_head \in remove_queue(index, b)
                THEN Halt("removing the block would remove the current head block")
                ELSE /\ remove(b)
                     /\ task' = [task EXCEPT !.op = "revert"]
                     /\ UNCHANGED <<chain_vars, node_vars>>
           ELSE IF ApplyFails(b) # "none" THEN Halt(ApplyFails(b))
           ELSE /\ Applies(b)
                /\ IF b \in validated THEN UNCHANGED fork_vars ELSE mark_valid(b)
                /\ task' = IF Len(task.todo) = 1 THEN At("log", task.caller)
                           ELSE [task EXCEPT !.todo = Tail(@), !.done = @ + 1]
                /\ UNCHANGED <<blog, node_vars>>

\* After a failure in the new branch, the blocks applied of it are popped.
revert_branch ==
    /\ task.op = "revert"
    /\ task.done > 0
    /\ IF PopFails # "none" THEN Halt(PopFails)
       ELSE /\ Pops
            /\ task' = [task EXCEPT !.done = @ - 1]
            /\ UNCHANGED <<fork_vars, blog, node_vars>>

\* The assertion that follows, and the start of the second loop. It reads the
\* oldest popped block: the case where there is none is revert_on_nothing.
reverted ==
    /\ task.op = "revert"
    /\ task.done = 0
    /\ task.undone # <<>>
    /\ task' = IF head # Prev[Head(task.undone)]
               THEN Halted("loss of sync between fork_db and chainbase during reversal")
               ELSE Task("reapply", task.undone, 0, <<>>, task.caller)
    /\ UNCHANGED <<fork_vars, chain_vars, node_vars>>

\* One of the blocks of the old branch, applied again without mark_valid.
reapply_branch ==
    /\ task.op = "reapply"
    /\ LET b == Head(task.todo)
       IN  IF ApplyFails(b) # "none" THEN Halt(ApplyFails(b))
           ELSE /\ Applies(b)
                /\ task' = IF Len(task.todo) = 1 THEN Thrown(task.caller)
                           ELSE [task EXCEPT !.todo = Tail(@)]
                /\ UNCHANGED <<fork_vars, blog, node_vars>>

-----------------------------------------------------------------------------
(* log_irreversible.                                                       *)

\* Its assertion, its early return, and the branch it fetches.
log_irreversible ==
    /\ task.op = "log"
    /\ LET tip == IF mode = "irreversible" THEN pending_head ELSE fork_head
           branch == Oldest({b \in fetch_branch(tip) : Num[b] <= Lib[tip]})
       IN  task' = IF root # LogHead
                   THEN Halted("fork database root does not match block log head")
                   ELSE IF Lib[tip] <= Num[LogHead] THEN Return(task.caller)
                   ELSE Task("append", branch, 0, <<>>, task.caller)
    /\ UNCHANGED <<fork_vars, chain_vars, node_vars>>

\* One turn of the loop. In irreversible mode this is where a block is applied;
\* a failure there ends the loop.
append_irreversible ==
    /\ task.op = "append"
    /\ LET b == Head(task.todo)
           applies == mode = "irreversible"
       IN  IF applies /\ Rejects(b)
           THEN /\ task' = Task("advance", <<b>>, 0, <<>>, task.caller)
                /\ UNCHANGED <<fork_vars, chain_vars, node_vars>>
           ELSE IF applies /\ ApplyFails(b) # "none" THEN Halt(ApplyFails(b))
           ELSE /\ IF applies /\ b \notin validated THEN mark_valid(b) ELSE UNCHANGED fork_vars
                /\ head' = IF applies THEN b ELSE head
                /\ stack' = Commit(IF applies THEN Append(stack, b) ELSE stack, LoggedRevision(b))
                /\ blog' = Append(blog, b)
                /\ rbi' = Trim(Num[b])
                /\ task' = IF Len(task.todo) = 1 THEN At("advance", task.caller)
                           ELSE [task EXCEPT !.todo = Tail(@)]
                /\ UNCHANGED node_vars

\* root_id # fork_db.root()->id: the loop has logged something.
MustAdvance == LogHead # root
Advance == advance_root(LogHead)

\* What follows the loop, and what its handler does before it throws again.
advance_after_log ==
    /\ task.op = "advance"
    /\ IF MustAdvance /\ (LogHead \notin validated \/ fork_head \in Orphaned(LogHead))
       THEN Halt("cannot advance root")
       ELSE /\ IF MustAdvance THEN Advance ELSE UNCHANGED fork_vars
            /\ task' = IF task.todo = <<>> THEN Return(task.caller) ELSE Thrown(task.caller)
            /\ UNCHANGED <<chain_vars, node_vars>>

-----------------------------------------------------------------------------
(* Stopping and starting.                                                  *)

\* A clean shutdown: everything is written out.
shutdown ==
    /\ task.op = "idle"
    /\ task' = Down
    /\ UNCHANGED <<fork_vars, chain_vars, node_vars>>

\* The fork database file was removed when it was read, and the chain state is
\* dirty and will not open again; recover_reversible_blocks saves the reversible
\* blocks up to the first that did not reach the disk.
LoseState(log) ==
    /\ task' = Down
    /\ stack' = <<>>
    /\ fork_file' = FALSE
    /\ reset(Genesis)
    /\ head' = Genesis
    /\ \E n \in {0} \cup {Num[b] : b \in rbi} : rbi' = {b \in rbi : Num[b] <= n}
    /\ blog' = log
    /\ UNCHANGED <<mode, bad>>

crash ==
    /\ task.op \notin {"down", "halted"}
    /\ LoseState(blog)

\* A crash in append_irreversible, when the block is in the log and not yet out of the
\* reversible blocks.
crash_logged ==
    /\ task.op = "append"
    /\ LET b == Head(task.todo)
       IN  /\ mode = "irreversible" => ~Rejects(b) /\ ApplyFails(b) = "none"
           /\ LoseState(Append(blog, b))

\* branches.second.back() on an empty branch reads through a null pointer.
revert_on_nothing ==
    /\ task.op = "revert"
    /\ task.done = 0
    /\ task.undone = <<>>
    /\ LoseState(blog)

\* --replay-blockchain: clear_chainbase_files leaves everything but the state.
replay_blockchain ==
    /\ task.op = "down"
    /\ stack # <<>>
    /\ stack' = <<>>
    /\ UNCHANGED <<fork_vars, head, rbi, blog, node_vars, task>>

\* A node that only follows irreversible blocks starts from the root.
RollsBack(m) == m = "irreversible" /\ fork_head # root

\* startup with a genesis state where the chain state is fresh, or from the
\* chain state there is: which head the node takes up.
startup(m) ==
    /\ task.op = "down"
    /\ mode' = m
    /\ fork_file' = TRUE
    /\ IF ~fork_file THEN reset(Genesis)
       ELSE IF RollsBack(m) THEN rollback_head_to_root
       ELSE UNCHANGED fork_vars
    /\ head' = IF stack = <<>> THEN Genesis ELSE fork_head'
    /\ stack' = IF stack = <<>> THEN <<Genesis>> ELSE stack
    /\ task' = At("init", "idle")
    /\ UNCHANGED <<rbi, blog, bad>>

\* The reversible blocks init keeps, and the number of the last block at hand.
Kept == IF mode = "irreversible" THEN {} ELSE Trim(Num[LogHead])
LastNum == IF Kept = {} THEN Num[LogHead] ELSE Max({Num[b] : b \in Kept})

\* The assertions of init (and the one of startup on the range of the log) that
\* refuse to start on inconsistent files.
Refused ==
    \/ Num[root] > Num[LogHead]
    \/ Revision < Num[head]
    \/ /\ mode # "irreversible"
       /\ \/ Num[head] > LastNum
          \/ /\ Kept # {}
             /\ \/ \A b \in Kept : Num[b] # Num[LogHead] + 1
                \/ /\ Num[LogHead] < Num[pending_head]
                   /\ Num[pending_head] <= LastNum
                   /\ pending_head \notin Kept
                \/ /\ LastNum < Num[pending_head]
                   /\ search_on_branch(pending_head, LastNum) # {b \in Kept : Num[b] = LastNum}

\* init up to the call of replay: undo what is ahead of the head, drop the
\* reversible blocks that are irreversible by now.
init ==
    /\ task.op = "init"
    /\ IF Refused
       THEN task' = Down /\ UNCHANGED chain_vars
       ELSE /\ stack' = SubSeq(stack, 1, Len(stack) - (Revision - Num[head]))
            /\ rbi' = Kept
            /\ task' = At(IF LastNum = Num[head] THEN "best"
                          ELSE IF Num[head] < Num[LogHead] THEN "replay_log"
                          ELSE "replay_rev", "idle")
            /\ UNCHANGED <<head, blog>>
    /\ UNCHANGED <<fork_vars, node_vars>>

\* replay, one irreversible block of the log: applied without an undo session.
replay_log ==
    /\ task.op = "replay_log"
    /\ head # LogHead
    /\ LET b == blog[Num[head] - Num[Head(blog)] + 2]
       IN  IF Prev[b] # head THEN task' = Down /\ UNCHANGED chain_vars
           ELSE /\ stack' = Append(Front(stack), b)
                /\ head' = b
                /\ UNCHANGED <<rbi, blog, task>>
    /\ UNCHANGED <<fork_vars, node_vars>>

\* The end of that loop, at the end of the log or where a shutdown is asked
\* for: the fork database is brought in line.
replay_log_end ==
    /\ task.op = "replay_log"
    /\ LET new_root == search_on_branch(pending_head, Num[head])
       IN  IF Num[pending_head] < Num[head] \/ Num[head] < Num[root]
           THEN reset(head)
           ELSE IF Num[head] = Num[root] THEN UNCHANGED fork_vars
           ELSE \E r \in new_root :
                    /\ index' = (index \ {r}) \ Orphaned(r)
                    /\ validated' = (validated \ {r}) \ Orphaned(r)
                    /\ fork_head' = HeadAfterMark(validated \cup {r}, fork_head)
                    /\ root' = r
    /\ task' = IF Len(stack) # 1 THEN Halted("cannot set revision with undo sessions")
               ELSE IF head = LogHead THEN At("replay_rev", "idle")
               ELSE Down
    /\ UNCHANGED <<chain_vars, node_vars>>

\* replay, one reversible block: replay_push_block up to maybe_switch_forks.
replay_reversible ==
    /\ task.op = "replay_rev"
    /\ LET next == {b \in rbi : Num[b] = Num[head] + 1}
       IN  IF next = {} THEN task' = At("best", "idle") /\ UNCHANGED fork_vars
           ELSE \E b \in next :
                IF Prev[b] # head \/ Prev[b] \notin Linkable
                THEN task' = Down /\ UNCHANGED fork_vars
                ELSE /\ IF b \in index THEN UNCHANGED fork_vars ELSE add(b)
                     /\ task' = Task("extend", <<b>>, 0, <<>>, "replay_rev")
    /\ UNCHANGED <<chain_vars, node_vars>>

\* The condition of init's last loop.
BetterBranch == pending_head # fork_head

\* The end of init: the best branch of a fork database that was used in
\* irreversible mode is applied, until there is no better one.
apply_best_branch ==
    /\ task.op \in {"best", "best_loop"}
    /\ task' = IF /\ mode # "irreversible"
                  /\ BetterBranch
                  /\ fork_head = root \/ task.op = "best_loop"
               THEN At("switch", "best_loop")
               ELSE Idle
    /\ UNCHANGED <<fork_vars, chain_vars, node_vars>>

-----------------------------------------------------------------------------
(* The node.                                                               *)

\* The steps of a call once it is under way.
Step ==
    \/ commit_block \/ maybe_switch_forks \/ pop_branch \/ extend_head \/ apply_branch
    \/ revert_branch \/ reverted \/ revert_on_nothing \/ reapply_branch
    \/ log_irreversible \/ append_irreversible \/ advance_after_log
    \/ init \/ replay_log \/ replay_log_end \/ replay_reversible \/ apply_best_branch

ControllerNext ==
    \/ \E b \in Block : push_block(b) \/ produce_block(b)
    \/ shutdown \/ crash \/ crash_logged \/ replay_blockchain
    \/ \E m \in {"speculative", "irreversible"} : startup(m)
    \/ Step

\* The main thread runs a call to its end.
ControllerSpec ==
    ControllerInit /\ [][ControllerNext]_controller_vars /\ WF_controller_vars(Step)

-----------------------------------------------------------------------------
(* Properties.                                                             *)

\* A sequence of blocks each of which builds on the one before.
IsChain(seq) == \A i \in 2 .. Len(seq) : seq[i] \in Received /\ Prev[seq[i]] = seq[i - 1]

\* Between calls the stores agree. The chain state is exactly the head's: one
\* undo session per reversible block of its branch, on top of the last block of
\* the log. The reversible block database holds the branch of the head above
\* the log and nothing else, so that the two together are enough to get back to
\* the head. The root of the fork database is the last block of the log, and in
\* irreversible mode it is the head. This is through every fork switch, failed
\* switch, replay and restart, and no assertion on the way ever fails.
StoresAgree ==
    /\ task.op # "halted"
    /\ task.op = "idle" =>
          /\ IsChain(stack) /\ Head(stack) = LogHead /\ Last(stack) = head
          /\ rbi = IF mode = "irreversible" THEN {}
                   ELSE {b \in Ancestry[head] : Num[b] > Num[LogHead]}
          /\ root = LogHead
          /\ mode = "irreversible" => head = root

\* The block log is a chain of valid blocks, and from the moment a start is
\* complete the head builds on its last block, in the middle of a fork switch
\* too: no switch goes below what is irreversible.
HeadBuildsOnLog ==
    /\ IsChain(blog)
    /\ \A i \in DOMAIN blog : blog[i] \notin bad
    /\ task.op \notin {"down", "init", "replay_log", "halted"} => LogHead \in Ancestry[head]

\* Between calls no block the node knows, validated or not, beats the head of a
\* node that follows reversible blocks.
HeadIsBestKnown ==
    task.op = "idle" /\ mode # "irreversible" => \A b \in index : ~first_preferred(b, head)

\* init and the replay of reversible blocks never refuse the files that this node
\* itself has left behind, whether by a shutdown, a crash or an interrupted
\* replay: short of another crash, a start goes through.
InitAccepts ==
    [][task.op \in {"init", "replay_rev"} /\ task'.op = "down" => stack' = <<>>]_controller_vars

\* A clean restart in the same mode takes up the head the node went down with.
RestartKeepsHead ==
    [][task.op = "down" /\ task'.op = "init" /\ mode' = mode /\ stack # <<>>
       => head' = head]_controller_vars

\* Every call comes to an end: no fork switch, reversal or replay loops.
CallsFinish == []<>(task.op \in {"idle", "down", "halted"})

\* Every step of the node is one call on the fork database, or none.
UsesForkDatabase == Spec

\* Between calls the block log, the reversible blocks, the undo sessions and the fork database
\* agree on the head and what it builds on, through every fork switch, failed switch, replay and
\* restart; the head never leaves the log; and no block the node knows beats it.
StoresSound == StoresAgree /\ HeadBuildsOnLog /\ HeadIsBestKnown

\* init never refuses the files this node itself has left behind, and a clean restart in the same
\* mode takes up the head the node went down with.
RestartSound == InitAccepts /\ RestartKeepsHead

\* Where the block before an invalid one ties with another block in both numbers, its id is the
\* greater one. When a switch fails, the block before the invalid one stays validated, and add
\* breaks ties by the id: without this the fork database may leave the node's head for it.
TiesSettled ==
    \A B \in BadSets : \A b \in B, c \in Block :
        /\ c # Prev[b]
        /\ Lib[c] = Lib[Prev[b]]
        /\ Num[c] = Num[Prev[b]]
        => Rank[c] < Rank[Prev[b]]

\* The reversal of a fork switch finds a block it popped: it reads the oldest
\* one to learn where the branches part.  The code does not keep this: see
\* revert_on_nothing.
ReversalHasBase == ~(task.op = "revert" /\ task.undone = <<>>)
=============================================================================
