---------------------------- MODULE MCProducing ----------------------------
(***************************************************************************)
(* Producing blocks, in two parts. "loop": the production loop of a node,  *)
(* with two producers of two slots each, one of which runs on this node.   *)
(* "dpos": what producers of a schedule make irreversible together, with   *)
(* four of whom three have to agree, with schedules that change, and with  *)
(* two whose nodes may crash; in one more scenario the schedule shrinks.   *)
(***************************************************************************)
EXTENDS ProductionLoop

CONSTANTS Parts, Scenarios

VARIABLES part, d_scenario, d_blocks, d_watermark, d_head, d_enabled, d_now, d_crashes

dpos_vars == <<d_scenario, d_blocks, d_watermark, d_head, d_enabled, d_now, d_crashes>>

Nodes == INSTANCE Dpos WITH
    Producer <- {"p1", "p2", "p3", "p4"}, Repetitions <- 1, MaxTracked <- 5, Modulus <- 64,
    scenario <- d_scenario, blocks <- d_blocks, watermark <- d_watermark, head <- d_head,
    enabled <- d_enabled, now <- d_now, crashes <- d_crashes

Scenario(first, proposals, warmup, last, back, crash_count) ==
    [first |-> first, proposals |-> proposals, warmup |-> warmup, last |-> last,
     back |-> back, crashes |-> crash_count]

MCScenarios ==
    {Scenario(<<"p1", "p2", "p3", "p4">>, {}, 4, 10, 20, 0),
     Scenario(<<"p1", "p2">>, {<<"p2", "p3">>, <<"p3", "p1">>}, 2, 12, 0, 0),
     Scenario(<<"p1", "p2">>, {}, 0, 7, 20, 1)}
MCShrink == {Scenario(<<"p1", "p2", "p3", "p4">>, {<<"p1", "p2">>}, 11, 18, 0, 0)}

MCSchedule == <<"p1", "p2">>
MCOwn == {"p2"}

-----------------------------------------------------------------------------
\* Of the part that does not run, the first state alone.
MCInit ==
    /\ part \in Parts
    /\ Init
    /\ \/ part = "dpos" /\ Nodes!Init /\ ~enabled
       \/ part = "loop" /\ d_scenario = 0 /\ d_blocks = 0 /\ d_watermark = 0 /\ d_head = 0
          /\ d_enabled = 0 /\ d_now = 0 /\ d_crashes = 0

MCNext ==
    \/ part = "loop" /\ Next /\ UNCHANGED <<part, dpos_vars>>
    \/ part = "dpos" /\ Nodes!Next /\ UNCHANGED <<part, vars>>

MCSpec == MCInit /\ [][MCNext]_<<part, vars, dpos_vars>>

-----------------------------------------------------------------------------
\* What is irreversible is agreed: while no node has crashed a producer confirms at most one
\* block of every number, on any one branch also after a crash, and two blocks never have
\* different blocks of one number as dpos_proposed_irreversible_blocknum.
ConfirmationsAgree ==
    part = "dpos" => Nodes!ConfirmsOnce /\ Nodes!BranchConfirmsOnce /\ Nodes!ProposedAgree

\* The assertions of next, _finish_next and commit_block never stop a producer that still has its
\* watermark: the block it is about to make is accepted, and preferred to its parent.
HonestGoesOn == part = "dpos" => Nodes!HonestAccepted /\ Nodes!ChildPreferred

\* commit_block, "committed block did not become the new head in fork database": a block is
\* preferred to its parent.
ChildPreferred == part = "dpos" => Nodes!ChildPreferred
=============================================================================
