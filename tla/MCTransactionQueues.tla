------------------------- MODULE MCTransactionQueues -------------------------
(***************************************************************************)
(* TransactionQueues with two transactions of one account, one of which    *)
(* may be sent twice, once to be persisted.                                *)
(***************************************************************************)
EXTENDS TransactionQueues

MCTrx == {"t1", "t2"}
MCRequest == {"r1", "r2", "r3"}
MCTrxOf == [r1 |-> "t1", r2 |-> "t2", r3 |-> "t2"]
MCPersist == [r1 |-> FALSE, r2 |-> TRUE, r3 |-> FALSE]
MCAccountOf == [t \in MCTrx |-> "a"]
MCExpiry == [t1 |-> 2, t2 |-> 3]
MCBills == {0, 1}

=============================================================================
