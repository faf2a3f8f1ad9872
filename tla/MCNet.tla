------------------------------- MODULE MCNet -------------------------------
(***************************************************************************)
(* Three parts of the net plugin, one at a time: catching up with peers,   *)
(* writing to a connection, and passing on blocks and transactions. A      *)
(* behaviour takes steps of the part that its initial state picks.         *)
(***************************************************************************)
EXTENDS SyncManager, WriteQueue

CONSTANTS
    Topologies, Transactions, Chain, Irreversible, MaxItems

VARIABLES
    part,
    links, m_head, has_txn, blk_state, local_txns, receiving, main, dispatcher, sending, pool, link

Mesh == INSTANCE Dispatch

\* One peer has a block more than the other.
MCPeerHeads == {<<MaxBlock - 1, MaxBlock>>}

\* Node 2 passes on what node 1 has to node 3; or all three are connected.
MCLine == {<<1, 2>>, <<2, 1>>, <<2, 3>>, <<3, 2>>}
MCRing == MCLine \cup {<<1, 3>>, <<3, 1>>}
MCTopologies == {MCLine, MCRing}
MCMaxItems == [t \in MCTopologies |-> IF t = MCLine THEN 2 ELSE 1]

mesh_vars == <<links, m_head, has_txn, blk_state, local_txns, receiving, main, dispatcher, sending, pool, link>>

Init ==
    /\ part \in {"sync", "write", "mesh"}
    /\ SyncInit /\ WriteInit /\ Mesh!MeshInit
    /\ part # "mesh" => links = MCLine

Next ==
    \/ part = "sync" /\ SyncNext /\ UNCHANGED <<part, write_vars, mesh_vars>>
    \/ part = "write" /\ WriteNext /\ UNCHANGED <<part, svars, mesh_vars>>
    \/ part = "mesh" /\ Mesh!MeshNext /\ UNCHANGED <<part, svars, write_vars>>

\* The fairness of SyncManager, where it was picked.
Fairness == WF_svars(part = "sync" /\ NodeStep)

Spec == Init /\ [][Next]_<<part, svars, write_vars, mesh_vars>> /\ Fairness

-----------------------------------------------------------------------------
\* A node gets every block that is irreversible for a peer, unless accept_block drops one
\* while it produces: the sync manager never waits for what no one will send.
NodeCatchesUp == part = "sync" => CatchesUp

\* What node 1 has, every node gets: when all is done, bcast_block and bcast_transaction have kept
\* from no peer what it does not have.
Reaches == Mesh!Reaches
=============================================================================
