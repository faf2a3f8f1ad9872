------------------------------ MODULE Dispatch ------------------------------
(***************************************************************************)
(* How blocks and transactions spread over a mesh of nodes in sync: the    *)
(* dispatch manager of the net plugin (plugins/net_plugin/net_plugin.cpp)  *)
(* and the handlers around it. Every node remembers which peer has what,   *)
(* and consults it on different threads: the strands of its connections,   *)
(* the strand of the dispatcher, the pool and the main thread.             *)
(***************************************************************************)
EXTENDS Integers, Sequences, FiniteSets, FiniteSetsExt

CONSTANTS
    Topologies,   \* graphs of connections, each a set of pairs with both directions
    Transactions, \* transactions that a client may send to node 1
    Chain,        \* how many blocks node 1 may produce
    Irreversible, \* distance between the head and the last irreversible block
    MaxItems      \* bound, for each graph: blocks and transactions that come to node 1

VARIABLES
    links,       \* the connections
    m_head,      \* the head of every node
    has_txn,     \* the transactions that a node has executed
    blk_state,   \* <<block, peer>> of every node
    local_txns,  \* <<transaction, peer>> of every node
    receiving,   \* a transaction between have_txn and add_peer_txn
    main,        \* blocks and transactions posted to the main thread
    dispatcher,  \* tasks of the strand of the dispatcher
    sending,     \* tasks of the strands of the connections
    pool,        \* add_peer_block posted to the thread pool
    link         \* messages on their way

mesh_vars == <<links, m_head, has_txn, blk_state, local_txns, receiving, main, dispatcher, sending, pool, link>>

Mesh == {p[1] : p \in UNION Topologies}
Pairs == UNION Topologies
PeersOf(n) == {m \in Mesh : <<n, m>> \in links}
Idle == [t |-> "none"]
Txn(t) == [t |-> "trx", id |-> t]
Blk(b) == [t |-> "block", id |-> b]
Items == {Txn(t) : t \in Transactions} \cup {Blk(b) : b \in 1 .. Chain}

Has(n, i) == IF i.t = "trx" THEN i.id \in has_txn[n] ELSE i.id <= m_head[n]

have_block(n, b) == \E e \in blk_state[n] : e[1] = b

have_txn(n, t) == \E e \in local_txns[n] : e[1] = t

-----------------------------------------------------------------------------
MoreItems == Cardinality(has_txn[1]) + m_head[1] < MaxItems[links]

\* A block is accepted on the main thread: the signal accepted_block posts to the dispatcher.
produce(n) ==
    /\ n = 1 /\ m_head[n] < Chain /\ MoreItems
    /\ m_head' = [m_head EXCEPT ![n] = @ + 1]
    /\ dispatcher' = [dispatcher EXCEPT ![n] = Append(@, Blk(m_head[n] + 1))]
    /\ UNCHANGED <<has_txn, blk_state, local_txns, receiving, main, sending, pool, link>>

Ack(t, n) == [t |-> "ack", id |-> t, to |-> PeersOf(n)]

\* A client sends a transaction, and it is executed.
submit(n, t) ==
    /\ n = 1 /\ t \notin has_txn[n] /\ MoreItems
    /\ has_txn' = [has_txn EXCEPT ![n] = @ \cup {t}]
    /\ dispatcher' = [dispatcher EXCEPT ![n] = Append(@, Ack(t, n))]
    /\ UNCHANGED <<m_head, blk_state, local_txns, receiving, main, sending, pool, link>>

Incoming(n, p, t) == link[<<p, n>>] # <<>> /\ Head(link[<<p, n>>]).t = t /\ receiving[<<n, p>>] = Idle

\* handle_message(packed_transaction) looks the transaction up, and then adds it.
handle_transaction(n, p) ==
    /\ Incoming(n, p, "trx")
    /\ LET t == Head(link[<<p, n>>]).id
       IN receiving' = [receiving EXCEPT ![<<n, p>>] = [t |-> "trx", id |-> t, have |-> have_txn(n, t)]]
    /\ link' = [link EXCEPT ![<<p, n>>] = Tail(@)]
    /\ UNCHANGED <<m_head, has_txn, blk_state, local_txns, main, dispatcher, sending, pool>>

add_peer_txn(n, p) ==
    /\ receiving[<<n, p>>] # Idle
    /\ LET r == receiving[<<n, p>>]
       IN /\ local_txns' = [local_txns EXCEPT ![n] = @ \cup {<<r.id, p>>}]
          /\ main' = IF r.have THEN main ELSE [main EXCEPT ![n] = Append(@, [item |-> Txn(r.id), from |-> p])]
    /\ receiving' = [receiving EXCEPT ![<<n, p>>] = Idle]
    /\ UNCHANGED <<m_head, has_txn, blk_state, dispatcher, sending, pool, link>>

\* process_next_message drops a block that the dispatcher knows.
handle_block(n, p) ==
    /\ Incoming(n, p, "block")
    /\ LET b == Head(link[<<p, n>>])
       IN main' = IF have_block(n, b.id) THEN main ELSE [main EXCEPT ![n] = Append(@, [item |-> b, from |-> p])]
    /\ link' = [link EXCEPT ![<<p, n>>] = Tail(@)]
    /\ UNCHANGED <<m_head, has_txn, blk_state, local_txns, receiving, dispatcher, sending, pool>>

OnMain(n, t) == main[n] # <<>> /\ Head(main[n]).item.t = t

\* accept_transaction; one that was executed before is rejected as a duplicate
accept_transaction(n) ==
    /\ OnMain(n, "trx")
    /\ LET t == Head(main[n]).item.id
       IN IF t \in has_txn[n] THEN UNCHANGED <<has_txn, dispatcher>>
          ELSE /\ has_txn' = [has_txn EXCEPT ![n] = @ \cup {t}]
               /\ dispatcher' = [dispatcher EXCEPT ![n] = Append(@, Ack(t, n))]
    /\ main' = [main EXCEPT ![n] = Tail(@)]
    /\ UNCHANGED <<m_head, blk_state, local_txns, receiving, sending, pool, link>>

\* process_signed_block. For a block that is accepted, the signal posts the broadcast, and
\* the handler then posts that the sender has the block. One that does not link is left to the
\* sync manager.
process_signed_block(n) ==
    /\ OnMain(n, "block")
    /\ LET b == Head(main[n]).item.id
           p == Head(main[n]).from
           known == b <= m_head[n]
           accepted == b = m_head[n] + 1
       IN /\ sending' = IF known THEN [sending EXCEPT ![<<n, p>>] = Append(@, [t |-> "add", id |-> b])] ELSE sending
          /\ m_head' = IF accepted THEN [m_head EXCEPT ![n] = b] ELSE m_head
          /\ dispatcher' = IF accepted THEN [dispatcher EXCEPT ![n] = Append(@, Blk(b))] ELSE dispatcher
          /\ pool' = IF accepted THEN [pool EXCEPT ![n] = @ \cup {<<b, p>>}] ELSE pool
    /\ main' = [main EXCEPT ![n] = Tail(@)]
    /\ UNCHANGED <<has_txn, blk_state, local_txns, receiving, link>>

\* The pool runs add_peer_block at any time.
add_peer_block(n) ==
    /\ \E e \in pool[n] :
          /\ blk_state' = [blk_state EXCEPT ![n] = @ \cup {e}]
          /\ pool' = [pool EXCEPT ![n] = @ \ {e}]
    /\ UNCHANGED <<m_head, has_txn, local_txns, receiving, main, dispatcher, sending, link>>

\* bcast_transaction, one connection after the other
bcast_transaction(n) ==
    /\ dispatcher[n] # <<>> /\ Head(dispatcher[n]).t = "ack"
    /\ LET task == Head(dispatcher[n])
           p == Min(task.to)
           rest == task.to \ {p}
       IN /\ dispatcher' = [dispatcher EXCEPT ![n] =
                               IF rest = {} THEN Tail(@) ELSE <<[task EXCEPT !.to = rest]>> \o Tail(@)]
          /\ local_txns' = [local_txns EXCEPT ![n] = @ \cup {<<task.id, p>>}]
          /\ sending' = IF <<task.id, p>> \in local_txns[n] THEN sending
                        ELSE [sending EXCEPT ![<<n, p>>] = Append(@, Txn(task.id))]
    /\ UNCHANGED <<m_head, has_txn, blk_state, receiving, main, pool, link>>

bcast_block(n) ==
    /\ dispatcher[n] # <<>> /\ Head(dispatcher[n]).t = "block"
    /\ dispatcher' = [dispatcher EXCEPT ![n] = Tail(@)]
    /\ sending' = [p \in Pairs |-> IF p \in links /\ p[1] = n THEN Append(sending[p], Head(dispatcher[n])) ELSE sending[p]]
    /\ UNCHANGED <<m_head, has_txn, blk_state, local_txns, receiving, main, pool, link>>

\* Mutation: some peer has the block.
KnownToSome(n, p, task) == task.t = "block" /\ have_block(n, task.id)

\* What the strand of a connection does: a transaction is sent, a block only if
\* add_peer_block finds that the peer does not have it.
Known(n, p, task) == task.t = "block" /\ <<task.id, p>> \in blk_state[n]

enqueue_buffer(n, p) ==
    /\ sending[<<n, p>>] # <<>>
    /\ LET task == Head(sending[<<n, p>>])
       IN /\ blk_state' = IF task.t = "trx" THEN blk_state ELSE [blk_state EXCEPT ![n] = @ \cup {<<task.id, p>>}]
          /\ IF task.t = "add" \/ Known(n, p, task) THEN UNCHANGED link
             ELSE link' = [link EXCEPT ![<<n, p>>] = Append(@, task)]
    /\ sending' = [sending EXCEPT ![<<n, p>>] = Tail(@)]
    /\ UNCHANGED <<m_head, has_txn, local_txns, receiving, main, dispatcher, pool>>

expire_blocks(n) ==
    /\ \E e \in blk_state[n] : e[1] <= m_head[n] - Irreversible
    /\ blk_state' = [blk_state EXCEPT ![n] = {e \in @ : e[1] > m_head[n] - Irreversible}]
    /\ UNCHANGED <<m_head, has_txn, local_txns, receiving, main, dispatcher, sending, pool, link>>

MeshInit ==
    /\ links \in Topologies
    /\ m_head = [n \in Mesh |-> 0] /\ has_txn = [n \in Mesh |-> {}]
    /\ blk_state = [n \in Mesh |-> {}] /\ local_txns = [n \in Mesh |-> {}] /\ pool = [n \in Mesh |-> {}]
    /\ receiving = [p \in Pairs |-> Idle]
    /\ main = [n \in Mesh |-> <<>>] /\ dispatcher = [n \in Mesh |-> <<>>]
    /\ sending = [p \in Pairs |-> <<>>] /\ link = [p \in Pairs |-> <<>>]

MeshStep(n) ==
    /\ UNCHANGED links
    /\ \/ produce(n) \/ (\E t \in Transactions : submit(n, t))
       \/ accept_transaction(n) \/ process_signed_block(n) \/ add_peer_block(n)
       \/ bcast_transaction(n) \/ bcast_block(n)
       \/ \E p \in PeersOf(n) : \/ handle_transaction(n, p) \/ add_peer_txn(n, p) \/ handle_block(n, p)
                              \/ enqueue_buffer(n, p)

MeshNext == \E n \in Mesh : MeshStep(n) \/ (expire_blocks(n) /\ UNCHANGED links)

MeshSpec == MeshInit /\ [][MeshNext]_mesh_vars

-----------------------------------------------------------------------------
(* Properties.                                                             *)

\* Nothing is on its way and no handler is left to run.
Settled ==
    /\ \A n \in Mesh : main[n] = <<>> /\ dispatcher[n] = <<>> /\ pool[n] = {}
    /\ \A p \in Pairs : receiving[p] = Idle /\ sending[p] = <<>> /\ link[p] = <<>>

\* What node 1 has, every node gets: when all is done, no table of peers has kept from a node
\* a block or a transaction that it does not have (bcast_block, bcast_transaction).
Reaches == Settled => \A i \in Items, n \in Mesh : Has(1, i) => Has(n, i)
=============================================================================
