------------------------ MODULE DuplicateConnections ------------------------
(***************************************************************************)
(* Two nodes that dial each other (connection in net_plugin.cpp). When a   *)
(* node receives the first handshake of a connection and already has one   *)
(* to the same node, it compares the times of their handshakes and may     *)
(* tell the peer that this one is a duplicate. Neither node then dials it  *)
(* again.                                                                  *)
(*                                                                         *)
(* Link l is the connection that node l dials. Each end of a link is a     *)
(* connection object with a strand; the strands of a node run in parallel. *)
(* The clocks of the nodes agree, and no two handshakes are sent at the    *)
(* same time.                                                              *)
(***************************************************************************)
EXTENDS Integers, Sequences

CONSTANTS
    Epoch,     \* the time at which it begins, greater than what passes after it
    MaxDials,  \* bound: how often a link is dialled
    MaxAgain   \* bound: handshakes that follow the first ones, sent by the sync manager

VARIABLES
    ends,     \* the two ends of every link
    d_strand, \* handlers posted to the strand of an end
    arriving, \* messages on their way to an end
    no_retry, \* the links that their node does not dial again
    now,      \* the clock
    dials,    \* how often a link was dialled
    again     \* handshakes sent again

dial_vars == <<ends, d_strand, arriving, no_retry, now, dials, again>>

Nodes == {1, 2}
Peer(n) == 3 - n
Ends == Nodes \X Nodes   \* <<n, l>>: the end of link l at node n

NewEnd == [open |-> FALSE, connecting |-> FALSE, sent |-> 0, count |-> 0, recv |-> 0]

Far(e) == <<Peer(e[1]), e[2]>>

Posted(e, task) == [d_strand EXCEPT ![e] = Append(@, task)]

Done(e) == [d_strand EXCEPT ![e] = Tail(@)]

\* A message to an end that is closed is lost.
Sent(e, msg) == IF ends[Far(e)].open THEN [arriving EXCEPT ![Far(e)] = Append(@, msg)] ELSE arriving

Due(e, task) == d_strand[e] # <<>> /\ Head(d_strand[e]) = task

\* The handler of a handshake is not interrupted on its own strand.
Arrived(e, t) ==
    /\ ends[e].open /\ arriving[e] # <<>> /\ Head(arriving[e]).t = t
    /\ ~Due(e, "accept")

-----------------------------------------------------------------------------
\* connection_monitor and resolve_and_connect at node l, start_listen_loop at its peer.
dial(l) ==
    LET near == <<l, l>>
    IN /\ l \notin no_retry /\ dials[l] < MaxDials
       /\ \A e \in {near, Far(near)} : ~ends[e].open /\ d_strand[e] = <<>>
       /\ ends' = [e \in Ends |-> IF e[2] = l THEN [NewEnd EXCEPT !.open = TRUE, !.connecting = TRUE] ELSE ends[e]]
       /\ arriving' = [e \in Ends |-> IF e[2] = l THEN <<>> ELSE arriving[e]]
       /\ d_strand' = Posted(near, "handshake")
       /\ dials' = [dials EXCEPT ![l] = @ + 1]
       /\ UNCHANGED <<no_retry, now, again>>

send_handshake(e) ==
    /\ Due(e, "handshake")
    /\ now' = now + 1
    /\ ends' = [ends EXCEPT ![e].sent = now + 1, ![e].count = @ + 1]
    /\ arriving' = Sent(e, [t |-> "handshake", time |-> now + 1, generation |-> ends[e].count + 1])
    /\ d_strand' = Done(e)
    /\ UNCHANGED <<no_retry, dials, again>>

\* Another connection of the node is known to be to the same peer once it has received a
\* handshake: only then does peer_name() carry the id of the peer.
SamePeer(e, check) ==
    check[1] = e[1] /\ check # e /\ ends[check].open /\ ~ends[check].connecting /\ ends[check].recv # 0

Duplicate(e, time) ==
    \E check \in Ends : SamePeer(e, check) /\ time + ends[e].sent > ends[check].sent + ends[check].recv

\* handle_message(handshake_message), up to the check for a duplicate
check_duplicate(e) ==
    /\ Arrived(e, "handshake")
    /\ ends' = [ends EXCEPT ![e].connecting = FALSE]
    /\ IF /\ Head(arriving[e]).generation = 1
          /\ e[1] # e[2] \/ ends[e].recv = 0
          /\ Duplicate(e, Head(arriving[e]).time)
       THEN /\ arriving' = [Sent(e, [t |-> "go_away"]) EXCEPT ![e] = Tail(@)]
            /\ no_retry' = no_retry \cup ({e[2]} \cap {e[1]})
            /\ UNCHANGED d_strand
       ELSE /\ d_strand' = [d_strand EXCEPT ![e] = <<"accept">> \o @]
            /\ UNCHANGED <<arriving, no_retry>>
    /\ UNCHANGED <<now, dials, again>>

\* and from there on
accept_handshake(e) ==
    /\ Due(e, "accept")
    /\ d_strand' = IF ends[e].count = 0 /\ Head(arriving[e]).generation = 1
                   THEN [d_strand EXCEPT ![e] = Append(Tail(@), "handshake")] ELSE Done(e)
    /\ ends' = [ends EXCEPT ![e].recv = Head(arriving[e]).time]
    /\ arriving' = [arriving EXCEPT ![e] = Tail(@)]
    /\ UNCHANGED <<no_retry, now, dials, again>>

\* The sync manager sends handshakes again when the node has caught up.
send_handshakes(e) ==
    /\ ends[e].open /\ ~ends[e].connecting /\ again < MaxAgain
    /\ again' = again + 1
    /\ d_strand' = Posted(e, "handshake")
    /\ UNCHANGED <<ends, arriving, no_retry, now, dials>>

\* handle_message(go_away_message)
handle_go_away(e) ==
    /\ Arrived(e, "go_away")
    /\ no_retry' = no_retry \cup ({e[2]} \cap {e[1]})
    /\ arriving' = [arriving EXCEPT ![e] = Tail(@)]
    /\ d_strand' = Posted(e, "close")
    /\ UNCHANGED <<ends, now, dials, again>>

\* The peer has closed the connection.
read_eof(e) ==
    /\ Arrived(e, "eof")
    /\ arriving' = [arriving EXCEPT ![e] = Tail(@)]
    /\ d_strand' = Posted(e, "close")
    /\ UNCHANGED <<ends, no_retry, now, dials, again>>

close(e) ==
    /\ Due(e, "close")
    /\ ends' = [ends EXCEPT ![e] = NewEnd]
    /\ arriving' = [Sent(e, [t |-> "eof"]) EXCEPT ![e] = <<>>]
    /\ d_strand' = Done(e)
    /\ UNCHANGED <<no_retry, now, dials, again>>

\* The connection breaks.
break(e) ==
    /\ ends[e].open /\ dials[e[2]] < MaxDials /\ d_strand[e] = <<>>
    /\ d_strand' = Posted(e, "close")
    /\ UNCHANGED <<ends, arriving, no_retry, now, dials, again>>

DialInit ==
    /\ ends = [e \in Ends |-> NewEnd] /\ d_strand = [e \in Ends |-> <<>>] /\ arriving = [e \in Ends |-> <<>>]
    /\ no_retry = {} /\ now = Epoch /\ dials = [l \in Nodes |-> 0] /\ again = 0

DialNext ==
    \/ \E l \in Nodes : dial(l)
    \/ \E e \in Ends : \/ send_handshake(e) \/ check_duplicate(e) \/ accept_handshake(e) \/ send_handshakes(e)
                       \/ handle_go_away(e) \/ read_eof(e) \/ close(e) \/ break(e)

DialSpec == DialInit /\ [][DialNext]_dial_vars

-----------------------------------------------------------------------------
(* Properties.                                                             *)

\* "We need to avoid the case where they would both tell a different connection to go
\* away" (handle_message(handshake_message)): of two nodes that dial each other, one
\* still dials.
OneSurvives == no_retry # Nodes
=============================================================================
