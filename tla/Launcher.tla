------------------------------ MODULE Launcher ------------------------------
(***************************************************************************)
(* eosio-launcher: from the options to a network (hosts, instances, ports, *)
(* producers, peers), from the network to files in a staging directory,    *)
(* from there to the directories of the nodes and to processes, and, in a  *)
(* later run of the program, back to the processes through the files       *)
(* last_run.json and nodeos.pid.                                           *)
(*                                                                         *)
(* A node is a number, 0 is bios; a producer is its number, the shared     *)
(* ones are negative; a set of generated keys is the number of the run     *)
(* that generated it (an epoch).                                           *)
(***************************************************************************)
EXTENDS Integers, Sequences, FiniteSets, FiniteSetsExt, SequencesExt

CONSTANTS
    Commands,   \* invocations of the program, see MCServices
    Remote,     \* hosts reached with ssh; every other host is local
    MaxNodes,   \* node names
    MaxRuns     \* invocations in one behaviour

VARIABLES
    disk,       \* the files: stage, cfg, data, pid, start, setprods, last_run
    procs,      \* processes that run: [node, host, pid]
    top,        \* the invocation in progress
    runs,       \* invocations so far
    tidy        \* history: no node has been launched since last_run.json was written

vars == <<disk, procs, top, runs, tidy>>

Hosts  == {"local"} \cup Remote
Places == Hosts \X (0 .. MaxNodes)
BasePort == 9876

-----------------------------------------------------------------------------
(* The network, computed from the options alone. *)

Total(servers, Pred(_)) == FoldSeq(LAMBDA s, n : IF Pred(s) THEN s.instances + n ELSE n, 0, servers)

\* load_servers: the counts come from the file, which lists the bios node too.
load_servers(c) ==
    IF c.servers = << >> THEN [prod |-> c.pnodes + 1, total |-> c.nodes + 1, per_host |-> c.per_host]
    ELSE [prod |-> Total(c.servers, LAMBDA s : s.prod), total |-> Total(c.servers, LAMBDA s : TRUE),
          per_host |-> 1]

\* The node counts that the rest of the program works with, or a refusal.
adjust_counts(c, n) ==
    LET prod == IF n.prod > c.producers + 1 THEN c.producers ELSE n.prod
    IN  [ok       |-> prod > n.total \/ n.total >= prod + c.unstarted,
         prod     |-> prod,
         total    |-> IF prod > n.total THEN prod + c.unstarted ELSE n.total,
         per_host |-> n.per_host]

\* The servers of the file one after the other, producers first, then hosts made up one by one.
PseudoHost(k) == [host |-> "pseudo", number |-> k, instances |-> 1, has_bios |-> FALSE]

Servers(c, n) ==
    LET Named(prod) == LET those == SelectSeq(c.servers, LAMBDA s : s.prod = prod)
                       IN  [k \in DOMAIN those |-> [host |-> those[k].host, number |-> 0,
                                instances |-> those[k].instances, has_bios |-> those[k].has_bios]]
        named == Named(TRUE) \o Named(FALSE)
    IN  named \o [k \in 1 .. n.total |-> PseudoHost(Len(named) + k - 1)]

\* The first instance of a host is bios when the host has it; ports count up from the host's
\* base, bios has a port of its own below.
Instance(h, bios, name, port) ==
    [host |-> h.host, number |-> h.number, name |-> IF bios THEN 0 ELSE name,
     port |-> IF bios THEN BasePort - 100 ELSE BasePort + port]

RECURSIVE place_instances(_, _, _, _, _, _)
place_instances(hosts, left, used, port, name, placed) ==
    IF left = 0 THEN placed
    ELSE IF used = Head(hosts).instances THEN place_instances(Tail(hosts), left, 0, 0, name, placed)
    ELSE LET bios == used = 0 /\ Head(hosts).has_bios
             step == IF bios THEN 0 ELSE 1
         IN  place_instances(hosts, left - 1, used + 1, port + step, name + step,
                             Append(placed, Instance(Head(hosts), bios, name, port)))

define_network(c, n) ==
    LET all_here == <<[host |-> "local", number |-> 0, instances |-> n.total, has_bios |-> TRUE]>>
    IN  place_instances(IF n.per_host = 0 THEN all_here ELSE Servers(c, n), n.total, 0, 0, 1, << >>)

\* The remainder is handed out first come, first served.
spread_evenly(c, n) ==
    LET nodes == n.prod - 1
    IN  [i \in 0 .. n.total |-> IF i < nodes THEN c.producers \div nodes ELSE 0]

producers_of(c, n) ==
    LET nodes == n.prod - 1
    IN  [i \in 0 .. n.total |->
           IF i >= nodes THEN 0
           ELSE c.producers \div nodes + (IF i < c.producers % nodes THEN 1 ELSE 0)]

\* Every node with its producers, in the order of the instances.
bind_nodes(c, n, instances) ==
    LET count == producers_of(c, n)
        Before(k) == Cardinality({j \in 1 .. k - 1 : instances[j].name # 0})
        First(i) == FoldSet(LAMBDA j, s : s + count[j], 0, 0 .. i - 1)
    IN  [k \in DOMAIN instances |->
           LET i == Before(k)
               bios == instances[k].name = 0
           IN  [name |-> instances[k].name,
                producers |-> IF bios \/ i >= n.prod - 1 THEN {}
                              ELSE {First(i) + j : j \in 1 .. count[i]} \cup {-j : j \in 1 .. c.shared},
                dont_start |-> ~bios /\ i >= n.total - c.unstarted - 1]]

-----------------------------------------------------------------------------
(* Who connects to whom.  Positions count from 0 and skip the one that is bios. *)

start_ndx(al) == IF al[0] = 0 THEN 1 ELSE 0

RECURSIVE next_ndx(_, _)
next_ndx(al, ndx) ==
    IF ndx + 1 = Cardinality(DOMAIN al) THEN start_ndx(al)
    ELSE IF al[ndx + 1] = 0 THEN next_ndx(al, ndx + 1)
    ELSE ndx + 1

RECURSIVE skip_from(_, _, _, _)
skip_from(al, from, ndx, attempts) ==
    IF attempts > 0 /\ (al[ndx] = 0 \/ ndx = from) THEN skip_from(al, from, next_ndx(al, ndx), attempts - 1)
    ELSE ndx

skip_ndx(al, from, offset) ==
    LET total == Cardinality(DOMAIN al)
        ndx == (from + offset) % total
    IN  IF total > 2 THEN skip_from(al, from, ndx, total - 2) ELSE ndx

Positions(al) == {i \in DOMAIN al : al[i] # 0}
NoPeers == [x \in 0 .. MaxNodes |-> << >>]

make_ring(al) ==
    IF Cardinality(DOMAIN al) < 3 THEN NoPeers
    ELSE [x \in 0 .. MaxNodes |->
            IF x # 0 /\ \E i \in Positions(al) : al[i] = x
            THEN <<al[next_ndx(al, CHOOSE i \in Positions(al) : al[i] = x)]>> ELSE << >>]

\* An established connection is recorded in a set and looked for with count() < 2, which is
\* always so: nothing is left out.
make_mesh(al) ==
    [x \in 0 .. MaxNodes |->
       IF x # 0 /\ \E i \in Positions(al) : al[i] = x
       THEN LET i == CHOOSE i \in Positions(al) : al[i] = x
            IN  [j \in 1 .. Cardinality(DOMAIN al) - 2 |-> al[skip_ndx(al, i, j)]]
       ELSE << >>]

\* "peer" is a reference into the list of names, so moving on to another peer overwrites the
\* name at the position first tried.  When every name met is a peer already, the loop goes on
\* for ever: the positions repeat after one round.
RECURSIVE other_peer(_, _, _, _, _, _)
other_peer(al, mine, ref, ndx, i, rounds) ==
    IF \A k \in DOMAIN mine : mine[k] # al[ref] THEN [al |-> al, ndx |-> ndx, ok |-> TRUE]
    ELSE IF rounds = 0 THEN [al |-> al, ndx |-> ndx, ok |-> FALSE]
    ELSE LET n1 == next_ndx(al, ndx)
             n2 == IF n1 = i THEN next_ndx(al, n1) ELSE n1
         IN  other_peer([al EXCEPT ![ref] = al[n2]], mine, ref, n2, i, rounds - 1)

RECURSIVE star_links(_, _, _, _, _, _)
star_links(g, x, i, ndx, l, shape) ==
    IF l > shape.links \/ ~g.ok THEN g
    ELSE LET ref == skip_ndx(g.al, ndx, l * shape.gap)
             o == other_peer(g.al, g.peers[x], ref, ref, i, 2 * Cardinality(DOMAIN g.al))
         IN  star_links([al |-> o.al, ok |-> o.ok,
                         peers |-> IF o.ok THEN [g.peers EXCEPT ![x] = Append(@, o.al[ref])] ELSE g.peers],
                        x, i, o.ndx, l + 1, shape)

RECURSIVE star_nodes(_, _, _)
star_nodes(g, i, shape) ==
    IF ~g.ok THEN g
    ELSE LET done == star_links(g, g.al[i], i, i, 1, shape)
             after == next_ndx(done.al, i)
         IN  IF after <= i THEN done ELSE star_nodes(done, after, shape)

star_shape(count) ==
    LET links == IF count > 12 THEN Max({k \in 1 .. count : k * k <= count}) + 2 ELSE 3
        gap == IF count > 6 THEN 3 ELSE (count - links) \div 2 + 1
    IN  [links |-> links, gap |-> Min({g \in gap .. count + 1 : count % g # 0})]

make_star(al) ==
    LET count == Cardinality(DOMAIN al) - 1
    IN  IF count < 4 THEN [peers |-> make_ring(al), ok |-> TRUE]
        ELSE LET g == star_nodes([al |-> al, peers |-> NoPeers, ok |-> TRUE], start_ndx(al), star_shape(count))
             IN  [peers |-> g.peers, ok |-> g.ok]

make_peers(shape, al) ==
    CASE shape = "ring" -> [peers |-> make_ring(al), ok |-> TRUE]
      [] shape = "star" -> make_star(al)
      [] shape = "mesh" -> [peers |-> make_mesh(al), ok |-> TRUE]

Aliases(instances) == [i \in 0 .. Len(instances) - 1 |-> instances[i + 1].name]

NoNetwork == [instances |-> << >>, nodes |-> << >>, peers |-> NoPeers, ok |-> TRUE, bios |-> TRUE]
Network(c, n, instances) ==
    LET linked == make_peers(c.shape, Aliases(instances))
    IN  [instances |-> instances, nodes |-> bind_nodes(c, n, instances),
         peers |-> linked.peers, ok |-> linked.ok, bios |-> \E k \in DOMAIN instances : instances[k].name = 0]

-----------------------------------------------------------------------------
(* The program. *)

Idle == [at |-> "idle", cmd |-> [does |-> "none"], net |-> NoNetwork, left |-> << >>, launched |-> << >>]

\* exit(), wherever the program is: what has been done stays done.
Exit == top' = Idle

\* start_all: the instances of the selected hosts.
Selected(c, instances) ==
    SelectSeq(instances, LAMBDA e :
        CASE c.mode = "all"    -> TRUE
          [] c.mode = "local"  -> e.host \notin Remote
          [] c.mode = "remote" -> e.host \in Remote
          [] c.mode = "named"  -> e.name = c.name
          [] c.mode = "none"   -> FALSE)

\* What a run does after initialize, which looks at the options of every kind of run.
main_does(c, n, instances) ==
    CASE c.does = "launch" ->
           IF n.prod < 2 THEN Exit
           ELSE top' = [Idle EXCEPT !.at = "generate", !.cmd = c, !.net = Network(c, n, instances),
                                    !.left = Selected(c, instances)]
      [] c.does = "kill" -> top' = [Idle EXCEPT !.at = "kill", !.cmd = c, !.left = disk.last_run]
      [] c.does \in {"down", "bounce"} ->
           top' = [Idle EXCEPT !.at = "script", !.cmd = c, !.left = Selected(c, instances)]

main(c) ==
    /\ top.at = "idle" /\ runs < MaxRuns
    /\ runs' = runs + 1
    /\ LET n == adjust_counts(c, load_servers(c))
       IN  IF n.ok THEN main_does(c, n, define_network(c, n)) ELSE Exit
    /\ UNCHANGED <<disk, procs, tidy>>

\* The topology loop may not end; the run is then interrupted by hand.  The files are written
\* one after the other: the schedule, the boot script (which needs a bios node), and the
\* configuration of every node in the staging directory.
generate ==
    /\ top.at = "generate"
    /\ LET written == top.net.ok /\ ~top.cmd.nogen
           staged == {top.net.nodes[k].name : k \in DOMAIN top.net.nodes}
       IN  /\ disk' = IF ~written THEN disk
                      ELSE [disk EXCEPT !.setprods = runs,
                                !.stage = IF top.net.bios
                                          THEN [x \in 0 .. MaxNodes |-> IF x \in staged THEN runs ELSE @[x]]
                                          ELSE @]
           /\ IF ~top.net.ok \/ (written /\ ~top.net.bios) THEN Exit ELSE top' = [top EXCEPT !.at = "launch"]
    /\ UNCHANGED <<procs, runs, tidy>>

\* deploy_config_files on this machine: what is there already needs --force.
deploy_allowed(e, force) ==
    LET p == <<e.host, e.name>>
    IN  force \/ (disk.cfg[p] = 0 /\ disk.data[p] = "none")

\* prep_remote_config_dir: the data directory itself must not be there, whatever is in it.
prep_remote_allowed(e, force) == force \/ ~disk.dir[<<e.host, e.name>>]

Place(e) == <<e.host, e.name>>

\* The node's directories after a successful deployment; its blocks and state are gone.
Deployed(d, e) ==
    [d EXCEPT !.cfg[Place(e)] = d.stage[e.name], !.data[Place(e)] = "none", !.dir[Place(e)] = TRUE]

\* What is left when the copying fails for want of a staged file.
Cleared(d, e) == [d EXCEPT !.data[Place(e)] = "none", !.dir[Place(e)] = TRUE]

DontStart(e) == \E k \in DOMAIN top.net.nodes : top.net.nodes[k].name = e.name /\ top.net.nodes[k].dont_start

\* A process identifier is never used twice here.
NewPid == runs * (MaxNodes + 1) + Len(top.launched) + 1

\* node_rt_info, with the process identifier (history) that the file does not have.
Entry(e, started) ==
    [host |-> e.host, name |-> e.name, remote |-> e.host \in Remote, started |-> started, pid |-> NewPid]

\* A node that finds another process on its data directory ends at once.
Spawn(e) ==
    procs \cup (IF \E q \in procs : q.host = e.host /\ q.node = e.name THEN {}
                ELSE {[host |-> e.host, node |-> e.name, pid |-> NewPid]})

\* launch of the next instance; "reached" says whether ssh to a remote host works.
launch(reached) ==
    /\ top.at = "launch" /\ top.left # << >>
    /\ LET e == Head(top.left)
           remote == e.host \in Remote
           allowed == IF remote THEN prep_remote_allowed(e, top.cmd.force) ELSE deploy_allowed(e, top.cmd.force)
           staged == disk.stage[e.name] # 0
           d == Deployed(disk, e)
           Goes(started) == top' = [top EXCEPT !.left = Tail(@), !.launched = Append(@, Entry(e, started))]
       IN  \/ /\ ~allowed \/ (remote /\ ~reached)
              /\ Exit /\ UNCHANGED <<disk, procs>>
           \/ /\ allowed /\ (remote => reached) /\ (~staged \/ (remote /\ DontStart(e)))
              /\ disk' = IF staged THEN d ELSE Cleared(disk, e)
              /\ Exit /\ UNCHANGED procs
           \/ /\ allowed /\ (remote => reached) /\ staged /\ ~DontStart(e)
              /\ disk' = [d EXCEPT !.pid[Place(e)] = NewPid, !.start[e.name] = FALSE]
              /\ procs' = Spawn(e)
              /\ Goes(TRUE)
           \/ /\ allowed /\ ~remote /\ staged /\ DontStart(e)
              /\ disk' = [d EXCEPT !.start[e.name] = TRUE]
              /\ Goes(FALSE) /\ UNCHANGED procs
    /\ tidy' = FALSE
    /\ UNCHANGED runs

\* last_run.json holds what this run launched, whatever an earlier run launched.
save_last_run ==
    /\ top.at = "launch" /\ top.left = << >>
    /\ disk' = IF top.cmd.mode = "none" THEN disk ELSE [disk EXCEPT !.last_run = top.launched]
    /\ tidy' = (top.cmd.mode # "none" \/ tidy)
    /\ Exit /\ UNCHANGED <<procs, runs>>

\* Ctrl-C, or a lost terminal, between two steps.
interrupted == top.at \in {"launch", "kill", "script"} /\ Exit /\ UNCHANGED <<disk, procs, runs, tidy>>

Ends(host, pid) == procs' = {q \in procs : ~(q.host = host /\ q.pid = pid)}

\* The process named in the node's pid file, now, is killed; an entry of a node that was not
\* started has nothing to run, and what fails is reported and passed over.
kill ==
    /\ top.at = "kill"
    /\ IF top.left = << >> THEN Exit /\ UNCHANGED procs
       ELSE LET e == Head(top.left)
                due == CASE top.cmd.mode = "all" -> TRUE
                         [] top.cmd.mode = "remote" -> e.remote
                         [] top.cmd.mode = "local" -> ~e.remote
                         [] OTHER -> FALSE
            IN  /\ top' = [top EXCEPT !.left = Tail(@)]
                /\ IF due /\ e.started THEN Ends(e.host, disk.pid[Place(e)]) ELSE UNCHANGED procs
    /\ UNCHANGED <<disk, runs, tidy>>

\* down and bounce: a script for every node, which for bios looks for a directory that no node
\* has.  A restarted node gets a new pid file.
do_command ==
    /\ top.at = "script"
    /\ IF top.left = << >> THEN Exit /\ UNCHANGED <<disk, procs>>
       ELSE LET e == Head(top.left)
                down == {q \in procs : ~(q.host = e.host /\ q.pid = disk.pid[Place(e)])}
                again == [host |-> e.host, node |-> e.name, pid |-> NewPid]
                up == top.cmd.does = "bounce" /\ disk.cfg[Place(e)] # 0
                      /\ ~\E q \in down : q.host = e.host /\ q.node = e.name
            IN  /\ top' = [top EXCEPT !.left = Tail(@), !.launched = Append(@, Entry(e, TRUE))]
                /\ IF e.name = 0 THEN UNCHANGED <<disk, procs>>
                   ELSE /\ procs' = down \cup (IF up THEN {again} ELSE {})
                        /\ disk' = IF up THEN [disk EXCEPT !.pid[Place(e)] = NewPid] ELSE disk
    /\ UNCHANGED <<runs, tidy>>

\* A node makes blocks with the keys of the configuration it started from.
NodeRuns(q) ==
    /\ disk.data[<<q.host, q.node>>] = "none"
    /\ disk' = [disk EXCEPT !.data[<<q.host, q.node>>] = "blocks"]
    /\ UNCHANGED <<procs, top, runs, tidy>>

Init ==
    /\ disk = [stage |-> [x \in 0 .. MaxNodes |-> 0], cfg |-> [p \in Places |-> 0],
               data |-> [p \in Places |-> "none"], dir |-> [p \in Places |-> FALSE],
               pid |-> [p \in Places |-> 0], start |-> [x \in 0 .. MaxNodes |-> FALSE],
               setprods |-> 0, last_run |-> << >>]
    /\ procs = {}
    /\ top = Idle
    /\ runs = 0
    /\ tidy = TRUE

Next ==
    \/ \E c \in Commands : main(c)
    \/ generate
    \/ \E reached \in BOOLEAN : launch(reached)
    \/ save_last_run
    \/ interrupted
    \/ kill
    \/ do_command
    \/ \E q \in procs : NodeRuns(q)

Spec == Init /\ [][Next]_vars

-----------------------------------------------------------------------------
Here == top.at \in {"generate", "launch"}
Nodes == {top.net.nodes[k] : k \in DOMAIN top.net.nodes}
Mine(x) == {p \in x.producers : p > 0}

\* Every producer asked for is on exactly one node, whatever the numbers of nodes, producers and
\* unstarted nodes: two nodes with one producer's name would sign two blocks for one slot, and
\* one on no node leaves its slots empty.
ProducersPlaced ==
    Here => /\ \A x, y \in Nodes : x # y => Mine(x) \cap Mine(y) = {}
            /\ UNION {Mine(x) : x \in Nodes} = 1 .. top.cmd.producers

\* No two instances of a host have one name or one port.
EndpointsDistinct ==
    LET on == top.net.instances
    IN  \A j, k \in DOMAIN on :
           j # k => /\ on[j].name # on[k].name
                    /\ on[j].host = on[k].host /\ on[j].number = on[k].number => on[j].port # on[k].port

Linked(x, y) == \/ \E k \in DOMAIN top.net.peers[x] : top.net.peers[x][k] = y
                \/ \E k \in DOMAIN top.net.peers[y] : top.net.peers[y][k] = x
Others == {x.name : x \in Nodes} \ {0}

RECURSIVE Reached(_)
Reached(S) == LET more == S \cup {y \in Others : \E x \in S : Linked(x, y)}
              IN  IF more = S THEN S ELSE Reached(more)

\* The nodes form one network without the bios node, which goes away once the chain is started.
\* In a ring or a mesh no node is its own peer, and in a mesh any two nodes have a connection,
\* though going round the bios node makes some nodes list a peer twice and another not at all.
\* The star's loop overwrites the names it walks over, so that a node may list itself, the loop
\* may not end (6 nodes), and with 11 nodes the network falls apart: of a star this is claimed
\* below that number, when the loop ends.
NetworkWhole ==
    Here /\ top.net.ok /\ (top.cmd.shape = "star" => Cardinality(Others) < 11) =>
        /\ \A x \in Others : Reached({x}) = Others
        /\ top.cmd.shape # "star" => \A x \in Others : ~Linked(x, x)
        /\ top.cmd.shape = "mesh" => \A x, y \in Others : x # y => Linked(x, y)

\* A run that generates keys deploys these keys and no others: the schedule it wrote, which the
\* boot script will install, is one the launched nodes can sign for.
KeysAgree ==
    top.at = "launch" /\ ~top.cmd.nogen =>
        \A k \in DOMAIN top.launched : LET e == top.launched[k] IN disk.cfg[Place(e)] = disk.setprods

\* --kill, run to its end, has ended every process that the last launch, or a bounce after it,
\* started, also when other nodes of that launch could not be killed or had not been started.
\* It works from last_run.json, which a launch writes when it is done: of nodes launched since,
\* by a run that was interrupted or that saves nothing, it knows nothing, and "tidy" leaves them out.
LastLaunchEnds ==
    top.at = "kill" /\ top.left = << >> /\ top.cmd.mode = "all" /\ tidy =>
        \A k \in DOMAIN disk.last_run : LET e == disk.last_run[k] IN
            ~\E q \in procs : q.host = e.host /\ q.node = e.name /\ q.pid >= e.pid

LauncherSound == ProducersPlaced /\ EndpointsDistinct /\ NetworkWhole /\ KeysAgree /\ LastLaunchEnds

\* "The launcher retrieves the previously started process ids and issues a kill to each."
\* The code does not keep this: see LastLaunchEnds.
KilledEach == top.at = "kill" /\ top.left = << >> /\ top.cmd.mode = "all" => procs = {}

\* "use to prevent duplicates since all connections are bidirectional": of two nodes of a mesh,
\* at most one lists the other.  The code does not keep this: a set never counts 2 of a name.
ConnectedOnce ==
    Here /\ top.cmd.shape = "mesh" => \A x \in Others : \A k \in DOMAIN top.net.peers[x] :
        \A j \in DOMAIN top.net.peers[top.net.peers[x][k]] : top.net.peers[top.net.peers[x][k]][j] # x
=============================================================================
