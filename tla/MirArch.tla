------------------------------- MODULE MirArch -------------------------------
(***************************************************************************)
(* The architecture tables of arch/: which node a cpu belongs to, which    *)
(* cpus a node has, which nodes lie around a node at a hop distance, and   *)
(* what an access from one node to another costs.  Each is a record with   *)
(* the fields of struct mir_arch_t; a switch of the code is the function   *)
(* it computes.                                                            *)
(***************************************************************************)
EXTENDS Integers, Sequences, FiniteSets, SequencesExt

\* The nodes of S as neighbors[] lists them: in ascending order.
Ascending(S) == SetToSortSeq(S, <)
Nodes(a) == 0 .. a.num_nodes - 1
Cores(a) == 0 .. a.num_cores - 1
NoNeighbors(num_nodes, diameter) ==
    [n \in 0 .. num_nodes - 1 |-> [d \in 1 .. diameter |-> <<>>]]
-----------------------------------------------------------------------------
(* arch_gothmog: eight nodes of six cores, two nodes to a socket *)

node_of_gothmog == [c \in 0 .. 47 |-> c \div 6]
cpus_of_gothmog == [n \in 0 .. 7 |-> [i \in 1 .. 6 |-> 6 * n + i - 1]]

\* At distance 1 the other node of the socket, at 2 the nodes of the same parity,
\* at 3 those of the other.  `case 4` of distance 2 has no break: what it writes
\* is overwritten by `case 6`.
vicinity_of_gothmog ==
    LET SameParity(n) == {m \in 0 .. 7 : m % 2 = n % 2}
        labelled(n) == IF n = 4 THEN 6 ELSE n
    IN  [n \in 0 .. 7 |->
            << <<IF n % 2 = 0 THEN n + 1 ELSE n - 1>>,
               Ascending(SameParity(n) \ {labelled(n)}),
               Ascending((0 .. 7) \ SameParity(n)) >>]

\* Equal nodes, nodes of different parity, nodes of the same parity.
comm_cost_of_gothmog ==
    [from, to \in 0 .. 7 |->
        IF from = to THEN 10 ELSE IF from % 2 # to % 2 THEN 22 ELSE 16]

arch_gothmog ==
    [num_nodes |-> 8, num_cores |-> 48, diameter |-> 3, llc_size_KB |-> 5000,
     sys_cpu_of |-> [c \in 0 .. 47 |-> c],
     node_of |-> node_of_gothmog, cpus_of |-> cpus_of_gothmog,
     vicinity_of |-> vicinity_of_gothmog, comm_cost_of |-> comm_cost_of_gothmog]
-----------------------------------------------------------------------------
(* The machines of one node, and the one of one cpu per node *)

OneNode(cpus, llc) ==
    [num_nodes |-> 1, num_cores |-> Len(cpus), diameter |-> 0, llc_size_KB |-> llc,
     sys_cpu_of |-> [c \in 0 .. Len(cpus) - 1 |-> cpus[c + 1]],
     node_of |-> [c \in 0 .. Len(cpus) - 1 |-> 0],
     cpus_of |-> [n \in {0} |-> [i \in 1 .. Len(cpus) |-> i - 1]],
     vicinity_of |-> NoNeighbors(1, 0),
     comm_cost_of |-> [ends \in {0} \X {0} |-> 10]]

arch_firenze == OneNode(<<0, 2>>, 3072)
arch_adk == OneNode(<<0, 2, 3, 6>>, 4096)

\* What the generator writes for a machine that is none of these.
arch_this(num_cpus) == OneNode([i \in 1 .. num_cpus |-> i - 1], 1)

Distance(x, y) == IF x < y THEN y - x ELSE x - y

\* A grid of eight by eight; vicinity_of_tilepro64 finds no neighbours.
arch_tilepro64 ==
    LET tiles == 0 .. 63
        hops(m, n) == Distance(m \div 8, n \div 8) + Distance(m % 8, n % 8)
    IN  [num_nodes |-> 64, num_cores |-> 64, diameter |-> 14, llc_size_KB |-> 64,
         sys_cpu_of |-> [c \in tiles |-> c],
         node_of |-> [c \in tiles |-> c],
         cpus_of |-> [n \in tiles |-> <<n>>],
         vicinity_of |-> NoNeighbors(64, 14),
         comm_cost_of |-> [from, to \in tiles |->
                              IF from = to THEN 10 ELSE 38 + 2 * hops(from, to)]]

mir_arch_predef == {arch_firenze, arch_adk, arch_gothmog, arch_tilepro64}
-----------------------------------------------------------------------------
(* What the users of a table rely on *)

\* The fields have the types of struct mir_arch_t, over the nodes and cpus there are.
TableTypes(a) ==
    /\ a.num_nodes \in Nat \ {0} /\ a.num_cores \in Nat \ {0} /\ a.diameter \in Nat
    /\ a.node_of \in [Cores(a) -> Nodes(a)] /\ a.cpus_of \in [Nodes(a) -> Seq(Cores(a))]
    /\ a.vicinity_of \in [Nodes(a) -> [1 .. a.diameter -> Seq(Nodes(a))]]
    /\ a.comm_cost_of \in [Nodes(a) \X Nodes(a) -> Nat]

\* cpus_of lists the cpus that node_of puts on a node, every cpu has a system cpu
\* of its own, and no node is cheaper to reach than one's own.
TablesAgree(a) ==
    /\ \A n \in Nodes(a) : {c \in Cores(a) : a.node_of[c] = n} = ToSet(a.cpus_of[n])
    /\ \A c, e \in Cores(a) : a.sys_cpu_of[c] = a.sys_cpu_of[e] => c = e
    /\ \A m, n \in Nodes(a) : a.comm_cost_of[m, m] <= a.comm_cost_of[m, n]

ASSUME PredefinedTablesAgree ==
    \A a \in mir_arch_predef \cup {arch_this(n) : n \in 1 .. 8} : TableTypes(a) /\ TablesAgree(a)

\* diameter is the "largest hop distance between two nodes": the nodes around a
\* node up to that distance are all the other nodes.
Reachable(a, n) == UNION {ToSet(a.vicinity_of[n][d]) : d \in 1 .. a.diameter}
VicinityIsComplete(a) == \A n \in Nodes(a) : Nodes(a) \ {n} \subseteq Reachable(a, n)
=============================================================================
