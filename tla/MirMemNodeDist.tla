--------------------------- MODULE MirMemNodeDist ---------------------------
(***************************************************************************)
(* Memory node distributions of mir_mem_pol.c: how many bytes of a data    *)
(* footprint lie on each node, what it costs to access them from a node,   *)
(* and the statistics by which the numa policy judges them.  Operators     *)
(* over an architecture record `a` of MirArch and a distribution `dist`.   *)
(***************************************************************************)
EXTENDS MirArch

\* mir_mem_node_dist_create
EmptyDist(a) == [n \in Nodes(a) |-> 0]

\* mir_mem_node_dist_get_comm_cost
CommCost(a, dist, from) ==
    MapThenSumSet(LAMBDA n : dist[n] * a.comm_cost_of[from, n], Nodes(a))

\* mir_mem_node_dist_get_stat.  The mean is a quotient of integers, and the sum of
\* squares is assigned, not added to: the deviation is that of the last node.
Sum(a, dist) == MapThenSumSet(LAMBDA n : dist[n], Nodes(a))
Mean(a, dist) == Sum(a, dist) \div a.num_nodes
HasDeviation(a, dist) == dist[a.num_nodes - 1] # Mean(a, dist)

Credit(dist, n, bytes) == [dist EXCEPT ![n] = @ + bytes]

\* Offsets of the pages after the first in a range of sz > 0 bytes.
PagesAhead(sz, page) == [k \in 1 .. (sz - 1) \div page |-> k * page]

\* Bug variant: bytes are credited from the beginning of the range.
WalkFromStart(a, node_at, sz, page) ==
    LET visit(st, i) ==
            IF node_at[i] = st.node THEN st
            ELSE [dist |-> Credit(st.dist, st.node, i), node |-> node_at[i], ifrom |-> i]
        start == [dist |-> EmptyDist(a), node |-> node_at[0], ifrom |-> 0]
        end == FoldLeft(visit, start, PagesAhead(sz, page))
    IN  Credit(end.dist, end.node, sz - end.ifrom)

\* The walk of mir_mem_get_mem_node_dist over a range of sz > 0 bytes, a page at a
\* time: node_at[i] is the node that get_node_of finds i bytes into the range.
\* Bytes are credited when the node changes, and at the end.
Walk(a, node_at, sz, page) ==
    LET visit(st, i) ==
            IF node_at[i] = st.node THEN st
            ELSE [dist |-> Credit(st.dist, st.node, i - st.ifrom),
                  node |-> node_at[i], ifrom |-> i]
        start == [dist |-> EmptyDist(a), node |-> node_at[0], ifrom |-> 0]
        end == FoldLeft(visit, start, PagesAhead(sz, page))
    IN  Credit(end.dist, end.node, sz - end.ifrom)
=============================================================================
