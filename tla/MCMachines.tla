------------------------------ MODULE MCMachines ------------------------------
(***************************************************************************)
(* Machines that are small enough to check.                                *)
(***************************************************************************)
EXTENDS MirArch

\* Two nodes, the first with two cpus.
arch_pair ==
    [num_nodes |-> 2, num_cores |-> 3, diameter |-> 1, llc_size_KB |-> 1,
     sys_cpu_of |-> [c \in 0 .. 2 |-> c],
     node_of |-> [c \in 0 .. 2 |-> IF c = 2 THEN 1 ELSE 0],
     cpus_of |-> [n \in 0 .. 1 |-> IF n = 0 THEN <<0, 1>> ELSE <<2>>],
     vicinity_of |-> [n \in 0 .. 1 |-> << <<1 - n>> >>],
     comm_cost_of |-> [from, to \in 0 .. 1 |-> 10 + 6 * Distance(from, to)]]

\* Three nodes of one cpu in a line: the ends are two hops apart.
arch_line ==
    [num_nodes |-> 3, num_cores |-> 3, diameter |-> 2, llc_size_KB |-> 1,
     sys_cpu_of |-> [c \in 0 .. 2 |-> c],
     node_of |-> [c \in 0 .. 2 |-> c],
     cpus_of |-> [n \in 0 .. 2 |-> <<n>>],
     vicinity_of |-> [n \in 0 .. 2 |->
        [d \in 1 .. 2 |-> Ascending({m \in 0 .. 2 : Distance(m, n) = d})]],
     comm_cost_of |-> [from, to \in 0 .. 2 |-> 10 + 6 * Distance(from, to)]]

SmallMachines == {arch_pair, arch_line}
ASSUME SmallTablesAgree == \A a \in SmallMachines : TablesAgree(a) /\ VicinityIsComplete(a)
=============================================================================
