----------------------------- MODULE MCSchedPol -----------------------------
(***************************************************************************)
(* Setups of workers on machines for MirSchedPol.                          *)
(***************************************************************************)
EXTENDS MirSchedPol, MCMachines

Setup(policy, machine, cpus, capacity, tasks) ==
    [pol |-> policy, arch |-> machine, worker_cpu_map |-> cpus,
     queue_capacity |-> capacity, max_tasks |-> tasks]
SmallSetups ==
    {Setup("central", arch_pair, <<0, 1>>, 1, 3),
     Setup("central-stack", arch_pair, <<0, 1>>, 3, 3),
     Setup("ws", arch_line, <<0, 1, 2>>, 1, 2),
     Setup("ws-de", arch_line, <<0, 1, 2>>, 3, 2),
     Setup("ws-de-node", arch_pair, <<0, 1, 2>>, 1, 2),
     Setup("ws-de-node", arch_line, <<0, 1, 2>>, 3, 2),
     Setup("numa", arch_pair, <<0, 1, 2>>, 1, 2),
     Setup("numa", arch_pair, <<0, 2>>, 2, 3),
     Setup("numa", arch_line, <<0, 2>>, 3, 3)}
Footprints == {0, 2048}

\* All workers but one of node 4 and one of node 6.
GothmogSetups == {Setup("ws-de-node", arch_gothmog, [i \in 1 .. 48 |-> i - 1], 1, 1)}
AllButTwo == (0 .. 47) \ {24, 36}
=============================================================================
