------------------------------- MODULE MCMemPol -------------------------------
(***************************************************************************)
(* Configurations for MirMemPol.  Nodes without workers lie between, after *)
(* and before those with workers.                                          *)
(***************************************************************************)
EXTENDS MirMemPol, MCMachines

Config(policy, machine, cpus) == [pol |-> policy, arch |-> machine, worker_cpu_map |-> cpus]
SmallConfigs ==
    {Config("coarse", arch_line, <<0, 2>>), Config("coarse", arch_line, <<2>>),
     Config("fine", arch_line, <<2, 0>>), Config("local", arch_pair, <<0, 2>>),
     Config("system", arch_pair, <<2>>)}

Footprint(type, start, end, row_sz) ==
    [type |-> type, start |-> start, end |-> end, row_sz |-> row_sz]
SmallFootprints == {Footprint(1, 0, 2, 0), Footprint(2, 1, 4, 0), Footprint(1, 0, 1, 5),
                    Footprint(1, 1, 2, 3), Footprint(1, 0, 8, 1)}
=============================================================================
