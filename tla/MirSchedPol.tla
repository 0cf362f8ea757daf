----------------------------- MODULE MirSchedPol -----------------------------
(***************************************************************************)
(* The six scheduling policies of scheduling/: where a push puts a task,   *)
(* and in which order a pop looks for one.  A queue is looked at and       *)
(* popped from in two steps, as in the code, with other workers in         *)
(* between.  Each operation of a queue is one step, which is what          *)
(* MirTaskQueue and MirDeque show, and g_num_tasks_waiting goes with it:   *)
(* MirTasking keeps the two apart.  Worker statistics and the              *)
(* communication costs kept for them are off, as by default.               *)
(***************************************************************************)
EXTENDS MirMemNodeDist

CONSTANTS
    Setups,     \* policy, machine, cpus of the workers, queue capacity, and the
                \* number of tasks created (a bound)
    Busy,       \* workers that stay in one long task
    FootprintSizes \* sizes in bytes of the parts of a data footprint

ASSUME SetupAssumption == \A s \in Setups :
    /\ s.pol \in {"central", "central-stack", "ws", "ws-de", "ws-de-node", "numa"}
    /\ TableTypes(s.arch) /\ TablesAgree(s.arch)
    /\ s.worker_cpu_map \in Seq(Cores(s.arch)) /\ s.queue_capacity \in Nat \ {0}
    /\ s.max_tasks \in Nat
    \* pop_ws_de_node takes the ids of workers for cpus and indexes the queues by cpu.
    /\ s.pol = "ws-de-node" => s.worker_cpu_map = [i \in 1 .. s.arch.num_cores |-> i - 1]
ASSUME FootprintAssumption == FootprintSizes \subseteq Nat

VARIABLES
    setup,                      \* chosen when the runtime is created
    queues,                     \* sched_pol->queues and alt_queues
    g_num_tasks_waiting,
    next,                       \* the next task to create
    bias,                       \* worker->bias
    pc, at,                     \* where each worker stands in pop
    executed,                   \* tasks handed to a worker, or executed by push
    shunned                     \* history: see NoteUnfit

vars == <<setup, queues, g_num_tasks_waiting, next, bias, pc, at, executed, shunned>>

pol == setup.pol
arch == setup.arch
num_workers == Len(setup.worker_cpu_map)
queue_capacity == setup.queue_capacity
Tasks == 1 .. setup.max_tasks
Workers == 0 .. num_workers - 1
cpu_id(w) == setup.worker_cpu_map[w + 1]
node(w) == arch.node_of[cpu_id(w)]
Central == {"central", "central-stack"}
Deques == {"ws-de", "ws-de-node"}

num_queues == IF pol \in Central THEN 1
              ELSE IF pol = "numa" THEN arch.num_nodes ELSE num_workers
Main(i) == <<"queues", i>>
Alt(i) == <<"alt_queues", i>>
QueueIds == {Main(i) : i \in 0 .. num_queues - 1}
              \cup IF pol = "numa" THEN {Alt(i) : i \in 0 .. num_queues - 1} ELSE {}

\* A deque rounds its capacity up to a power of two and leaves one element free.
RoundUp2(n) == CHOOSE s \in {2 ^ k : k \in 1 .. n} : n < s /\ s <= 2 * n
ASSUME DequeAssumption ==   \* the provers know nothing of 2 ^ k
    \A s \in Setups : s.pol \in Deques => RoundUp2(s.queue_capacity) \in Nat \ {0}
Room == IF pol \in Deques THEN RoundUp2(queue_capacity) - 1 ELSE queue_capacity
-----------------------------------------------------------------------------
(* Where push puts a task *)

\* is_data_dist_significant
LowLimit == (arch.llc_size_KB * 1024) \div (arch.num_cores \div arch.num_nodes)
Significant(dist) == Sum(arch, dist) >= LowLimit /\ HasDeviation(arch, dist)

\* The loop of push_numa over the workers from bias on, which asks once for a run
\* of workers of one node.
Circle(from) == [k \in 1 .. num_workers |-> (from + k - 1) % num_workers]
Cheapest(dist, ws) ==
    LET ask(st, w) ==
            LET cost == CommCost(arch, dist, node(w))
            IN  IF node(w) = st.prev_node THEN st
                ELSE IF st.worker = -1 \/ cost < st.cost
                THEN [prev_node |-> node(w), cost |-> cost, worker |-> w]
                ELSE [st EXCEPT !.prev_node = node(w)]
        start == [prev_node |-> arch.num_nodes + 1, cost |-> 0, worker |-> -1]
    IN  FoldLeft(ask, start, ws).worker

\* Bug variant: the search ends one worker early.
LeastCostWorkerShort(dist, from) ==
    Cheapest(dist, IF num_workers = 1 THEN Circle(from) ELSE Front(Circle(from)))

LeastCostWorker(dist, from) == Cheapest(dist, Circle(from))

\* The queue for a task with footprint dist (NoDist: none), pushed by w.
NoDist == <<>>
ByCost(dist) == pol = "numa" /\ dist # NoDist /\ Significant(dist)
Target(w, dist) ==
    CASE pol \in Central -> Main(0)
      [] pol = "numa" -> IF ByCost(dist) THEN Main(node(LeastCostWorker(dist, bias[w])))
                         ELSE Alt(node(w))
      [] OTHER -> Main(w)
-----------------------------------------------------------------------------
(* Where pop looks *)

At(part, n) == [part |-> part, n |-> n]
End == At("end", 0)

\* Bug variant: worker 0 does not bail out alone, every worker does.
RingAfterNoWrap(w, ctr) ==
    IF ctr + 1 = w \/ ctr + 1 = num_queues THEN End ELSE At("ring", ctr + 1)

\* pop_ws, pop_ws_de and the first loop of pop_ws_de_node: the step of ctr with
\* the wrap-around at the head of the next iteration.
RingAfter(w, ctr) ==
    IF ctr + 1 = w \/ (ctr + 1 = num_queues /\ w = 0) THEN End
    ELSE IF ctr + 1 = num_queues THEN At("ring", 0)
    ELSE At("ring", ctr + 1)

\* Bug variant: the step of pop_numa without the wrap-around.
AltAfterNoWrap(w, ctr) == IF ctr + 1 = node(w) THEN End ELSE At("alts", ctr + 1)

\* pop_numa: the alternate queues of the other nodes.
AltAfter(w, ctr) ==
    LET wrapped == IF ctr + 1 = num_queues THEN 0 ELSE ctr + 1
    IN  IF wrapped = node(w) THEN End ELSE At("alts", wrapped)

\* The last loops of pop_numa and pop_ws_de_node: the queues of each neighbour at
\* d hops, and how many tasks must be there (more than `limit`).
AtHops(w, d) ==
    LET spare == IF pol = "numa" THEN (arch.num_cores \div arch.num_nodes) * d ELSE 0
        places(n) == IF pol = "numa" THEN <<n>> ELSE arch.cpus_of[n]
        neighbors == arch.vicinity_of[node(w)][d]
        around == FlattenSeq([i \in DOMAIN neighbors |-> places(neighbors[i])])
    IN  [i \in DOMAIN around |-> [queue |-> around[i], limit |-> spare]]

\* Bug variant: the farthest first.
HoodBackwards(w) ==
    FlattenSeq([d \in 1 .. arch.diameter |-> AtHops(w, arch.diameter + 1 - d)])

Hood(w) == FlattenSeq([d \in 1 .. arch.diameter |-> AtHops(w, d)])
HoodFrom(w, k) == IF k > Len(Hood(w)) THEN End ELSE At("hood", k)

FirstPlace(w) == IF pol = "numa" THEN At("alt", node(w))
                 ELSE At("ring", IF pol \in Central THEN 0 ELSE w)

\* The place after p in the search of worker w.
PlaceAfter(w, p) ==
    LET round == IF pol \in Central THEN End
                 ELSE IF p.part = "ring" THEN RingAfter(w, p.n) ELSE AltAfter(w, p.n)
    IN  IF p.part = "alt" THEN At("main", p.n)
        ELSE IF p.part = "hood" THEN HoodFrom(w, p.n + 1)
        ELSE IF round = End /\ pol \in {"ws-de-node", "numa"} THEN HoodFrom(w, 1)
        ELSE round

QueueAt(w, p) == IF p.part \in {"alt", "alts"} THEN Alt(p.n)
                 ELSE Main(IF p.part = "hood" THEN Hood(w)[p.n].queue ELSE p.n)

\* Bug variant: the queue of the worker's own node must have tasks to spare, too.
LimitAtHome(w, p) ==
    CASE p.part = "hood" -> Hood(w)[p.n].limit
      [] p.part = "main" -> arch.num_cores \div arch.num_nodes
      [] OTHER -> 0

LimitAt(w, p) == IF p.part = "hood" THEN Hood(w)[p.n].limit ELSE 0

\* pop_ws_de_node: "Worker outside this node, move on."
Passed(w, p) == pol = "ws-de-node" /\ p.part = "ring" /\ arch.node_of[p.n] # node(w)

\* A queue gives its oldest task, a stack its newest, and a deque its newest to
\* the owner's pop and its oldest to a steal.
FromBack(w, p) == pol = "central-stack" \/ (pol \in Deques /\ p = At("ring", w))
Yield(w, p, q) == IF FromBack(w, p) THEN Last(q) ELSE Head(q)
Rest(w, p, q) == IF FromBack(w, p) THEN Front(q) ELSE Tail(q)
-----------------------------------------------------------------------------
Init ==
    /\ setup \in Setups
    /\ queues = [q \in QueueIds |-> <<>>]
    /\ g_num_tasks_waiting = 0 /\ next = 1
    /\ bias = [w \in Workers |-> w]
    /\ pc = [w \in Workers |-> "idle"]
    /\ at = [w \in Workers |-> End]
    /\ executed = {}
    /\ shunned = [w \in Workers |-> {}]

Dists == {NoDist} \cup IF pol = "numa" THEN [Nodes(arch) -> FootprintSizes] ELSE {}

\* Task creation by w: push, which executes the task when the queue is full.
Push(w, dist) ==
    /\ pc[w] = "idle" /\ next \in Tasks
    /\ LET q == Target(w, dist)
       IN  IF Len(queues[q]) < Room
           THEN /\ queues' = [queues EXCEPT ![q] = Append(@, next)]
                /\ g_num_tasks_waiting' = g_num_tasks_waiting + 1
                /\ UNCHANGED executed
           ELSE /\ executed' = executed \cup {next}
                /\ UNCHANGED <<queues, g_num_tasks_waiting>>
    /\ bias' = IF ByCost(dist) THEN [bias EXCEPT ![w] = (@ + 1) % num_workers] ELSE bias
    /\ next' = next + 1
    /\ UNCHANGED <<setup, pc, at>>

PopBegin(w) ==
    /\ pc[w] = "idle"
    /\ pc' = [pc EXCEPT ![w] = "look"]
    /\ at' = [at EXCEPT ![w] = FirstPlace(w)]
    /\ UNCHANGED <<setup, queues, g_num_tasks_waiting, next, bias, executed>>

\* Nothing at this place: go on to the next one, or return 0.
MoveOn(w) ==
    LET p == PlaceAfter(w, at[w])
    IN  /\ at' = [at EXCEPT ![w] = p]
        /\ pc' = [pc EXCEPT ![w] = IF p = End THEN "idle" ELSE "look"]

\* The size of the queue, read without its locks.
Look(w) ==
    /\ pc[w] = "look"
    /\ IF Passed(w, at[w]) \/ Len(queues[QueueAt(w, at[w])]) <= LimitAt(w, at[w])
       THEN MoveOn(w)
       ELSE pc' = [pc EXCEPT ![w] = "take"] /\ UNCHANGED at
    /\ UNCHANGED <<setup, queues, g_num_tasks_waiting, next, bias, executed>>

\* The pop proper, which finds the queue as others have left it.
Take(w) ==
    /\ pc[w] = "take"
    /\ LET p == at[w]
           q == QueueAt(w, p)
       IN  IF queues[q] = <<>>
           THEN MoveOn(w) /\ UNCHANGED <<queues, g_num_tasks_waiting, executed>>
           ELSE /\ queues' = [queues EXCEPT ![q] = Rest(w, p, @)]
                /\ g_num_tasks_waiting' = g_num_tasks_waiting - 1
                /\ executed' = executed \cup {Yield(w, p, queues[q])}
                /\ pc' = [pc EXCEPT ![w] = "idle"]
                /\ at' = [at EXCEPT ![w] = End]
    /\ UNCHANGED <<setup, next, bias>>
-----------------------------------------------------------------------------
(* What a pop may take, stated without the order of the search *)

Hops(m, n) ==
    LET near == {d \in 1 .. arch.diameter : n \in ToSet(arch.vicinity_of[m][d])}
    IN  IF m = n THEN 0 ELSE IF near = {} THEN arch.diameter ELSE Min(near)

\* How many tasks a queue may keep from a pop of w, and how near it is to w.
Spared(w, q) ==
    IF pol = "numa" /\ q[1] = "queues"
    THEN (arch.num_cores \div arch.num_nodes) * Hops(node(w), q[2]) ELSE 0
Rank(w, q) ==
    IF pol \in Central THEN 0
    ELSE IF pol = "numa"
    THEN IF q[1] = "alt_queues" THEN IF q[2] = node(w) THEN 0 ELSE 2
         ELSE IF q[2] = node(w) THEN 1 ELSE 2 + Hops(node(w), q[2])
    ELSE IF q[2] = w THEN 0
    ELSE IF pol = "ws-de-node" THEN 1 + Hops(node(w), arch.node_of[q[2]]) ELSE 1

\* shunned[w]: the queues that have had nothing for w at some moment of its pop.
NoteUnfit ==
    shunned' = [w \in Workers |->
        IF pc'[w] \notin {"look", "take"} THEN {}
        ELSE shunned[w] \cup {q \in QueueIds : Len(queues'[q]) <= Spared(w, q)}]

Pop(w) == PopBegin(w) \/ Look(w) \/ Take(w)
Create(w) == \E dist \in Dists : Push(w, dist)

Next == \E w \in Workers \ Busy : (Pop(w) \/ Create(w)) /\ NoteUnfit

\* Each worker's thread keeps running; an idle one pops again.
MaxWorkers == Max({Len(s.worker_cpu_map) : s \in Setups})
Fairness == \A w \in 0 .. MaxWorkers - 1 : WF_vars(w \in Workers \ Busy /\ Pop(w) /\ NoteUnfit)

Spec == Init /\ [][Next]_vars
FairSpec == Spec /\ Fairness
-----------------------------------------------------------------------------
(* Properties *)

Queued == UNION {ToSet(queues[q]) : q \in QueueIds}
TypeOK ==
    /\ queues \in [QueueIds -> Seq(Tasks)]
    /\ \A q \in QueueIds : Len(queues[q]) <= Room
    /\ g_num_tasks_waiting = Cardinality(Queued)
    /\ next \in 1 .. setup.max_tasks + 1
    /\ bias \in [Workers -> Workers]
    /\ pc \in [Workers -> {"idle", "look", "take"}]
    /\ \A w \in Workers : at[w] # End => QueueAt(w, at[w]) \in QueueIds
    /\ executed \subseteq Tasks

\* A pop that returns without a task has missed none: every queue that the policy
\* lets it take from has had nothing to spare at some moment of the pop.
Ends(w) == pc[w] \in {"look", "take"} /\ pc'[w] = "idle"
Got(w) == Ends(w) /\ g_num_tasks_waiting' < g_num_tasks_waiting
PopMissesNothing ==
    [][\A w \in Workers : Ends(w) /\ ~Got(w) =>
        \A q \in QueueIds : q \in shunned[w] \/ Len(queues[q]) <= Spared(w, q)]_vars

\* "Start with own queue", "nearest queues get searched first": a pop takes from a
\* queue only when every nearer one has had nothing to spare during the pop.
NearestFirst ==
    [][\A w \in Workers : Got(w) =>
        \A q \in QueueIds : Rank(w, q) < Rank(w, QueueAt(w, at[w])) => q \in shunned[w]]_vars

\* "Push task onto node with the least access cost": no worker's node has cheaper
\* access to the footprint than the node whose queue gets the task, whoever
\* pushes it and wherever his search begins.
LeastCostWins ==
    [][next' # next =>
        \A w \in Workers, dist \in Dists : ByCost(dist) =>
            \A v \in Workers : CommCost(arch, dist, Target(w, dist)[2])
                                  <= CommCost(arch, dist, node(v))]_vars

\* A queued task is handed to a worker in the end, also where the numa policy
\* leaves it to the workers of its own node.
MaxTasks == Max({s.max_tasks : s \in Setups})
QueuedIsExecuted == \A x \in 1 .. MaxTasks : x < next ~> x \in executed
=============================================================================
