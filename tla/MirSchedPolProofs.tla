-------------------------- MODULE MirSchedPolProofs --------------------------
(***************************************************************************)
(* Proofs about the six scheduling policies of MirSchedPol, for every      *)
(* machine whose tables agree, any workers, queue capacities and tasks.    *)
(* A search is a walk over places; the invariant says which queues it has  *)
(* left behind at each, without the loops: the part of the ring between    *)
(* its start and its place, and the neighbourhood up to its place.  The    *)
(* neighbourhood is a concatenation, and a push by cost a fold, of which   *)
(* FoldProofs says what they are.  The queues are only counted and told    *)
(* apart: what else they promise is proved of MirTaskQueue and MirDeque.   *)
(***************************************************************************)
EXTENDS MirSchedPol, FoldProofs

HoodPolicies == {"ws-de-node", "numa"}
Policies == {"central", "central-stack", "ws", "ws-de", "ws-de-node", "numa"}
Indices == 0 .. num_queues - 1
Spare(d) == IF pol = "numa" THEN (arch.num_cores \div arch.num_nodes) * d ELSE 0

\* The node of the i-th queue, where queues belong to nodes or to their cpus.
NodeOf(i) == IF pol = "numa" THEN i ELSE arch.node_of[i]
-----------------------------------------------------------------------------
(* The machine and the workers *)

LEMMA SetupFacts ==
    ASSUME setup \in Setups
    PROVE  /\ pol \in Policies /\ TableTypes(arch) /\ TablesAgree(arch)
           /\ setup.worker_cpu_map \in Seq(Cores(arch))
           /\ queue_capacity \in Nat \ {0} /\ setup.max_tasks \in Nat
           /\ pol = "ws-de-node" => setup.worker_cpu_map = [i \in 1 .. arch.num_cores |-> i - 1]
           /\ num_workers \in Nat /\ num_queues \in Nat
           /\ \A w \in Workers : w \in Nat /\ cpu_id(w) \in Cores(arch) /\ node(w) \in Nodes(arch)
<1>1. /\ pol \in Policies /\ TableTypes(arch) /\ TablesAgree(arch)
      /\ setup.worker_cpu_map \in Seq(Cores(arch))
      /\ queue_capacity \in Nat \ {0} /\ setup.max_tasks \in Nat
      /\ pol = "ws-de-node" => setup.worker_cpu_map = [i \in 1 .. arch.num_cores |-> i - 1]
  BY SetupAssumption DEF pol, arch, queue_capacity, Policies
<1>2. num_workers \in Nat
  BY <1>1 DEF num_workers
<1>3. num_queues \in Nat
  BY <1>1, <1>2 DEF num_queues, TableTypes
<1>4. ASSUME NEW w \in Workers
      PROVE  w \in Nat /\ cpu_id(w) \in Cores(arch) /\ node(w) \in Nodes(arch)
  <2>1. w \in Nat /\ w + 1 \in 1 .. num_workers
    BY <1>2 DEF Workers
  <2>2. cpu_id(w) \in Cores(arch)
    BY <1>1, <2>1 DEF cpu_id, num_workers
  <2>3. QED
    BY <1>1, <2>1, <2>2 DEF TableTypes, node
<1>5. QED
  BY <1>1, <1>2, <1>3, <1>4

\* Which queues there are under each policy.
LEMMA IndexFacts ==
    ASSUME setup \in Setups
    PROVE  /\ pol \in Central => num_queues = 1
           /\ pol = "numa" => num_queues = arch.num_nodes /\ Indices = Nodes(arch)
           /\ pol \notin Central \cup {"numa"} => num_queues = num_workers /\ Indices = Workers
BY DEF num_queues, Central, Indices, Nodes, Workers, num_workers

LEMMA QueueFacts ==
    ASSUME setup \in Setups
    PROVE  /\ \A i \in Indices : i \in Nat /\ Main(i) \in QueueIds
           /\ pol = "numa" => \A i \in Indices : Alt(i) \in QueueIds
           /\ \A q \in QueueIds : /\ q[2] \in Indices
                                  /\ q = Main(q[2]) \/ (pol = "numa" /\ q = Alt(q[2]))
<1>1. \A i \in Indices : i \in Nat /\ Main(i) \in QueueIds
  BY SetupFacts DEF Indices, QueueIds
<1>2. pol = "numa" => \A i \in Indices : Alt(i) \in QueueIds
  BY DEF Indices, QueueIds
<1>3. ASSUME NEW q \in QueueIds
      PROVE  q[2] \in Indices /\ (q = Main(q[2]) \/ (pol = "numa" /\ q = Alt(q[2])))
  BY DEF QueueIds, Indices, Main, Alt
<1>4. QED
  BY <1>1, <1>2, <1>3

\* Under ws-de-node a worker is its cpu, and queues belong to cpus.
LEMMA NodeFacts ==
    ASSUME setup \in Setups
    PROVE  /\ pol = "ws-de-node" => /\ Indices = Cores(arch) /\ Workers = Cores(arch)
                                    /\ \A w \in Workers : node(w) = arch.node_of[w]
           /\ pol \in HoodPolicies => \A i \in Indices : NodeOf(i) \in Nodes(arch)
<1>1. CASE pol = "ws-de-node"
  <2>1. pol \notin Central \cup {"numa"}
    BY <1>1 DEF Central
  <2>2. setup.worker_cpu_map = [i \in 1 .. arch.num_cores |-> i - 1] /\ arch.num_cores \in Nat
    BY <1>1, SetupFacts DEF TableTypes
  <2>3. num_workers = arch.num_cores
    BY <2>2 DEF num_workers
  <2>4. Indices = Cores(arch) /\ Workers = Cores(arch)
    BY <2>1, <2>3, IndexFacts DEF Workers, Cores
  <2>5. \A w \in Workers : cpu_id(w) = w
    BY <2>2, <2>3 DEF cpu_id, Workers
  <2>6. \A w \in Workers : node(w) = arch.node_of[w]
    BY <2>5 DEF node
  <2>7. \A i \in Indices : NodeOf(i) \in Nodes(arch)
    BY <1>1, <2>4, SetupFacts DEF NodeOf, TableTypes
  <2>8. QED
    BY <2>4, <2>6, <2>7
<1>2. CASE pol = "numa"
  BY <1>2, IndexFacts DEF NodeOf
<1>3. QED
  BY <1>1, <1>2 DEF HoodPolicies

\* Hop distances are numbers, and a product with one is one.
LEMMA HopFacts ==
    ASSUME setup \in Setups, NEW m \in Nodes(arch), NEW n \in Nodes(arch)
    PROVE  /\ Hops(m, n) \in 0 .. arch.diameter /\ Hops(m, m) = 0
           /\ \A d \in 1 .. arch.diameter : n \in ToSet(arch.vicinity_of[m][d]) => Hops(m, n) <= d
           /\ m # n /\ Hops(m, n) < arch.diameter =>
                Hops(m, n) \in 1 .. arch.diameter /\ n \in ToSet(arch.vicinity_of[m][Hops(m, n)])
<1> DEFINE near == {d \in 1 .. arch.diameter : n \in ToSet(arch.vicinity_of[m][d])}
<1>1. arch.diameter \in Nat
  BY SetupFacts DEF TableTypes
<1>2. near \subseteq Nat /\ near \subseteq 1 .. arch.diameter
  BY <1>1
<1>3. Hops(m, n) = IF m = n THEN 0 ELSE IF near = {} THEN arch.diameter ELSE Min(near)
  BY DEF Hops
<1>4. Hops(m, m) = 0
  BY DEF Hops
<1>5. CASE m = n
  BY <1>1, <1>3, <1>4, <1>5
<1>6. CASE m # n /\ near = {}
  BY <1>1, <1>3, <1>4, <1>6
<1>7. CASE m # n /\ near # {}
  <2>1. PICK h : h = Hops(m, n) /\ h \in near /\ \A y \in near : h <= y
    <3> HIDE DEF near
    <3>1. QED
      BY <1>2, <1>3, <1>7, MinIs
  <2>2. QED
    BY <1>1, <1>4, <2>1
<1>8. QED
  BY <1>5, <1>6, <1>7

LEMMA SpareFacts ==
    ASSUME setup \in Setups
    PROVE  Spare(0) = 0 /\ \A d \in Nat : Spare(d) \in Nat
<1>1. PICK c \in Nat : c = arch.num_cores \div arch.num_nodes
  <2>1. PICK x \in Nat \ {0}, y \in Nat \ {0} : x = arch.num_cores /\ y = arch.num_nodes
    BY SetupFacts DEF TableTypes
  <2>2. x \div y \in Nat
    BY DivIs
  <2>3. QED
    BY <2>1, <2>2
<1>2. c * 0 = 0 /\ \A d \in Nat : c * d \in Nat
  OBVIOUS
<1>3. QED
  BY <1>1, <1>2 DEF Spare
-----------------------------------------------------------------------------
(* The neighbourhood *)

Spots == [queue : Indices, limit : Nat]
Places(n) == IF pol = "numa" THEN <<n>> ELSE arch.cpus_of[n]
Around(w, d) == ToSet(arch.vicinity_of[node(w)][d])

\* The queues that belong to a node.
LEMMA PlacesAre ==
    ASSUME setup \in Setups, pol \in HoodPolicies, NEW n \in Nodes(arch)
    PROVE  Places(n) \in Seq(Indices) /\ ToSet(Places(n)) = {i \in Indices : NodeOf(i) = n}
<1>1. CASE pol = "numa"
  <2>1. Indices = Nodes(arch) /\ Places(n) = <<n>>
    BY <1>1, IndexFacts DEF Places
  <2>2. ToSet(<<n>>) = {n} /\ <<n>> \in Seq(Nodes(arch))
    BY DEF ToSet
  <2>3. {i \in Nodes(arch) : NodeOf(i) = n} = {n}
    BY <1>1 DEF NodeOf
  <2>4. QED
    BY <2>1, <2>2, <2>3
<1>2. CASE pol = "ws-de-node"
  <2>1. Indices = Cores(arch) /\ Places(n) = arch.cpus_of[n]
    BY <1>2, NodeFacts DEF Places
  <2>2. {c \in Cores(arch) : arch.node_of[c] = n} = ToSet(arch.cpus_of[n])
    BY SetupFacts DEF TablesAgree
  <2>3. arch.cpus_of[n] \in Seq(Cores(arch))
    BY SetupFacts DEF TableTypes
  <2>4. {i \in Cores(arch) : NodeOf(i) = n} = {c \in Cores(arch) : arch.node_of[c] = n}
    BY <1>2 DEF NodeOf
  <2>5. QED
    BY <2>1, <2>2, <2>3, <2>4
<1>3. QED
  BY <1>1, <1>2 DEF HoodPolicies

\* AtHops lists the queues of the nodes at d hops, and what each may keep.
LEMMA AtHopsIs ==
    ASSUME setup \in Setups, pol \in HoodPolicies, NEW w \in Workers, NEW d \in 1 .. arch.diameter
    PROVE  /\ AtHops(w, d) \in Seq(Spots)
           /\ \A x \in ToSet(AtHops(w, d)) :
                x \in Spots /\ x.limit = Spare(d) /\ NodeOf(x.queue) \in Around(w, d)
           /\ \A i \in Indices : NodeOf(i) \in Around(w, d) =>
                \E x \in ToSet(AtHops(w, d)) : x.queue = i
<1> DEFINE nb == arch.vicinity_of[node(w)][d]
           ss == [i \in DOMAIN nb |-> Places(nb[i])]
           around == FlattenSeq(ss)
<1>1. nb \in Seq(Nodes(arch))
  BY SetupFacts DEF TableTypes
<1>2. PICK n \in Nat : DOMAIN nb = 1 .. n /\ \A i \in 1 .. n : nb[i] \in Nodes(arch)
  <2> HIDE DEF nb
  <2>1. QED
    BY <1>1, LenProperties
<1>3. AtHops(w, d) = [i \in DOMAIN around |-> [queue |-> around[i], limit |-> Spare(d)]]
  BY DEF AtHops, Places, Spare
<1>4. Around(w, d) = {nb[i] : i \in 1 .. n}
  BY <1>2 DEF Around, ToSet
<1> HIDE DEF nb
<1>5. /\ ss \in [1 .. n -> Seq(Indices)]
      /\ \A i \in 1 .. n : ToSet(ss[i]) = {j \in Indices : NodeOf(j) = nb[i]}
  BY <1>2, PlacesAre
<1> HIDE DEF ss
<1>6. PICK b : around \in Seq(Indices) /\ IsFlat(around, b, ss, n)
  BY <1>5, FlattenIs
<1> HIDE DEF around
<1>7. PICK l \in Nat : l = Len(around) /\ DOMAIN around = 1 .. l
  BY <1>6, LenProperties
<1>8. /\ \A j \in 1 .. l : around[j] \in Indices /\ b[j] \in 1 .. n /\ around[j] \in ToSet(ss[b[j]])
      /\ \A i \in 1 .. n : \A x \in ToSet(ss[i]) : \E j \in 1 .. l : around[j] = x
  <2>1. \A j \in 1 .. l : around[j] \in Indices
    BY <1>6, <1>7
  <2>2. /\ b \in [1 .. l -> 1 .. n] /\ \A j \in 1 .. l : around[j] \in ToSet(ss[b[j]])
        /\ \A i \in 1 .. n : \A x \in ToSet(ss[i]) : \E j \in 1 .. l : around[j] = x /\ b[j] = i
    BY <1>6, <1>7 DEF IsFlat
  <2>3. QED
    BY <2>1, <2>2
<1>9. PICK H : H = AtHops(w, d)
  OBVIOUS
<1>10. H = [i \in 1 .. l |-> [queue |-> around[i], limit |-> Spare(d)]]
  BY <1>3, <1>7, <1>9
<1>11. d \in Nat /\ Spare(d) \in Nat
  <2>1. d \in Nat
    BY SetupFacts DEF TableTypes
  <2>2. QED
    BY <2>1, SpareFacts
<1>12. \A j \in 1 .. l : H[j] \in Spots /\ H[j].queue = around[j] /\ H[j].limit = Spare(d)
  BY <1>8, <1>10, <1>11 DEF Spots
<1>13. H \in Seq(Spots) /\ ToSet(H) = {H[j] : j \in 1 .. l}
  <2>1. DOMAIN H = 1 .. l /\ H \in [1 .. l -> Spots]
    BY <1>10, <1>12
  <2>2. QED
    BY <2>1 DEF ToSet
<1>14. ASSUME NEW j \in 1 .. l  PROVE NodeOf(around[j]) \in Around(w, d)
  <2>1. NodeOf(around[j]) = nb[b[j]] /\ b[j] \in 1 .. n
    BY <1>5, <1>8
  <2>2. QED
    BY <1>4, <2>1
<1>15. ASSUME NEW i \in Indices, NodeOf(i) \in Around(w, d)
       PROVE  \E x \in ToSet(H) : x.queue = i
  <2>1. PICK m \in 1 .. n : NodeOf(i) = nb[m]
    BY <1>4, <1>15
  <2>2. i \in ToSet(ss[m])
    BY <1>5, <2>1
  <2>3. PICK j \in 1 .. l : around[j] = i
    BY <1>8, <2>2
  <2>4. QED
    BY <1>12, <1>13, <2>3
<1>16. QED
  BY <1>9, <1>12, <1>13, <1>14, <1>15

\* b says how many hops away the queue at each place of the neighbourhood is taken
\* to be: the places go from near to far, and leave out nothing at any distance.
IsWalk(w, b) ==
    /\ b \in [1 .. Len(Hood(w)) -> 1 .. arch.diameter]
    /\ \A k \in 1 .. Len(Hood(w)) :
            /\ Hood(w)[k] \in Spots /\ Hood(w)[k].limit = Spare(b[k])
            /\ NodeOf(Hood(w)[k].queue) \in Around(w, b[k])
    /\ \A d \in 1 .. arch.diameter : \A i \in Indices : NodeOf(i) \in Around(w, d) =>
            \E k \in 1 .. Len(Hood(w)) : Hood(w)[k].queue = i /\ b[k] = d
    /\ \A j, k \in 1 .. Len(Hood(w)) : j <= k => b[j] <= b[k]

LEMMA HoodIs ==
    ASSUME setup \in Setups, pol \in HoodPolicies, NEW w \in Workers
    PROVE  Len(Hood(w)) \in Nat /\ \E b : IsWalk(w, b)
<1> DEFINE ss == [d \in 1 .. arch.diameter |-> AtHops(w, d)]
<1>1. PICK n \in Nat : n = arch.diameter
  BY SetupFacts DEF TableTypes
<1>2. PICK H : H = Hood(w)
  OBVIOUS
<1>3. H = FlattenSeq(ss)
  BY <1>2 DEF Hood
<1>4. ss \in [1 .. n -> Seq(Spots)] /\ \A d \in 1 .. n : ss[d] = AtHops(w, d)
  BY <1>1, AtHopsIs
<1> HIDE DEF ss
<1>5. PICK b : H \in Seq(Spots) /\ IsFlat(H, b, ss, n)
  BY <1>3, <1>4, FlattenIs
<1>6. PICK l \in Nat : l = Len(H) /\ \A k \in 1 .. l : H[k] \in Spots
  BY <1>5, LenProperties
<1>7. /\ b \in [1 .. l -> 1 .. n]
      /\ \A j \in 1 .. l : H[j] \in ToSet(ss[b[j]])
      /\ \A i \in 1 .. n : \A x \in ToSet(ss[i]) : \E j \in 1 .. l : H[j] = x /\ b[j] = i
      /\ \A i, j \in 1 .. l : i <= j => b[i] <= b[j]
  BY <1>5, <1>6 DEF IsFlat
<1>8. ASSUME NEW k \in 1 .. l
      PROVE  H[k] \in Spots /\ H[k].limit = Spare(b[k]) /\ NodeOf(H[k].queue) \in Around(w, b[k])
  <2>1. PICK d \in 1 .. n : d = b[k] /\ H[k] \in ToSet(AtHops(w, d))
    BY <1>4, <1>7
  <2>2. QED
    BY <1>1, <2>1, AtHopsIs
<1>9. ASSUME NEW d \in 1 .. n, NEW i \in Indices, NodeOf(i) \in Around(w, d)
      PROVE  \E k \in 1 .. l : H[k].queue = i /\ b[k] = d
  <2>1. PICK x \in ToSet(AtHops(w, d)) : x.queue = i
    BY <1>1, <1>9, AtHopsIs
  <2>2. PICK k \in 1 .. l : H[k] = x /\ b[k] = d
    BY <1>4, <1>7, <2>1
  <2>3. QED
    BY <2>1, <2>2
<1>10. IsWalk(w, b)
  BY <1>1, <1>2, <1>6, <1>7, <1>8, <1>9 DEF IsWalk
<1>11. QED
  BY <1>2, <1>6, <1>10
-----------------------------------------------------------------------------
(* The places of a search *)

\* A search that started at queue w and now looks at queue n has left i behind.
Behind(w, n, i) == IF w <= n THEN w <= i /\ i < n ELSE w <= i \/ i < n

Start(w) == IF pol \in Central THEN 0 ELSE w
IsPlace(w, p) ==
    /\ p = At(p.part, p.n)
    /\ \/ pol # "numa" /\ p.part = "ring" /\ p.n \in Indices
       \/ pol = "numa" /\ p.part \in {"alt", "main"} /\ p.n = node(w)
       \/ pol = "numa" /\ p.part = "alts" /\ p.n \in Indices \ {node(w)}
       \/ pol \in HoodPolicies /\ p.part = "hood" /\ p.n \in 1 .. Len(Hood(w))

\* The queues that a search at place p has left behind, and those that it is about to.
IsLeft(w, p, q) ==
    \/ /\ p.part = "ring"
       /\ Behind(Start(w), p.n, q[2]) /\ ~Passed(w, At("ring", q[2]))
    \/ p.part = "main" /\ q = Alt(node(w))
    \/ /\ p.part = "alts"
       /\ q = Main(node(w)) \/ (q[1] = "alt_queues" /\ Behind(node(w), p.n, q[2]))
    \/ /\ p.part = "hood"
       /\ \/ q[1] = "alt_queues" \/ NodeOf(q[2]) = node(w)
          \/ \E k \in 1 .. p.n - 1 : q[2] = Hood(w)[k].queue
Leaves(w, p, q) == IsLeft(w, p, q) \/ (q = QueueAt(w, p) /\ ~Passed(w, p))

\* The tables tell the way from the worker's node to the queue's.
InReach(w, q) ==
    pol \in HoodPolicies /\ q[1] = "queues" =>
        NodeOf(q[2]) = node(w) \/ NodeOf(q[2]) \in Reachable(arch, node(w))

\* What it means that n is the place after p: nothing is left behind at n that was not
\* looked at by then, and a search ends only when it has looked everywhere.
Follows(w, p, n) ==
    IF n = End THEN \A q \in QueueIds : InReach(w, q) => Leaves(w, p, q)
    ELSE IsPlace(w, n) /\ \A q \in QueueIds : IsLeft(w, n, q) => Leaves(w, p, q)

LEMMA AtIs ==
    \A part, n, m : /\ At(part, n).part = part /\ At(part, n).n = n
                    /\ part # "end" => At(part, n) # End
BY DEF At, End

\* Going round from w, the place after n is the end when every other queue has been
\* left behind, and otherwise n is all that is added to what has.
LEMMA RingGoesRound ==
    ASSUME NEW k \in Nat, NEW w \in 0 .. k - 1, NEW n \in 0 .. k - 1, num_queues = k
    PROVE  LET p == RingAfter(w, n)
           IN  \/ p = End /\ \A i \in 0 .. k - 1 : i = n \/ Behind(w, n, i)
               \/ /\ p = At("ring", p.n) /\ p.n \in 0 .. k - 1
                  /\ \A i \in 0 .. k - 1 : Behind(w, p.n, i) <=> i = n \/ Behind(w, n, i)
<1>1. CASE n + 1 = w
  BY <1>1 DEF RingAfter, Behind
<1>2. CASE n + 1 # w /\ n + 1 = k /\ w = 0
  BY <1>2 DEF RingAfter, Behind
<1>3. CASE n + 1 # w /\ n + 1 = k /\ w # 0
  <2>1. RingAfter(w, n) = At("ring", 0)
    BY <1>3 DEF RingAfter
  <2>2. QED
    BY <1>3, <2>1 DEF At, Behind
<1>4. CASE n + 1 # w /\ n + 1 # k
  <2>1. RingAfter(w, n) = At("ring", n + 1)
    BY <1>4 DEF RingAfter
  <2>2. QED
    BY <1>4, <2>1 DEF At, Behind
<1>5. QED
  BY <1>1, <1>2, <1>3, <1>4

\* So it is for the alternate queues, from the worker's node on.
LEMMA AltsGoRound ==
    ASSUME NEW k \in Nat, NEW w, NEW m \in 0 .. k - 1, NEW n \in 0 .. k - 1,
           num_queues = k, node(w) = m
    PROVE  LET p == AltAfter(w, n)
           IN  \/ p = End /\ \A i \in 0 .. k - 1 : i = n \/ Behind(m, n, i)
               \/ /\ p = At("alts", p.n) /\ p.n \in 0 .. k - 1 /\ p.n # m
                  /\ \A i \in 0 .. k - 1 : Behind(m, p.n, i) <=> i = n \/ Behind(m, n, i)
<1> DEFINE wrapped == IF n + 1 = k THEN 0 ELSE n + 1
<1>1. AltAfter(w, n) = IF wrapped = m THEN End ELSE At("alts", wrapped)
  BY DEF AltAfter
<1>2. CASE wrapped = m
  <2>1. \A i \in 0 .. k - 1 : i = n \/ Behind(m, n, i)
    BY <1>2 DEF Behind
  <2>2. QED
    BY <1>1, <1>2, <2>1
<1>3. CASE wrapped # m
  <2>1. AltAfter(w, n) = At("alts", wrapped) /\ At("alts", wrapped).n = wrapped
    BY <1>1, <1>3, AtIs
  <2>2. \A i \in 0 .. k - 1 : Behind(m, wrapped, i) <=> i = n \/ Behind(m, n, i)
    BY <1>3 DEF Behind
  <2>3. wrapped \in 0 .. k - 1
    OBVIOUS
  <2> HIDE DEF wrapped
  <2>4. QED
    BY <1>3, <2>1, <2>2, <2>3
<1>4. QED
  BY <1>2, <1>3

\* The neighbourhood comes after all that belongs to the worker's node.
LEMMA HoodFollows ==
    ASSUME setup \in Setups, pol \in HoodPolicies, NEW w \in Workers, NEW p,
           \A q \in QueueIds :
                q[1] = "alt_queues" \/ NodeOf(q[2]) = node(w) => Leaves(w, p, q)
    PROVE  Follows(w, p, HoodFrom(w, 1))
<1>0. PICK l \in Nat : l = Len(Hood(w)) /\ \E b : IsWalk(w, b)
  BY HoodIs
<1>1. PICK b : l = Len(Hood(w)) /\ IsWalk(w, b)
  BY <1>0
<1>2. CASE 1 > l
  <2>1. HoodFrom(w, 1) = End /\ l = 0
    BY <1>1, <1>2 DEF HoodFrom
  <2>2. ASSUME NEW q \in QueueIds, InReach(w, q)  PROVE Leaves(w, p, q)
    <3>1. q[2] \in Indices /\ (q[1] = "queues" \/ q[1] = "alt_queues")
      BY QueueFacts DEF Main, Alt
    <3>2. NodeOf(q[2]) \notin Reachable(arch, node(w))
      <4>1. \A d \in 1 .. arch.diameter : NodeOf(q[2]) \notin Around(w, d)
        BY <1>1, <2>1, <3>1 DEF IsWalk
      <4>2. QED
        BY <4>1 DEF Reachable, Around
    <3>3. QED
      BY <2>2, <3>1, <3>2 DEF InReach
  <2>3. QED
    BY <2>1, <2>2 DEF Follows
<1>3. CASE ~(1 > l)
  <2>1. PICK n : n = HoodFrom(w, 1) /\ n = At("hood", 1)
    BY <1>1, <1>3 DEF HoodFrom
  <2>2. n # End /\ n.part = "hood" /\ n.n = 1 /\ 1 \in 1 .. l
    BY <1>3, <2>1, AtIs
  <2>3. IsPlace(w, n)
    BY <1>1, <2>1, <2>2 DEF IsPlace
  <2>4. ASSUME NEW q \in QueueIds, IsLeft(w, n, q)  PROVE Leaves(w, p, q)
    BY <2>2, <2>4 DEF IsLeft
  <2>5. QED
    BY <2>1, <2>2, <2>3, <2>4 DEF Follows
<1>4. QED
  BY <1>2, <1>3

LEMMA NextInHood ==
    ASSUME setup \in Setups, pol \in HoodPolicies, NEW w \in Workers,
           NEW k \in 1 .. Len(Hood(w)), NEW p, p = At("hood", k)
    PROVE  Follows(w, p, PlaceAfter(w, p))
<1>0. PICK l \in Nat : l = Len(Hood(w)) /\ \E b : IsWalk(w, b)
  BY HoodIs
<1>1. PICK b : l = Len(Hood(w)) /\ IsWalk(w, b)
  BY <1>0
<1>2. /\ p.part = "hood" /\ p.n = k /\ k \in 1 .. l
      /\ QueueAt(w, p) = Main(Hood(w)[k].queue) /\ ~Passed(w, p)
  BY <1>1, AtIs DEF QueueAt, Passed
<1>3. PlaceAfter(w, p) = HoodFrom(w, k + 1)
  BY <1>2 DEF PlaceAfter
<1>4. ASSUME NEW q \in QueueIds, NEW j \in 1 .. k, q[2] = Hood(w)[j].queue
      PROVE  Leaves(w, p, q)
  <2>1. q = Main(q[2]) \/ q[1] = "alt_queues"
    BY QueueFacts DEF Alt
  <2>2. CASE q[1] = "alt_queues"
    BY <1>2, <2>2 DEF Leaves, IsLeft
  <2>3. CASE j = k /\ q = Main(q[2])
    BY <1>2, <1>4, <2>3 DEF Leaves
  <2>4. CASE j # k
    <3>1. j \in 1 .. p.n - 1
      BY <1>2, <2>4
    <3>2. QED
      BY <1>2, <1>4, <3>1 DEF Leaves, IsLeft
  <2>5. QED
    BY <2>1, <2>2, <2>3, <2>4
<1>5. ASSUME NEW q \in QueueIds, q[1] = "alt_queues" \/ NodeOf(q[2]) = node(w)
      PROVE  Leaves(w, p, q)
  BY <1>2, <1>5 DEF Leaves, IsLeft
<1>6. CASE k + 1 > l
  <2>1. HoodFrom(w, k + 1) = End /\ l = k
    BY <1>1, <1>2, <1>6 DEF HoodFrom
  <2>2. ASSUME NEW q \in QueueIds, InReach(w, q)  PROVE Leaves(w, p, q)
    <3>1. q[2] \in Indices /\ (q[1] = "queues" \/ q[1] = "alt_queues")
      BY QueueFacts DEF Main, Alt
    <3>2. CASE NodeOf(q[2]) \in Reachable(arch, node(w))
      <4>1. PICK d \in 1 .. arch.diameter : NodeOf(q[2]) \in Around(w, d)
        BY <3>2 DEF Reachable, Around
      <4>2. \E j \in 1 .. l : Hood(w)[j].queue = q[2]
        BY <1>1, <3>1, <4>1 DEF IsWalk
      <4>3. QED
        BY <1>4, <2>1, <4>2
    <3>3. QED
      BY <1>5, <2>2, <3>1, <3>2 DEF InReach
  <2>3. QED
    BY <1>3, <2>1, <2>2 DEF Follows
<1>7. CASE ~(k + 1 > l)
  <2>1. PICK n : n = HoodFrom(w, k + 1) /\ n = At("hood", k + 1)
    BY <1>1, <1>7 DEF HoodFrom
  <2>2. n # End /\ n.part = "hood" /\ n.n = k + 1 /\ k + 1 \in 1 .. l
    BY <1>2, <1>7, <2>1, AtIs
  <2>3. IsPlace(w, n)
    BY <1>1, <2>1, <2>2 DEF IsPlace
  <2>4. ASSUME NEW q \in QueueIds, IsLeft(w, n, q)  PROVE Leaves(w, p, q)
    <3>1. \/ q[1] = "alt_queues" \/ NodeOf(q[2]) = node(w)
          \/ \E j \in 1 .. (k + 1) - 1 : q[2] = Hood(w)[j].queue
      BY <2>2, <2>4 DEF IsLeft
    <3>2. (k + 1) - 1 = k
      BY <1>2
    <3>3. QED
      BY <1>4, <1>5, <3>1, <3>2
  <2>5. QED
    BY <1>3, <2>1, <2>2, <2>3, <2>4 DEF Follows
<1>8. QED
  BY <1>6, <1>7

\* The loop of pop_numa over the alternate queues, after the two queues of the node.
LEMMA NextOfNuma ==
    ASSUME setup \in Setups, pol = "numa", NEW w \in Workers, NEW n \in Indices,
           NEW p, p.part \in {"main", "alts"}, IsPlace(w, p), p.n = n
    PROVE  Follows(w, p, PlaceAfter(w, p))
<1>1. PICK k \in Nat : num_queues = k /\ Indices = 0 .. k - 1 /\ node(w) \in 0 .. k - 1
  BY IndexFacts, SetupFacts DEF Indices
<1>2. PICK m \in 0 .. k - 1 : m = node(w)
  BY <1>1
<1>3. PICK r : r = AltAfter(w, n)
  OBVIOUS
<1>4. \/ r = End /\ \A i \in 0 .. k - 1 : i = n \/ Behind(m, n, i)
      \/ /\ r = At("alts", r.n) /\ r.n \in 0 .. k - 1 /\ r.n # m
         /\ \A i \in 0 .. k - 1 : Behind(m, r.n, i) <=> i = n \/ Behind(m, n, i)
  BY <1>1, <1>2, <1>3, AltsGoRound
<1>5. PlaceAfter(w, p) = IF r = End THEN HoodFrom(w, 1) ELSE r
  BY <1>3, SetupFacts DEF PlaceAfter, Central
<1>6. \A i \in 0 .. k - 1 : ~Behind(m, m, i) \* nothing yet
  BY DEF Behind
<1>7. ~Passed(w, p) /\ QueueAt(w, p) = IF p.part = "main" THEN Main(m) ELSE Alt(n)
  BY <1>2 DEF Passed, QueueAt, IsPlace, At
<1>8. p.part = "main" => n = m
  BY <1>2 DEF IsPlace
<1>9. Leaves(w, p, Main(m))
  BY <1>2, <1>7 DEF Leaves, IsLeft
<1>10. Leaves(w, p, Alt(m))
  <2>1. CASE p.part = "main"
    BY <1>2, <2>1 DEF Leaves, IsLeft
  <2>2. CASE p.part = "alts"
    <3>1. n # m /\ Behind(m, n, m)
      BY <1>1, <1>2, <2>2 DEF IsPlace, Behind
    <3>2. QED
      BY <1>2, <2>2, <3>1 DEF Leaves, IsLeft, Alt
  <2>3. QED
    BY <2>1, <2>2
<1>11. ASSUME NEW i \in 0 .. k - 1, i = n \/ Behind(m, n, i)  PROVE Leaves(w, p, Alt(i))
  <2>1. CASE p.part = "main"
    BY <1>6, <1>8, <1>10, <1>11, <2>1
  <2>2. CASE p.part = "alts"
    <3>1. CASE i = n
      BY <1>7, <2>2, <3>1 DEF Leaves
    <3>2. CASE Behind(m, n, i)
      BY <1>2, <2>2, <3>2 DEF Leaves, IsLeft, Alt
    <3>3. QED
      BY <1>11, <3>1, <3>2
  <2>3. QED
    BY <2>1, <2>2
<1>12. CASE r = End
  <2>1. \A i \in 0 .. k - 1 : Leaves(w, p, Alt(i))
    BY <1>4, <1>11, <1>12, AtIs
  <2>2. ASSUME NEW q \in QueueIds, q[1] = "alt_queues" \/ NodeOf(q[2]) = node(w)
        PROVE  Leaves(w, p, q)
    <3>1. q[2] \in 0 .. k - 1 /\ (q = Main(q[2]) \/ q = Alt(q[2]))
      BY <1>1, QueueFacts
    <3>2. q = Main(q[2]) => q[2] = m
      BY <1>2, <2>2 DEF Main, NodeOf
    <3>3. QED
      BY <1>9, <2>1, <3>1, <3>2
  <2>3. QED
    BY <1>5, <1>12, <2>2, HoodFollows DEF HoodPolicies
<1>13. CASE r # End
  <2>1. /\ r = At("alts", r.n) /\ r.n \in 0 .. k - 1 /\ r.n # m /\ r.part = "alts"
        /\ \A i \in 0 .. k - 1 : Behind(m, r.n, i) <=> i = n \/ Behind(m, n, i)
    BY <1>4, <1>13, AtIs
  <2>2. IsPlace(w, r)
    BY <1>1, <1>2, <2>1 DEF IsPlace
  <2>3. ASSUME NEW q \in QueueIds, IsLeft(w, r, q)  PROVE Leaves(w, p, q)
    <3>1. q[2] \in 0 .. k - 1 /\ (q = Main(q[2]) \/ q = Alt(q[2]))
      BY <1>1, QueueFacts
    <3>2. q = Main(m) \/ (q[1] = "alt_queues" /\ Behind(m, r.n, q[2]))
      BY <1>2, <2>1, <2>3 DEF IsLeft
    <3>3. q[1] = "alt_queues" => q = Alt(q[2])
      BY <3>1 DEF Main
    <3>4. QED
      BY <1>9, <1>11, <2>1, <3>1, <3>2, <3>3
  <2>4. QED
    BY <1>5, <1>13, <2>2, <2>3 DEF Follows
<1>14. QED
  BY <1>12, <1>13

\* The ring of the other policies, and the neighbourhood that pop_ws_de_node adds.
LEMMA NextOnRing ==
    ASSUME setup \in Setups, pol # "numa", NEW w \in Workers, NEW n \in Indices,
           NEW p, p = At("ring", n)
    PROVE  Follows(w, p, PlaceAfter(w, p))
<1>1. /\ p.part = "ring" /\ p.n = n /\ QueueAt(w, p) = Main(n)
      /\ (Passed(w, p) <=> Passed(w, At("ring", n)))
  BY AtIs DEF QueueAt
<1>2. \A q \in QueueIds : q[2] \in Indices /\ q = Main(q[2])
  BY QueueFacts
<1>3. ASSUME NEW q \in QueueIds, q[2] = n \/ Behind(Start(w), n, q[2]), ~Passed(w, At("ring", q[2]))
      PROVE  Leaves(w, p, q)
  BY <1>1, <1>2, <1>3 DEF Leaves, IsLeft
<1>4. CASE pol \in Central
  <2>1. PlaceAfter(w, p) = End
    BY <1>1, <1>4 DEF PlaceAfter, Central
  <2>2. Indices = {n}
    BY <1>4, IndexFacts DEF Indices
  <2>3. \A q \in QueueIds : ~Passed(w, At("ring", q[2]))
    BY <1>4 DEF Passed, Central
  <2>4. QED
    BY <1>2, <1>3, <2>1, <2>2, <2>3 DEF Follows
<1>5. CASE pol \notin Central
  <2>1. PICK k \in Nat : num_queues = k /\ Indices = 0 .. k - 1 /\ Workers = 0 .. k - 1
    BY <1>5, IndexFacts, SetupFacts DEF Indices
  <2>2. PICK r : r = RingAfter(w, n)
    OBVIOUS
  <2>3. \/ r = End /\ \A i \in Indices : i = n \/ Behind(w, n, i)
        \/ /\ r = At("ring", r.n) /\ r.n \in Indices
           /\ \A i \in Indices : Behind(w, r.n, i) <=> i = n \/ Behind(w, n, i)
    BY <2>1, <2>2, RingGoesRound
  <2>4. PlaceAfter(w, p) = IF r = End /\ pol = "ws-de-node" THEN HoodFrom(w, 1) ELSE r
    BY <1>1, <1>5, <2>2 DEF PlaceAfter
  <2>5. Start(w) = w
    BY <1>5 DEF Start
  <2>6. CASE r # End
    <3>1. /\ r = At("ring", r.n) /\ r.n \in Indices /\ r.part = "ring"
          /\ \A i \in Indices : Behind(w, r.n, i) <=> i = n \/ Behind(w, n, i)
      BY <2>3, <2>6, AtIs
    <3>2. IsPlace(w, r)
      BY <3>1 DEF IsPlace
    <3>3. ASSUME NEW q \in QueueIds, IsLeft(w, r, q)  PROVE Leaves(w, p, q)
      <4>1. Behind(w, r.n, q[2]) /\ ~Passed(w, At("ring", q[2]))
        BY <2>5, <3>1, <3>3 DEF IsLeft
      <4>2. QED
        BY <1>2, <1>3, <2>5, <3>1, <4>1
    <3>4. QED
      BY <2>4, <2>6, <3>2, <3>3 DEF Follows
  <2>7. CASE r = End
    <3>1. \A i \in Indices : i = n \/ Behind(w, n, i)
      BY <2>3, <2>7, AtIs
    <3>2. \A q \in QueueIds : ~Passed(w, At("ring", q[2])) => Leaves(w, p, q)
      BY <1>2, <1>3, <2>5, <3>1
    <3>3. CASE pol = "ws-de-node"
      <4>1. ASSUME NEW q \in QueueIds, q[1] = "alt_queues" \/ NodeOf(q[2]) = node(w)
            PROVE  Leaves(w, p, q)
        <5>1. q[1] = "queues"
          BY <1>2 DEF Main
        <5>2. ~Passed(w, At("ring", q[2]))
          BY <3>3, <4>1, <5>1, AtIs DEF Passed, NodeOf
        <5>3. QED
          BY <3>2, <5>2
      <4>2. QED
        BY <2>4, <2>7, <3>3, <4>1, HoodFollows DEF HoodPolicies
    <3>4. CASE pol # "ws-de-node"
      BY <2>4, <2>7, <3>2, <3>4 DEF Follows, Passed
    <3>5. QED
      BY <3>3, <3>4
  <2>8. QED
    BY <2>6, <2>7
<1>6. QED
  BY <1>4, <1>5

LEMMA PlaceFollows ==
    ASSUME setup \in Setups, NEW w \in Workers, NEW p, IsPlace(w, p)
    PROVE  Follows(w, p, PlaceAfter(w, p))
<1>1. CASE pol # "numa" /\ p.part = "ring" /\ p.n \in Indices
  BY <1>1, NextOnRing DEF IsPlace
<1>2. CASE pol \in HoodPolicies /\ p.part = "hood" /\ p.n \in 1 .. Len(Hood(w))
  BY <1>2, NextInHood DEF IsPlace
<1>3. node(w) \in Nodes(arch) /\ (pol = "numa" => node(w) \in Indices)
  BY SetupFacts, IndexFacts
<1>4. CASE pol = "numa" /\ p.part \in {"main", "alts"}
  BY <1>3, <1>4, NextOfNuma DEF IsPlace
<1>5. CASE pol = "numa" /\ p.part = "alt" /\ p.n = node(w)
  <2>1. PICK m : m = node(w) /\ p = At("alt", m)
    BY <1>5 DEF IsPlace
  <2>2. PlaceAfter(w, p) = At("main", m) /\ QueueAt(w, p) = Alt(m) /\ ~Passed(w, p)
    BY <1>5, <2>1 DEF PlaceAfter, QueueAt, Passed
  <2>3. PICK n : n = At("main", m) /\ n.part = "main" /\ n.n = m /\ n # End
    BY AtIs
  <2>4. IsPlace(w, n)
    BY <1>5, <2>1, <2>3 DEF IsPlace
  <2>5. \A q \in QueueIds : IsLeft(w, n, q) => q = Alt(m)
    BY <2>1, <2>3 DEF IsLeft
  <2>6. QED
    BY <2>2, <2>3, <2>4, <2>5 DEF Follows, Leaves
<1>6. QED
  BY <1>1, <1>2, <1>4, <1>5 DEF IsPlace

\* A search begins with nothing behind it.
LEMMA FirstIs ==
    ASSUME setup \in Setups, NEW w \in Workers
    PROVE  IsPlace(w, FirstPlace(w)) /\ \A q \in QueueIds : ~IsLeft(w, FirstPlace(w), q)
<1>1. CASE pol = "numa"
  <2>1. FirstPlace(w) = At("alt", node(w))
    BY <1>1 DEF FirstPlace
  <2>2. QED
    BY <1>1, <2>1, AtIs DEF IsPlace, IsLeft
<1>2. CASE pol # "numa"
  <2>1. FirstPlace(w) = At("ring", Start(w)) /\ Start(w) \in Indices
    <3>1. CASE pol \in Central
      BY <1>2, <3>1, IndexFacts DEF FirstPlace, Start, Indices
    <3>2. CASE pol \notin Central
      BY <1>2, <3>2, IndexFacts DEF FirstPlace, Start
    <3>3. QED
      BY <3>1, <3>2
  <2>2. PICK p : p = FirstPlace(w) /\ p.part = "ring" /\ p.n = Start(w) /\ p = At("ring", Start(w))
    BY <2>1, AtIs
  <2>3. \A i \in Indices : ~Behind(Start(w), Start(w), i)
    BY <2>1, SetupFacts DEF Behind, Indices
  <2>4. \A q \in QueueIds : ~IsLeft(w, p, q)
    BY <2>2, <2>3, QueueFacts DEF IsLeft
  <2>5. IsPlace(w, p)
    BY <1>2, <2>1, <2>2 DEF IsPlace
  <2>6. QED
    BY <2>2, <2>4, <2>5
<1>3. QED
  BY <1>1, <1>2

\* The neighbourhood has every nearer queue at an earlier place.
LEMMA HoodNear ==
    ASSUME setup \in Setups, pol \in HoodPolicies, NEW w \in Workers, NEW b, IsWalk(w, b),
           NEW k \in 1 .. Len(Hood(w)), NEW i \in Indices, NodeOf(i) # node(w),
           Hops(node(w), NodeOf(i)) < b[k]
    PROVE  \E j \in 1 .. k - 1 : i = Hood(w)[j].queue
<1>1. PICK l \in Nat : l = Len(Hood(w))
  BY HoodIs
<1>2. PICK m, n \in Nodes(arch) : m = node(w) /\ n = NodeOf(i) /\ m # n
  BY SetupFacts, NodeFacts
<1>3. b[k] \in 1 .. arch.diameter /\ arch.diameter \in Nat
  BY SetupFacts DEF IsWalk, TableTypes
<1>4. PICK h : h = Hops(m, n) /\ h \in 0 .. arch.diameter
  BY <1>2, HopFacts
<1>5. h < b[k] /\ h < arch.diameter
  BY <1>2, <1>3, <1>4
<1>6. h \in 1 .. arch.diameter /\ n \in ToSet(arch.vicinity_of[m][h])
  BY <1>2, <1>4, <1>5, HopFacts
<1>7. NodeOf(i) \in Around(w, h)
  BY <1>2, <1>6 DEF Around
<1>8. PICK j \in 1 .. l : Hood(w)[j].queue = i /\ b[j] = h
  BY <1>1, <1>6, <1>7 DEF IsWalk
<1>9. k <= j => b[k] <= b[j]
  BY <1>1, <1>8 DEF IsWalk
<1>10. ~(k <= j) /\ k \in 1 .. l
  BY <1>1, <1>3, <1>5, <1>6, <1>8, <1>9
<1>11. j \in 1 .. k - 1
  BY <1>10
<1>12. QED
  BY <1>8, <1>11

\* The queue at a place of the neighbourhood is at most as far as it is taken to be.
LEMMA HoodSpot ==
    ASSUME setup \in Setups, pol \in HoodPolicies, NEW w \in Workers, NEW b, IsWalk(w, b),
           NEW k \in 1 .. Len(Hood(w)), NEW i, i = Hood(w)[k].queue
    PROVE  /\ i \in Indices /\ b[k] \in 1 .. arch.diameter /\ Hood(w)[k].limit = Spare(b[k])
           /\ Hops(node(w), NodeOf(i)) \in 0 .. b[k]
<1>1. /\ i \in Indices /\ b[k] \in 1 .. arch.diameter /\ Hood(w)[k].limit = Spare(b[k])
      /\ NodeOf(i) \in Around(w, b[k])
  BY DEF IsWalk, Spots
<1>2. PICK m, n \in Nodes(arch) : m = node(w) /\ n = NodeOf(i)
  BY <1>1, SetupFacts, NodeFacts
<1>3. Hops(m, n) \in 0 .. arch.diameter /\ Hops(m, n) <= b[k]
  BY <1>1, <1>2, HopFacts DEF Around
<1>4. arch.diameter \in Nat
  BY SetupFacts DEF TableTypes
<1>5. PICK h, d : h = Hops(m, n) /\ d = b[k]
  OBVIOUS
<1>6. h \in 0 .. d
  BY <1>1, <1>3, <1>4, <1>5
<1>7. QED
  BY <1>1, <1>2, <1>5, <1>6

\* What queues may keep is a number, nothing at the worker's own node.
LEMMA SparedFacts ==
    ASSUME setup \in Setups, NEW w \in Workers
    PROVE  /\ \A q \in QueueIds : Spared(w, q) \in Nat
           /\ \A i : Spared(w, Alt(i)) = 0
           /\ pol # "numa" => \A q : Spared(w, q) = 0
           /\ pol = "numa" => \A i : Spared(w, Main(i)) = Spare(Hops(node(w), i))
<1>1. \A i : Spared(w, Alt(i)) = 0
  BY DEF Spared, Alt
<1>2. pol # "numa" => \A q : Spared(w, q) = 0
  BY DEF Spared
<1>3. pol = "numa" => \A i : Spared(w, Main(i)) = Spare(Hops(node(w), i))
  BY DEF Spared, Main, Spare
<1>4. ASSUME NEW q \in QueueIds  PROVE Spared(w, q) \in Nat
  <2>1. CASE pol = "numa" /\ q = Main(q[2])
    <3>1. PICK m, n \in Nodes(arch) : m = node(w) /\ n = q[2]
      BY <2>1, SetupFacts, QueueFacts, IndexFacts
    <3>2. Hops(m, n) \in 0 .. arch.diameter /\ arch.diameter \in Nat
      BY HopFacts, SetupFacts DEF TableTypes
    <3>3. PICK h \in Nat : h = Hops(m, n)
      BY <3>2
    <3>4. Spare(h) \in Nat
      BY SpareFacts
    <3>5. QED
      BY <1>3, <2>1, <3>1, <3>3, <3>4
  <2>2. QED
    BY <1>1, <1>2, <2>1, QueueFacts
<1>5. QED
  BY <1>1, <1>2, <1>3, <1>4

\* A queue is passed over with what it may keep, or has been left behind before.
LEMMA HereIs ==
    ASSUME setup \in Setups, NEW w \in Workers, NEW p, IsPlace(w, p)
    PROVE  /\ QueueAt(w, p) \in QueueIds
           /\ LimitAt(w, p) = Spared(w, QueueAt(w, p)) \/ IsLeft(w, p, QueueAt(w, p))
<1>1. CASE pol # "numa" /\ p.part = "ring" /\ p.n \in Indices
  <2>1. QueueAt(w, p) = Main(p.n) /\ LimitAt(w, p) = 0
    BY <1>1 DEF QueueAt, LimitAt
  <2>2. QED
    BY <1>1, <2>1, QueueFacts, SparedFacts
<1>2. CASE pol = "numa" /\ p.part \in {"alt", "alts"}
  <2>1. QueueAt(w, p) = Alt(p.n) /\ LimitAt(w, p) = 0
    BY <1>2 DEF QueueAt, LimitAt
  <2>2. p.n \in Indices
    BY <1>2, IndexFacts, SetupFacts DEF IsPlace, HoodPolicies
  <2>3. QED
    BY <1>2, <2>1, <2>2, QueueFacts, SparedFacts
<1>3. CASE pol = "numa" /\ p.part = "main"
  <2>1. PICK m \in Nodes(arch) : m = node(w)
    BY SetupFacts
  <2>2. QueueAt(w, p) = Main(m) /\ LimitAt(w, p) = 0 /\ m \in Indices
    BY <1>3, <2>1, IndexFacts DEF QueueAt, LimitAt, IsPlace
  <2>3. Hops(m, m) = 0
    BY HopFacts
  <2>4. Spared(w, Main(m)) = 0
    BY <1>3, <2>1, <2>3, SparedFacts, SpareFacts
  <2>5. QED
    BY <2>2, <2>4, QueueFacts
<1>4. CASE pol \in HoodPolicies /\ p.part = "hood" /\ p.n \in 1 .. Len(Hood(w))
  <2>1. PICK k, i : k = p.n /\ i = Hood(w)[k].queue
    OBVIOUS
  <2>2. PICK b : IsWalk(w, b)
    BY <1>4, HoodIs
  <2>3. k \in 1 .. Len(Hood(w)) /\ QueueAt(w, p) = Main(i) /\ LimitAt(w, p) = Hood(w)[k].limit
    BY <1>4, <2>1 DEF QueueAt, LimitAt
  <2>4. /\ i \in Indices /\ LimitAt(w, p) = Spare(b[k])
        /\ Hops(node(w), NodeOf(i)) \in 0 .. b[k] /\ b[k] \in 1 .. arch.diameter
    BY <1>4, <2>1, <2>2, <2>3, HoodSpot
  <2>5. Main(i) \in QueueIds /\ Main(i)[2] = i
    BY <2>4, QueueFacts DEF Main
  <2>6. CASE pol # "numa"
    BY <2>3, <2>4, <2>5, <2>6, SparedFacts DEF Spare
  <2>7. CASE pol = "numa" /\ Hops(node(w), NodeOf(i)) = b[k]
    BY <2>3, <2>4, <2>5, <2>7, SparedFacts DEF NodeOf
  <2>8. CASE NodeOf(i) = node(w)
    BY <1>4, <2>3, <2>5, <2>8 DEF IsLeft
  <2>9. CASE NodeOf(i) # node(w) /\ Hops(node(w), NodeOf(i)) # b[k]
    <3>1. Hops(node(w), NodeOf(i)) < b[k]
      BY <2>4, <2>9
    <3>2. \E j \in 1 .. k - 1 : i = Hood(w)[j].queue
      BY <1>4, <2>2, <2>3, <2>4, <2>9, <3>1, HoodNear
    <3>3. QED
      BY <1>4, <2>1, <2>3, <2>5, <3>2 DEF IsLeft
  <2>10. QED
    BY <2>6, <2>7, <2>8, <2>9
<1>5. QED
  BY <1>1, <1>2, <1>3, <1>4 DEF IsPlace

\* A search comes to a queue after every nearer one.
LEMMA NearerIsLeft ==
    ASSUME setup \in Setups, NEW w \in Workers, NEW p, IsPlace(w, p), ~Passed(w, p),
           NEW q \in QueueIds, Rank(w, q) < Rank(w, QueueAt(w, p))
    PROVE  IsLeft(w, p, q)
<1>1. q[2] \in Indices /\ (q = Main(q[2]) \/ (pol = "numa" /\ q = Alt(q[2])))
  BY QueueFacts
<1>2. pol \notin Central
  BY DEF Rank
<1>3. CASE pol # "numa" /\ p.part = "ring" /\ p.n \in Indices
  <2>1. PICK n \in Indices : n = p.n /\ p = At("ring", n) /\ QueueAt(w, p) = Main(n)
    BY <1>3 DEF IsPlace, QueueAt
  <2>2. Main(n)[2] = n /\ w \in Indices /\ Start(w) = w
    BY <1>2, <1>3, IndexFacts DEF Main, Start
  <2>3. CASE pol # "ws-de-node"
    <3>1. q[2] = w /\ n # w
      BY <1>2, <1>3, <2>1, <2>2, <2>3 DEF Rank
    <3>2. Behind(w, n, w)
      BY <2>2, <3>1, QueueFacts DEF Behind
    <3>3. ~Passed(w, At("ring", q[2]))
      BY <2>3 DEF Passed
    <3>4. QED
      BY <1>3, <2>1, <2>2, <3>1, <3>2, <3>3 DEF IsLeft
  <2>4. CASE pol = "ws-de-node"
    <3>1. PICK m \in Nodes(arch) : m = node(w) /\ arch.node_of[n] = m /\ arch.node_of[w] = m
      BY <1>3, <2>1, <2>4, NodeFacts, SetupFacts DEF Passed
    <3>2. Hops(m, m) = 0
      BY HopFacts
    <3>3. Rank(w, Main(n)) = IF n = w THEN 0 ELSE 1
      BY <1>2, <2>2, <2>4, <3>1, <3>2 DEF Rank
    <3>4. PICK v \in Nodes(arch) : v = arch.node_of[q[2]]
      BY <1>1, <2>4, NodeFacts DEF NodeOf, HoodPolicies
    <3>5. Hops(m, v) \in 0 .. arch.diameter /\ arch.diameter \in Nat
      BY HopFacts, SetupFacts DEF TableTypes
    <3>6. Rank(w, q) = IF q[2] = w THEN 0 ELSE 1 + Hops(m, v)
      BY <1>2, <2>4, <3>1, <3>4 DEF Rank
    <3>7. PICK h \in Nat : h = Hops(m, v)
      BY <3>5
    <3>8. q[2] = w /\ n # w
      BY <2>1, <3>3, <3>6, <3>7
    <3>9. Behind(w, n, w)
      BY <2>2, <3>8, QueueFacts DEF Behind
    <3>10. ~Passed(w, At("ring", w))
      BY <3>1, AtIs DEF Passed
    <3>11. QED
      BY <1>3, <2>1, <2>2, <3>8, <3>9, <3>10 DEF IsLeft
  <2>5. QED
    BY <2>3, <2>4
<1>4. CASE pol = "numa"
  <2>1. PICK m \in Nodes(arch) : m = node(w)
    BY SetupFacts
  <2>2. /\ \A i : Rank(w, Alt(i)) = IF i = m THEN 0 ELSE 2
        /\ \A i : Rank(w, Main(i)) = IF i = m THEN 1 ELSE 2 + Hops(m, i)
    BY <1>2, <1>4, <2>1 DEF Rank, Main, Alt
  <2>3. \A i \in Indices : Hops(m, i) \in Nat
    BY <1>4, IndexFacts, HopFacts, SetupFacts DEF TableTypes
  <2>4. CASE p.part \in {"alt", "main"} /\ p.n = m
    <3>1. QueueAt(w, p) = IF p.part = "alt" THEN Alt(m) ELSE Main(m)
      BY <2>4 DEF QueueAt
    <3>2. q = Main(q[2]) => Rank(w, q) >= 1
      BY <1>1, <2>2, <2>3
    <3>3. q = Alt(q[2]) => Rank(w, q) \in Nat
      BY <2>2
    <3>4. p.part = "main" /\ q = Alt(m)
      BY <1>1, <2>2, <2>3, <2>4, <3>1, <3>2, <3>3
    <3>5. QED
      BY <2>1, <3>4 DEF IsLeft
  <2>5. CASE p.part = "alts"
    <3>1. QueueAt(w, p) = Alt(p.n) /\ p.n # m /\ p.n \in Indices
      BY <2>1, <2>5 DEF QueueAt, IsPlace
    <3>2. Rank(w, QueueAt(w, p)) = 2
      BY <2>2, <3>1
    <3>3. q[2] = m
      BY <1>1, <2>2, <2>3, <3>2
    <3>4. CASE q = Main(m)
      BY <2>1, <2>5, <3>4 DEF IsLeft
    <3>5. CASE q = Alt(m)
      <4>1. m \in Indices /\ Behind(m, p.n, m)
        BY <1>4, <3>1, IndexFacts, QueueFacts DEF Behind
      <4>2. QED
        BY <2>1, <2>5, <3>5, <4>1 DEF IsLeft, Alt
    <3>6. QED
      BY <1>1, <3>3, <3>4, <3>5
  <2>6. CASE p.part = "hood" /\ p.n \in 1 .. Len(Hood(w))
    <3>1. PICK k, i : k = p.n /\ i = Hood(w)[k].queue /\ QueueAt(w, p) = Main(i)
      BY <2>6 DEF QueueAt
    <3>2. PICK b : IsWalk(w, b)
      BY <1>4, HoodIs DEF HoodPolicies
    <3>3. i \in Indices /\ Hops(m, i) \in 0 .. b[k] /\ b[k] \in Nat
      <4>1. /\ i \in Indices /\ b[k] \in 1 .. arch.diameter
            /\ Hops(node(w), NodeOf(i)) \in 0 .. b[k]
        BY <1>4, <2>6, <3>1, <3>2, HoodSpot DEF HoodPolicies
      <4>2. NodeOf(i) = i /\ arch.diameter \in Nat
        BY <1>4, SetupFacts DEF NodeOf, TableTypes
      <4>3. QED
        BY <2>1, <4>1, <4>2
    <3>4. CASE q = Alt(q[2])
      BY <2>6, <3>4 DEF IsLeft, Alt
    <3>5. CASE q = Main(q[2])
      <4>1. PICK j \in Indices : j = q[2] /\ q = Main(j)
        BY <1>1, <3>5
      <4>2. CASE j = m
        BY <1>4, <2>1, <2>6, <4>1, <4>2 DEF IsLeft, NodeOf
      <4>3. CASE j # m
        <5>1. PICK x, y \in Nat : x = Hops(m, j) /\ y = Hops(m, i)
          BY <2>3, <3>3
        <5>2. Rank(w, q) = 2 + x /\ Rank(w, Main(i)) \in {1, 2 + y}
          BY <2>2, <4>1, <4>3, <5>1
        <5>3. x < b[k]
          BY <3>1, <3>3, <5>1, <5>2
        <5>4. \E l \in 1 .. k - 1 : j = Hood(w)[l].queue
          BY <1>4, <2>1, <2>6, <3>1, <3>2, <4>3, <5>1, <5>3, HoodNear DEF HoodPolicies, NodeOf
        <5>5. QED
          BY <2>6, <3>1, <4>1, <5>4 DEF IsLeft
      <4>4. QED
        BY <4>2, <4>3
    <3>6. QED
      BY <1>1, <3>4, <3>5
  <2>7. QED
    BY <1>4, <2>1, <2>4, <2>5, <2>6 DEF IsPlace
<1>5. CASE pol = "ws-de-node" /\ p.part = "hood" /\ p.n \in 1 .. Len(Hood(w))
  <2>1. PICK m \in Nodes(arch) : m = node(w) /\ w \in Indices /\ NodeOf(w) = m
    BY <1>5, NodeFacts, SetupFacts DEF NodeOf
  <2>2. PICK k, i : k = p.n /\ i = Hood(w)[k].queue /\ QueueAt(w, p) = Main(i) /\ Main(i)[2] = i
    BY <1>5 DEF QueueAt, Main
  <2>3. PICK b : IsWalk(w, b)
    BY <1>5, HoodIs DEF HoodPolicies
  <2>4. i \in Indices /\ Hops(m, NodeOf(i)) \in 0 .. b[k] /\ b[k] \in Nat
    <3>1. /\ i \in Indices /\ b[k] \in 1 .. arch.diameter
          /\ Hops(node(w), NodeOf(i)) \in 0 .. b[k]
      BY <1>5, <2>2, <2>3, HoodSpot DEF HoodPolicies
    <3>2. arch.diameter \in Nat
      BY SetupFacts DEF TableTypes
    <3>3. QED
      BY <2>1, <3>1, <3>2
  <2>5. PICK j \in Indices : j = q[2]
    BY <1>1
  <2>6. CASE NodeOf(j) = m
    BY <1>5, <2>1, <2>5, <2>6 DEF IsLeft
  <2>7. CASE NodeOf(j) # m
    <3>1. NodeOf(j) \in Nodes(arch)
      BY <1>5, NodeFacts DEF HoodPolicies
    <3>2. Hops(m, NodeOf(j)) \in Nat
      BY <3>1, HopFacts, SetupFacts DEF TableTypes
    <3>3. PICK x, y \in Nat : x = Hops(m, NodeOf(j)) /\ y = Hops(m, NodeOf(i))
      BY <2>4, <3>2
    <3>4. j # w
      BY <2>1, <2>7
    <3>5. Rank(w, q) = 1 + x /\ Rank(w, Main(i)) \in {0, 1 + y}
      BY <1>2, <1>5, <2>1, <2>2, <2>5, <3>3, <3>4 DEF Rank, NodeOf
    <3>6. x < b[k]
      BY <2>2, <2>4, <3>3, <3>5
    <3>7. \E l \in 1 .. k - 1 : j = Hood(w)[l].queue
      BY <1>5, <2>1, <2>2, <2>3, <2>7, <3>3, <3>6, HoodNear DEF HoodPolicies
    <3>8. QED
      BY <1>5, <2>2, <2>5, <3>7 DEF IsLeft
  <2>8. QED
    BY <2>6, <2>7
<1>6. QED
  BY <1>3, <1>4, <1>5 DEF IsPlace, HoodPolicies
-----------------------------------------------------------------------------
(* The cheapest node *)

\* What access costs is a number.
LEMMA CostFacts ==
    ASSUME setup \in Setups, NEW dist \in [Nodes(arch) -> Nat], NEW from \in Nodes(arch)
    PROVE  CommCost(arch, dist, from) \in Nat
<1> DEFINE S == Nodes(arch)
           cost == arch.comm_cost_of
           w == [n \in S |-> dist[n] * cost[from, n]]
           part(g, d) == IF d = {} THEN 0
                         ELSE dist[CHOOSE x \in d : TRUE] * cost[from, CHOOSE x \in d : TRUE]
                                + g[d \ {CHOOSE x \in d : TRUE}]
           it == CHOOSE g : g = [d \in SUBSET S |-> part(g, d)]
<1>1. IsFiniteSet(S)
  <2>1. PICK n \in Nat : n = arch.num_nodes
    BY SetupFacts DEF TableTypes
  <2>2. S = 0 .. n - 1
    BY <2>1 DEF Nodes
  <2> HIDE DEF S
  <2>3. QED
    BY <2>1, <2>2, FS_Interval
<1>2. \A x \in S : w[x] \in Nat
  <2>1. ASSUME NEW x \in S  PROVE w[x] \in Nat
    <3>1. PICK a, c \in Nat : a = dist[x] /\ c = cost[from, x]
      BY SetupFacts DEF TableTypes
    <3>2. a * c \in Nat
      OBVIOUS
    <3>3. QED
      BY <3>1, <3>2
  <2>2. QED
    BY <2>1
<1>3. ASSUME NEW g, NEW d \in SUBSET S  PROVE SumOf(g, w, d) = part(g, d)
  <2>1. CASE d = {}
    BY <2>1 DEF SumOf
  <2>2. CASE d # {}
    <3>1. Chosen(d) \in S /\ Chosen(d) = CHOOSE x \in d : TRUE
      BY <2>2 DEF Chosen
    <3>2. w[Chosen(d)] = dist[Chosen(d)] * cost[from, Chosen(d)]
      BY <3>1
    <3> HIDE DEF w, cost
    <3>3. QED
      BY <2>2, <3>1, <3>2 DEF SumOf
  <2>3. QED
    BY <2>1, <2>2
<1>4. PICK f : IsSum(f, w, S)
  BY <1>1, SumExists
<1>5. f = [d \in SUBSET S |-> part(f, d)]
  <2> HIDE DEF part, w, S
  <2>1. QED
    BY <1>3, <1>4 DEF IsSum
<1>6. it = [d \in SUBSET S |-> part(it, d)]
  BY <1>5
<1>7. CommCost(arch, dist, from) = it[S]
  BY DEF CommCost, MapThenSumSet, MapThenFoldSet
<1>8. IsSum(it, w, S)
  <2>1. \A d \in SUBSET S : part(it, d) = SumOf(it, w, d)
    BY <1>3
  <2> HIDE DEF it, part, w, S
  <2>2. [d \in SUBSET S |-> part(it, d)] = [d \in SUBSET S |-> SumOf(it, w, d)]
    BY <2>1
  <2>3. QED
    BY <1>6, <2>2 DEF IsSum
<1> HIDE DEF it, w, S
<1>9. it[S] \in Nat
  <2>1. \A d \in SUBSET S : it[d] \in Nat
    BY <1>1, <1>2, <1>8, SumFacts
  <2>2. QED
    BY <2>1
<1>10. QED
  BY <1>7, <1>9

\* The circle of push_numa meets every worker.
LEMMA CircleIs ==
    ASSUME setup \in Setups, NEW from \in Workers
    PROVE  /\ num_workers \in Nat \ {0} /\ Circle(from) \in [1 .. num_workers -> Workers]
           /\ \A v \in Workers : \E k \in 1 .. num_workers : Circle(from)[k] = v
<1>1. PICK n \in Nat : n = num_workers /\ Workers = 0 .. n - 1
  BY SetupFacts DEF Workers
<1>2. PICK f \in Nat : f = from /\ f < n
  BY <1>1
<1>3. n # 0 /\ Circle(from) = [k \in 1 .. n |-> (f + k - 1) % n]
  BY <1>1, <1>2 DEF Circle
<1>4. \A k \in 1 .. n : (f + k - 1) % n = IF f + k - 1 < n THEN f + k - 1 ELSE f + k - 1 - n
  <2>1. ASSUME NEW k \in 1 .. n
        PROVE  (f + k - 1) % n = IF f + k - 1 < n THEN f + k - 1 ELSE f + k - 1 - n
    <3>1. PICK x \in 0 .. 2 * n - 1 : x = f + k - 1
      BY <1>2
    <3>2. n \in Nat \ {0}
      BY <1>3
    <3>3. x % n = IF x < n THEN x ELSE x - n
      BY <3>2, WrapIs
    <3>4. QED
      BY <3>1, <3>3
  <2>2. QED
    BY <2>1
<1>5. PICK c : c = Circle(from)
  OBVIOUS
<1>6. \A k \in 1 .. n : c[k] = IF f + k - 1 < n THEN f + k - 1 ELSE f + k - 1 - n
  BY <1>3, <1>4, <1>5
<1>7. c \in [1 .. n -> 0 .. n - 1]
  <2>1. \A k \in 1 .. n : c[k] \in 0 .. n - 1
    BY <1>2, <1>6
  <2>2. c = [k \in 1 .. n |-> c[k]]
    BY <1>3, <1>5
  <2>3. QED
    BY <2>1, <2>2
<1>8. ASSUME NEW v \in 0 .. n - 1  PROVE \E k \in 1 .. n : c[k] = v
  <2>1. CASE v >= f
    <3>1. PICK k \in 1 .. n : k = v - f + 1
      BY <1>2, <2>1
    <3>2. f + k - 1 = v /\ v < n
      BY <1>2, <3>1
    <3>3. QED
      BY <1>6, <3>2
  <2>2. CASE v < f
    <3>1. v - f + 1 + n \in 1 .. n /\ f + (v - f + 1 + n) - 1 = v + n
      BY <1>2, <2>2
    <3>2. ~(v + n < n) /\ v + n - n = v
      OBVIOUS
    <3>3. c[v - f + 1 + n] = v
      BY <1>6, <3>1, <3>2
    <3>4. QED
      BY <3>1, <3>3
  <2>3. QED
    BY <1>2, <2>1, <2>2
<1>9. QED
  BY <1>1, <1>3, <1>5, <1>7, <1>8

\* One worker asked, in the circle of push_numa.
Asked == [prev_node : Nat, cost : Nat, worker : Workers \cup {-1}]
Unasked == [prev_node |-> arch.num_nodes + 1, cost |-> 0, worker |-> -1]
Ask(dist, st, v) ==
    IF node(v) = st.prev_node THEN st
    ELSE IF st.worker = -1 \/ CommCost(arch, dist, node(v)) < st.cost
    THEN [prev_node |-> node(v), cost |-> CommCost(arch, dist, node(v)), worker |-> v]
    ELSE [st EXCEPT !.prev_node = node(v)]

\* After k workers of ws, st names the cheapest of them.
IsCheapest(dist, ws, st, k) ==
    /\ st \in Asked /\ st.worker \in Workers /\ st.prev_node = node(ws[k])
    /\ st.cost = CommCost(arch, dist, node(st.worker))
    /\ \A j \in 1 .. k : st.cost <= CommCost(arch, dist, node(ws[j]))

LEMMA AskIs ==
    ASSUME setup \in Setups, NEW dist \in [Nodes(arch) -> Nat], NEW ws,
           NEW k \in Nat, \A j \in 1 .. k + 1 : ws[j] \in Workers,
           NEW st, IF k = 0 THEN st = Unasked ELSE IsCheapest(dist, ws, st, k)
    PROVE  IsCheapest(dist, ws, Ask(dist, st, ws[k + 1]), k + 1)
<1>1. PICK v \in Workers : v = ws[k + 1]
  OBVIOUS
<1>2. PICK n \in Nodes(arch) : n = node(v)
  BY SetupFacts
<1>3. PICK c \in Nat : c = CommCost(arch, dist, n)
  BY CostFacts
<1>4. n \in Nat /\ n # arch.num_nodes + 1 /\ arch.num_nodes + 1 \in Nat /\ -1 \notin Workers
  <2>1. PICK m \in Nat : m = arch.num_nodes
    BY SetupFacts DEF TableTypes
  <2>2. n \in 0 .. m - 1
    BY <2>1 DEF Nodes
  <2>3. -1 \notin Workers
    BY SetupFacts DEF Workers
  <2>4. QED
    BY <2>1, <2>2, <2>3
<1>5. PICK e : e = Ask(dist, st, v)
  OBVIOUS
<1>6. CASE k = 0
  <2>1. e = [prev_node |-> n, cost |-> c, worker |-> v]
    BY <1>2, <1>3, <1>4, <1>5, <1>6 DEF Ask, Unasked
  <2>2. e \in Asked
    BY <1>4, <2>1 DEF Asked
  <2>3. \A j \in 1 .. 1 : j = 1
    OBVIOUS
  <2>4. IsCheapest(dist, ws, e, 1)
    BY <1>1, <1>2, <1>3, <1>6, <2>1, <2>2, <2>3 DEF IsCheapest
  <2>5. QED
    BY <1>1, <1>5, <1>6, <2>4
<1>7. CASE k # 0
  <2>1. /\ st \in Asked /\ st.worker \in Workers /\ st.prev_node = node(ws[k])
        /\ st.cost = CommCost(arch, dist, node(st.worker)) /\ st.cost \in Nat
        /\ \A j \in 1 .. k : st.cost <= CommCost(arch, dist, node(ws[j]))
    BY <1>7 DEF IsCheapest, Asked
  <2>2. e = IF n = st.prev_node THEN st
            ELSE IF c < st.cost THEN [prev_node |-> n, cost |-> c, worker |-> v]
            ELSE [st EXCEPT !.prev_node = n]
    BY <1>2, <1>3, <1>4, <1>5, <2>1 DEF Ask
  <2>3. \A j \in 1 .. k + 1 : j = k + 1 \/ j \in 1 .. k
    OBVIOUS
  <2>4. PICK x, y : x = k + 1 /\ y = ws[x]
    OBVIOUS
  <2>5. \A j \in 1 .. k : CommCost(arch, dist, node(ws[j])) \in Nat
    <3>1. ASSUME NEW j \in 1 .. k  PROVE node(ws[j]) \in Nodes(arch)
      BY SetupFacts
    <3>2. QED
      BY <3>1, CostFacts
  <2>6. ASSUME e \in Asked, e.worker \in Workers, e.prev_node = n,
               e.cost = CommCost(arch, dist, node(e.worker)), e.cost <= c, e.cost <= st.cost
        PROVE  IsCheapest(dist, ws, e, k + 1)
    <3>1. e.cost \in Nat
      BY <2>6 DEF Asked
    <3>2. \A j \in 1 .. k : e.cost <= CommCost(arch, dist, node(ws[j]))
      BY <2>1, <2>5, <2>6, <3>1
    <3>3. \A j \in 1 .. x : e.cost <= CommCost(arch, dist, node(ws[j]))
      BY <1>1, <1>2, <1>3, <2>3, <2>4, <2>6, <3>2
    <3>4. IsCheapest(dist, ws, e, x)
      BY <1>1, <1>2, <2>4, <2>6, <3>3 DEF IsCheapest
    <3>5. QED
      BY <2>4, <3>4
  <2>7. CASE n = st.prev_node
    <3>1. c = CommCost(arch, dist, node(ws[k])) /\ k \in 1 .. k
      BY <1>3, <1>7, <2>1, <2>7
    <3>2. e = st /\ st.cost <= c /\ st.cost <= st.cost
      BY <2>1, <2>2, <2>7, <3>1
    <3>3. QED
      BY <1>1, <1>5, <2>1, <2>6, <2>7, <3>2
  <2>8. CASE n # st.prev_node /\ c < st.cost
    <3>1. e = [prev_node |-> n, cost |-> c, worker |-> v]
      BY <2>2, <2>8
    <3>2. e \in Asked /\ e.worker = v /\ e.prev_node = n /\ e.cost = c
      BY <1>4, <3>1 DEF Asked
    <3>3. c <= c /\ c <= st.cost
      BY <2>1, <2>8
    <3>4. QED
      BY <1>1, <1>2, <1>3, <1>5, <2>6, <3>2, <3>3
  <2>9. CASE n # st.prev_node /\ ~(c < st.cost)
    <3>1. e = [st EXCEPT !.prev_node = n]
      BY <2>2, <2>9
    <3>2. e \in Asked /\ e.worker = st.worker /\ e.prev_node = n /\ e.cost = st.cost
      BY <1>4, <2>1, <3>1 DEF Asked
    <3>3. st.cost <= c /\ st.cost <= st.cost
      BY <2>1, <2>9
    <3>4. QED
      BY <1>1, <1>5, <2>1, <2>6, <3>2, <3>3
  <2>10. QED
    BY <2>7, <2>8, <2>9
<1>8. QED
  BY <1>6, <1>7

\* push_numa finds a worker on the node with the least cost, wherever it begins.
LEMMA CheapestIs ==
    ASSUME setup \in Setups, NEW dist \in [Nodes(arch) -> Nat], NEW from \in Workers
    PROVE  /\ LeastCostWorker(dist, from) \in Workers
           /\ \A v \in Workers : CommCost(arch, dist, node(LeastCostWorker(dist, from)))
                                    <= CommCost(arch, dist, node(v))
<1> DEFINE s == Circle(from)
           part(h, d) == IF d = {} THEN Unasked ELSE Ask(dist, h[d \ {Max(d)}], s[Max(d)])
           it == CHOOSE h : h = [d \in SUBSET (DOMAIN s) |-> part(h, d)]
           F == [x \in Asked \X (1 .. num_workers) |-> Ask(dist, x[1], s[x[2]])]
<1>1. PICK n \in Nat \ {0} : n = num_workers
  BY CircleIs
<1>2. LeastCostWorker(dist, from) = it[DOMAIN s].worker
  BY DEF LeastCostWorker, Cheapest, FoldLeft, MapThenFoldSet, Ask, Unasked
<1>3. /\ s \in [1 .. n -> Workers] /\ DOMAIN s = 1 .. n
      /\ \A v \in Workers : \E k \in 1 .. n : s[k] = v
  BY <1>1, CircleIs
<1> HIDE DEF s
<1>4. Unasked \in Asked
  BY SetupFacts DEF Unasked, Asked, TableTypes
<1>5. ASSUME NEW st \in Asked, NEW k \in 1 .. n
      PROVE  F[<<st, k>>] = Ask(dist, st, s[k]) /\ F[<<st, k>>] \in Asked
  <2>1. F[<<st, k>>] = Ask(dist, st, s[k])
    BY <1>1
  <2>2. PICK v \in Workers : v = s[k]
    BY <1>3
  <2>3. PICK m \in Nodes(arch) : m = node(v) /\ m \in Nat
    BY SetupFacts DEF Nodes
  <2>4. PICK c \in Nat : c = CommCost(arch, dist, m)
    BY CostFacts
  <2>5. Ask(dist, st, v) \in
            {st, [prev_node |-> m, cost |-> c, worker |-> v], [st EXCEPT !.prev_node = m]}
    BY <2>3, <2>4 DEF Ask
  <2>6. Ask(dist, st, v) \in Asked
    BY <2>3, <2>5 DEF Asked
  <2>7. QED
    BY <2>1, <2>2, <2>6
<1> HIDE DEF F
<1>6. PICK h : IsFold(h, F, Unasked, n)
  BY FoldExists
<1>7. \A d \in SUBSET (1 .. n) : h[d] \in Asked
  BY <1>4, <1>5, <1>6, FoldStays
<1>8. ASSUME NEW d \in SUBSET (1 .. n)  PROVE FoldOf(h, F, Unasked, d) = part(h, d)
  <2>1. CASE d = {}
    BY <2>1 DEF FoldOf
  <2>2. CASE d # {}
    <3>1. PICK e, x : e = d \ {Max(d)} /\ x = Max(d)
      OBVIOUS
    <3>2. x \in 1 .. n /\ e \in SUBSET (1 .. n)
      BY <2>2, <3>1, RestIs
    <3>3. F[<<h[e], x>>] = Ask(dist, h[e], s[x])
      BY <1>5, <1>7, <3>2
    <3>4. QED
      BY <2>2, <3>1, <3>3 DEF FoldOf
  <2>3. QED
    BY <2>1, <2>2
<1>9. h = [d \in SUBSET (DOMAIN s) |-> part(h, d)]
  <2> HIDE DEF part
  <2>1. [d \in SUBSET (1 .. n) |-> part(h, d)] = [d \in SUBSET (1 .. n) |-> FoldOf(h, F, Unasked, d)]
    BY <1>8
  <2>2. QED
    BY <1>3, <1>6, <2>1 DEF IsFold
<1>10. it = [d \in SUBSET (DOMAIN s) |-> part(it, d)]
  BY <1>9
<1> HIDE DEF it
<1>11. ASSUME NEW k \in 1 .. n
       PROVE  it[1 .. k] = Ask(dist, it[1 .. k - 1], s[k])
  <2>1. PICK d, e : d = 1 .. k /\ e = 1 .. k - 1
    OBVIOUS
  <2>2. d \in SUBSET (DOMAIN s) /\ Max(d) = k /\ d \ {k} = e /\ d # {}
    BY <1>3, <2>1, PrefixIs
  <2>3. it[d] = part(it, d)
    <3> HIDE DEF part
    <3>1. QED
      BY <1>10, <2>2
  <2>4. QED
    BY <2>1, <2>2, <2>3
<1>12. it[1 .. 0] = Unasked
  <2>1. 1 .. 0 = {} /\ {} \in SUBSET (DOMAIN s)
    OBVIOUS
  <2>2. it[{}] = Unasked
    BY <1>10, <2>1
  <2>3. QED
    BY <2>1, <2>2
<1> DEFINE Odd == {k \in Nat : k \in 1 .. n /\ ~IsCheapest(dist, s, it[1 .. k], k)}
<1>13. ASSUME NEW k \in Odd, \A j \in Odd : k <= j  PROVE FALSE
  <2>1. PICK i \in Nat : k = i + 1 /\ i \in 0 .. n - 1 /\ k \in 1 .. n /\ k - 1 = i
    <3>1. k - 1 \in Nat /\ k = (k - 1) + 1 /\ k - 1 \in 0 .. n - 1
      OBVIOUS
    <3>2. QED
      BY <3>1
  <2>2. \A j \in 1 .. i + 1 : s[j] \in Workers
    BY <1>3, <2>1
  <2>3. PICK st : st = it[1 .. i]
    OBVIOUS
  <2>4. IF i = 0 THEN st = Unasked ELSE IsCheapest(dist, s, st, i)
    <3>1. CASE i = 0
      BY <1>12, <2>3, <3>1
    <3>2. CASE i # 0
      <4>1. i \in 1 .. n /\ ~(k <= i)
        BY <2>1, <3>2
      <4>2. i \notin Odd
        BY <1>13, <4>1
      <4>3. QED
        BY <2>3, <3>2, <4>1, <4>2
    <3>3. QED
      BY <3>1, <3>2
  <2>5. IsCheapest(dist, s, Ask(dist, st, s[i + 1]), i + 1)
    BY <2>2, <2>4, AskIs
  <2>6. it[1 .. k] = Ask(dist, st, s[i + 1])
    BY <1>11, <2>1, <2>3
  <2>7. QED
    BY <2>1, <2>5, <2>6
<1>14. Odd = {}
  <2>1. Odd \in SUBSET Nat
    OBVIOUS
  <2> HIDE DEF Odd
  <2>2. QED
    BY <1>13, <2>1, LeastNumber
<1>15. IsCheapest(dist, s, it[1 .. n], n)
  <2>1. n \in 1 .. n
    OBVIOUS
  <2>2. QED
    BY <1>14, <2>1
<1>16. PICK st : st = it[1 .. n] /\ LeastCostWorker(dist, from) = st.worker
  BY <1>2, <1>3
<1>17. QED
  BY <1>3, <1>15, <1>16 DEF IsCheapest
-----------------------------------------------------------------------------
(* What only depends on the setup *)

LEMMA SameMachine ==
    ASSUME setup' = setup
    PROVE  /\ pol' = pol /\ arch' = arch /\ num_workers' = num_workers /\ num_queues' = num_queues
           /\ Workers' = Workers /\ Indices' = Indices /\ QueueIds' = QueueIds
           /\ Tasks' = Tasks /\ Room' = Room
           /\ \A w : node(w)' = node(w)
           /\ \A w : Start(w)' = Start(w)
           /\ \A i : NodeOf(i)' = NodeOf(i)
<1>1. pol' = pol /\ arch' = arch /\ num_workers' = num_workers /\ queue_capacity' = queue_capacity
  BY DEF pol, arch, num_workers, queue_capacity
<1>2. num_queues' = num_queues
  BY <1>1 DEF num_queues
<1>3. Workers' = Workers /\ Indices' = Indices /\ Tasks' = Tasks
  BY <1>1, <1>2 DEF Workers, Indices, Tasks
<1>4. QueueIds' = QueueIds
  BY <1>1, <1>2 DEF QueueIds
<1>5. Room' = Room
  BY <1>1 DEF Room
<1>6. \A w : node(w)' = node(w)
  BY <1>1 DEF node, cpu_id
<1>7. \A w : Start(w)' = Start(w)
  BY <1>1 DEF Start
<1>8. \A i : NodeOf(i)' = NodeOf(i)
  BY <1>1 DEF NodeOf
<1>9. QED
  BY <1>1, <1>2, <1>3, <1>4, <1>5, <1>6, <1>7, <1>8

LEMMA SameHood ==
    ASSUME setup' = setup
    PROVE  \A w : Hood(w)' = Hood(w)
BY DEF Hood, AtHops, node, cpu_id, pol, arch

LEMMA SamePlaces ==
    ASSUME setup' = setup
    PROVE  \A w, p :
              /\ IsPlace(w, p)' <=> IsPlace(w, p)
              /\ Passed(w, p)' <=> Passed(w, p)
              /\ QueueAt(w, p)' = QueueAt(w, p)
              /\ \A q : IsLeft(w, p, q)' <=> IsLeft(w, p, q)
              /\ \A q : Spared(w, q)' = Spared(w, q)
<1> SUFFICES ASSUME NEW w, NEW p, NEW q
             PROVE  /\ IsPlace(w, p)' <=> IsPlace(w, p)
                    /\ Passed(w, p)' <=> Passed(w, p)
                    /\ QueueAt(w, p)' = QueueAt(w, p)
                    /\ IsLeft(w, p, q)' <=> IsLeft(w, p, q)
                    /\ Spared(w, q)' = Spared(w, q)
  OBVIOUS
<1>1. Hood(w)' = Hood(w)
  BY SameHood
<1>2. IsPlace(w, p)' <=> IsPlace(w, p)
  BY <1>1, SameMachine DEF IsPlace
<1>3. Passed(w, p)' <=> Passed(w, p)
  BY SameMachine DEF Passed
<1>4. QueueAt(w, p)' = QueueAt(w, p)
  BY <1>1 DEF QueueAt
<1>5. Passed(w, At("ring", q[2]))' <=> Passed(w, At("ring", q[2]))
  BY SameMachine DEF Passed
<1>6. IsLeft(w, p, q)' <=> IsLeft(w, p, q)
  BY <1>1, <1>5, SameMachine DEF IsLeft
<1>7. Spared(w, q)' = Spared(w, q)
  BY DEF Spared, Hops, node, cpu_id, pol, arch
<1>8. QED
  BY <1>2, <1>3, <1>4, <1>6, <1>7
-----------------------------------------------------------------------------
(* The queues *)

\* Each task created is queued or handed over, and queued in one place only.
Apart == \A q, r \in QueueIds : \A i \in 1 .. Len(queues[q]), j \in 1 .. Len(queues[r]) :
            queues[q][i] = queues[r][j] => q = r /\ i = j
QueuesInv ==
    /\ setup \in Setups /\ next \in 1 .. setup.max_tasks + 1
    /\ queues \in [QueueIds -> Seq(Tasks)]
    /\ \A q \in QueueIds : Len(queues[q]) <= Room
    /\ g_num_tasks_waiting = Cardinality(Queued)
    /\ Apart
    /\ Queued \cap executed = {} /\ Queued \cup executed = 1 .. next - 1

LEMMA RoomIs ==
    ASSUME setup \in Setups
    PROVE  Room \in Nat
<1>1. queue_capacity \in Nat \ {0}
  BY SetupFacts
<1>2. pol \in Deques => RoundUp2(queue_capacity) \in Nat \ {0}
  BY DequeAssumption DEF pol, queue_capacity
<1>3. QED
  BY <1>1, <1>2 DEF Room

\* Whatever its footprint, a task goes to a queue of the policy.
LEMMA TargetIs ==
    ASSUME setup \in Setups, NEW w \in Workers, bias[w] \in Workers, NEW dist \in Dists
    PROVE  Target(w, dist) \in QueueIds
<1>1. CASE pol \in Central
  <2>1. Target(w, dist) = Main(0)
    <3>1. pol # "numa"
      BY <1>1 DEF Central
    <3>2. QED
      BY <1>1, <3>1 DEF Target
  <2>2. 0 \in Indices
    BY <1>1, IndexFacts DEF Indices
  <2>3. QED
    BY <2>1, <2>2, QueueFacts
<1>2. CASE pol = "numa" /\ ByCost(dist)
  <2>1. Target(w, dist) = Main(node(LeastCostWorker(dist, bias[w])))
    BY <1>2 DEF Target, Central
  <2>2. dist \in [Nodes(arch) -> Nat]
    BY <1>2, FootprintAssumption DEF Dists, ByCost
  <2>3. LeastCostWorker(dist, bias[w]) \in Workers
    BY <2>2, CheapestIs
  <2>4. node(LeastCostWorker(dist, bias[w])) \in Indices
    BY <1>2, <2>3, SetupFacts, IndexFacts
  <2>5. QED
    BY <2>1, <2>4, QueueFacts
<1>3. CASE pol = "numa" /\ ~ByCost(dist)
  <2>1. Target(w, dist) = Alt(node(w))
    BY <1>3 DEF Target, Central
  <2>2. node(w) \in Indices
    BY <1>3, SetupFacts, IndexFacts
  <2>3. QED
    BY <1>3, <2>1, <2>2, QueueFacts
<1>4. CASE pol \notin Central \cup {"numa"}
  <2>1. Target(w, dist) = Main(w)
    BY <1>4 DEF Target
  <2>2. w \in Indices
    BY <1>4, IndexFacts
  <2>3. QED
    BY <2>1, <2>2, QueueFacts
<1>5. QED
  BY <1>1, <1>2, <1>3, <1>4

\* A queue gives its first or its last task.
LEMMA RestAndYield ==
    ASSUME NEW T, NEW s \in Seq(T), s # <<>>, NEW w, NEW p
    PROVE  /\ Rest(w, p, s) \in Seq(T) /\ Len(Rest(w, p, s)) = Len(s) - 1 /\ Len(s) \in Nat \ {0}
           /\ \E e \in {0, 1} :
                /\ Yield(w, p, s) = s[IF e = 0 THEN Len(s) ELSE 1]
                /\ \A i \in 1 .. Len(s) - 1 : Rest(w, p, s)[i] = s[i + e]
<1>1. CASE FromBack(w, p)
  <2>1. Rest(w, p, s) = Front(s) /\ Yield(w, p, s) = s[Len(s)]
    BY <1>1 DEF Rest, Yield, Last
  <2>2. /\ Front(s) \in Seq(T) /\ Len(Front(s)) = Len(s) - 1 /\ Len(s) \in Nat \ {0}
        /\ \A i \in 1 .. Len(s) - 1 : Front(s)[i] = s[i + 0]
    <3>1. Front(s) = SubSeq(s, 1, Len(s) - 1)
      BY DEF Front
    <3>2. PICK n \in Nat : n = Len(s) - 1 /\ n + 1 = Len(s)
      OBVIOUS
    <3>3. \A i \in 1 .. n : s[i] \in T
      BY <3>2
    <3>4. QED
      BY <3>1, <3>2, <3>3
  <2>3. QED
    BY <2>1, <2>2
<1>2. CASE ~FromBack(w, p)
  <2>1. Rest(w, p, s) = Tail(s) /\ Yield(w, p, s) = s[1]
    BY <1>2 DEF Rest, Yield
  <2>2. /\ Tail(s) \in Seq(T) /\ Len(Tail(s)) = Len(s) - 1 /\ Len(s) \in Nat \ {0}
        /\ \A i \in 1 .. Len(s) - 1 : Tail(s)[i] = s[i + 1]
    OBVIOUS
  <2>3. QED
    BY <2>1, <2>2
<1>3. QED
  BY <1>1, <1>2

\* The tasks in the queues qs.
Within(qs) == UNION {ToSet(qs[q]) : q \in QueueIds}

LEMMA WithinIs ==
    ASSUME NEW qs, NEW T, qs \in [QueueIds -> Seq(T)]
    PROVE  \A x : x \in Within(qs) <=> \E q \in QueueIds : \E i \in 1 .. Len(qs[q]) : qs[q][i] = x
<1>1. \A q \in QueueIds : ToSet(qs[q]) = {qs[q][i] : i \in 1 .. Len(qs[q])}
  BY DEF ToSet
<1>2. QED
  BY <1>1 DEF Within

LEMMA QueuedFacts ==
    ASSUME QueuesInv
    PROVE  /\ Queued = Within(queues) /\ IsFiniteSet(Queued) /\ Cardinality(Queued) \in Nat
           /\ Queued \subseteq 1 .. next - 1 /\ next \in Nat \ {0}
           /\ Tasks = 1 .. setup.max_tasks /\ setup.max_tasks \in Nat
<1>1. next \in Nat \ {0} /\ Tasks = 1 .. setup.max_tasks /\ setup.max_tasks \in Nat
  BY SetupFacts DEF QueuesInv, Tasks
<1>2. Queued \subseteq 1 .. next - 1
  BY DEF QueuesInv
<1>3. IsFiniteSet(1 .. next - 1)
  BY <1>1, FS_Interval
<1>4. IsFiniteSet(Queued)
  BY <1>2, <1>3, FS_Subset
<1>5. Cardinality(Queued) \in Nat
  BY <1>4, FS_CardinalityType
<1>6. QED
  BY <1>1, <1>2, <1>4, <1>5 DEF Queued, Within

\* A task that is pushed into a queue.
LEMMA Appended ==
    ASSUME QueuesInv, UNCHANGED <<setup, executed>>, NEW q \in QueueIds,
           Len(queues[q]) < Room, next \in Tasks, next' = next + 1,
           queues' = [queues EXCEPT ![q] = Append(@, next)],
           g_num_tasks_waiting' = g_num_tasks_waiting + 1
    PROVE  QueuesInv'
<1> DEFINE qs == queues'
           n == Len(queues[q]) + 1
<1>1. /\ Queued = Within(queues) /\ IsFiniteSet(Queued) /\ Cardinality(Queued) \in Nat
      /\ Queued \subseteq 1 .. next - 1 /\ next \in Nat \ {0} /\ setup \in Setups
      /\ Tasks = 1 .. setup.max_tasks /\ setup.max_tasks \in Nat /\ Room \in Nat
  BY QueuedFacts, RoomIs DEF QueuesInv
<1>2. queues \in [QueueIds -> Seq(Tasks)]
  BY DEF QueuesInv
<1>3. /\ qs \in [QueueIds -> Seq(Tasks)] /\ n \in Nat \ {0} /\ Len(qs[q]) = n /\ qs[q][n] = next
      /\ \A i \in 1 .. n - 1 : qs[q][i] = queues[q][i]
      /\ \A r \in QueueIds : r # q => qs[r] = queues[r]
  <2>1. Append(queues[q], next) \in Seq(Tasks)
    BY <1>2
  <2>2. qs = [queues EXCEPT ![q] = Append(queues[q], next)]
    OBVIOUS
  <2>3. qs \in [QueueIds -> Seq(Tasks)] /\ qs[q] = Append(queues[q], next)
        /\ \A r \in QueueIds : r # q => qs[r] = queues[r]
    BY <1>2, <2>1, <2>2
  <2>4. QED
    BY <1>2, <2>3
<1> HIDE DEF qs, n
<1>4. \A r \in QueueIds : \A i \in 1 .. Len(qs[r]) :
        \/ r = q /\ i = n /\ qs[r][i] = next
        \/ i \in 1 .. Len(queues[r]) /\ qs[r][i] = queues[r][i]
  <2> SUFFICES ASSUME NEW r \in QueueIds, NEW i \in 1 .. Len(qs[r])
               PROVE  \/ r = q /\ i = n /\ qs[r][i] = next
                      \/ i \in 1 .. Len(queues[r]) /\ qs[r][i] = queues[r][i]
    OBVIOUS
  <2>1. Len(queues[q]) = n - 1
    BY <1>2 DEF n
  <2>2. QED
    BY <1>3, <2>1
<1>5. \A r \in QueueIds : \A i \in 1 .. Len(queues[r]) :
        /\ queues[r][i] \in Queued /\ queues[r][i] # next
        /\ i \in 1 .. Len(qs[r]) /\ qs[r][i] = queues[r][i]
  <2> SUFFICES ASSUME NEW r \in QueueIds, NEW i \in 1 .. Len(queues[r])
               PROVE  /\ queues[r][i] \in Queued /\ queues[r][i] # next
                      /\ i \in 1 .. Len(qs[r]) /\ qs[r][i] = queues[r][i]
    OBVIOUS
  <2>1. queues[r][i] \in Queued
    BY <1>1, <1>2, WithinIs
  <2>2. queues[r][i] # next
    BY <1>1, <2>1
  <2>3. Len(queues[q]) = n - 1
    BY <1>2 DEF n
  <2>4. QED
    BY <1>3, <2>1, <2>2, <2>3
<1>6. Apart'
  <2> SUFFICES ASSUME NEW r \in QueueIds, NEW s \in QueueIds, NEW i \in 1 .. Len(qs[r]),
                      NEW j \in 1 .. Len(qs[s]), qs[r][i] = qs[s][j]
               PROVE  r = s /\ i = j
    BY SameMachine DEF Apart, qs
  <2>1. \/ r = q /\ i = n /\ qs[r][i] = next
        \/ i \in 1 .. Len(queues[r]) /\ qs[r][i] = queues[r][i] /\ qs[r][i] # next
    BY <1>4, <1>5
  <2>2. \/ s = q /\ j = n /\ qs[s][j] = next
        \/ j \in 1 .. Len(queues[s]) /\ qs[s][j] = queues[s][j] /\ qs[s][j] # next
    BY <1>4, <1>5
  <2>3. CASE qs[r][i] = next
    BY <2>1, <2>2, <2>3
  <2>4. CASE qs[r][i] # next
    <3>1. /\ i \in 1 .. Len(queues[r]) /\ j \in 1 .. Len(queues[s])
          /\ queues[r][i] = queues[s][j]
      BY <2>1, <2>2, <2>4
    <3>2. QED
      BY <3>1 DEF QueuesInv, Apart
  <2>5. QED
    BY <2>3, <2>4
<1>7. Queued' = Queued \cup {next}
  <2>1. Queued' = Within(qs)
    BY SameMachine DEF Queued, Within, qs
  <2>2. \A x : x \in Within(qs) <=> x \in Within(queues) \/ x = next
    <3> SUFFICES ASSUME NEW x PROVE x \in Within(qs) <=> x \in Within(queues) \/ x = next
      OBVIOUS
    <3>1. x \in Within(qs) <=> \E r \in QueueIds : \E i \in 1 .. Len(qs[r]) : qs[r][i] = x
      BY <1>3, WithinIs
    <3>2. x \in Within(queues)
            <=> \E r \in QueueIds : \E i \in 1 .. Len(queues[r]) : queues[r][i] = x
      BY <1>2, WithinIs
    <3>3. n \in 1 .. Len(qs[q]) /\ qs[q][n] = next
      BY <1>3
    <3>4. ASSUME x \in Within(qs) PROVE x \in Within(queues) \/ x = next
      <4>1. PICK r \in QueueIds : \E i \in 1 .. Len(qs[r]) : qs[r][i] = x
        BY <3>1, <3>4
      <4>2. PICK i \in 1 .. Len(qs[r]) : qs[r][i] = x
        BY <4>1
      <4>3. \/ x = next
            \/ i \in 1 .. Len(queues[r]) /\ queues[r][i] = x
        BY <1>4, <4>2
      <4>4. QED
        BY <3>2, <4>3
    <3>5. ASSUME x \in Within(queues) PROVE x \in Within(qs)
      <4>1. PICK r \in QueueIds : \E i \in 1 .. Len(queues[r]) : queues[r][i] = x
        BY <3>2, <3>5
      <4>2. PICK i \in 1 .. Len(queues[r]) : queues[r][i] = x
        BY <4>1
      <4>3. i \in 1 .. Len(qs[r]) /\ qs[r][i] = x
        BY <1>5, <4>2
      <4>4. QED
        BY <3>1, <4>3
    <3>6. QED
      BY <3>1, <3>3, <3>4, <3>5
  <2>3. QED
    BY <1>1, <2>1, <2>2
<1>8. g_num_tasks_waiting' = Cardinality(Queued')
  <2>1. next \notin Queued
    BY <1>1
  <2>2. Cardinality(Queued \cup {next}) = Cardinality(Queued) + 1
    BY <1>1, <2>1, FS_AddElement
  <2>3. QED
    BY <1>7, <2>2 DEF QueuesInv
<1>9. \A r \in QueueIds : Len(qs[r]) <= Room
  <2>1. Len(qs[q]) <= Room
    BY <1>1, <1>2, <1>3 DEF n
  <2>2. QED
    BY <1>3, <2>1 DEF QueuesInv
<1>10. /\ Queued' \cap executed' = {} /\ Queued' \cup executed' = 1 .. next' - 1
       /\ next' \in 1 .. setup.max_tasks + 1
  <2>1. 1 .. next' - 1 = (1 .. next - 1) \cup {next} /\ next \notin 1 .. next - 1
    BY <1>1
  <2>2. QED
    BY <1>1, <1>7, <2>1 DEF QueuesInv
<1>11. QED
  BY <1>1, <1>3, <1>6, <1>8, <1>9, <1>10, SameMachine DEF QueuesInv, qs

\* A task that a worker gets from a queue.
LEMMA Removed ==
    ASSUME QueuesInv, UNCHANGED <<setup, next>>, NEW q \in QueueIds, queues[q] # <<>>,
           NEW w, NEW p,
           queues' = [queues EXCEPT ![q] = Rest(w, p, @)],
           g_num_tasks_waiting' = g_num_tasks_waiting - 1,
           executed' = executed \cup {Yield(w, p, queues[q])}
    PROVE  QueuesInv'
<1> DEFINE qs == queues'
<1>1. /\ Queued = Within(queues) /\ IsFiniteSet(Queued) /\ Cardinality(Queued) \in Nat
      /\ Queued \subseteq 1 .. next - 1 /\ setup \in Setups /\ Room \in Nat
  BY QueuedFacts, RoomIs DEF QueuesInv
<1>2. queues \in [QueueIds -> Seq(Tasks)]
  BY DEF QueuesInv
<1>3. PICK s : s = queues[q]
  OBVIOUS
<1>4. s \in Seq(Tasks) /\ s # <<>>
  BY <1>2, <1>3
<1>5. PICK rest, y : rest = Rest(w, p, s) /\ y = Yield(w, p, s)
  OBVIOUS
<1>6. PICK n \in Nat : Len(s) = n /\ Len(rest) = n - 1 /\ n > 0 /\ rest \in Seq(Tasks)
  BY <1>4, <1>5, RestAndYield
<1>7. PICK e \in {0, 1} : /\ y = s[IF e = 0 THEN n ELSE 1]
                          /\ \A i \in 1 .. n - 1 : rest[i] = s[i + e]
  BY <1>4, <1>5, <1>6, RestAndYield
<1>8. PICK gone \in 1 .. n : gone = (IF e = 0 THEN n ELSE 1)
  BY <1>6
<1>9. \A i \in 1 .. n : i = gone \/ i - e \in 1 .. n - 1
  BY <1>6, <1>7, <1>8
<1>10. \A i \in 1 .. n - 1 : i + e \in 1 .. n /\ i + e # gone
  BY <1>6, <1>7, <1>8
<1>11. /\ qs \in [QueueIds -> Seq(Tasks)] /\ qs[q] = rest
       /\ \A r \in QueueIds : r # q => qs[r] = queues[r]
  <2>1. qs = [queues EXCEPT ![q] = rest]
    BY <1>3, <1>5
  <2>2. QED
    BY <1>2, <1>6, <2>1
<1>12. executed' = executed \cup {y}
  BY <1>3, <1>5
<1> HIDE DEF qs
<1> DEFINE Shift(r) == IF r = q THEN e ELSE 0
<1>13. \A r \in QueueIds : \A i \in 1 .. Len(qs[r]) :
        /\ i + Shift(r) \in 1 .. Len(queues[r]) /\ qs[r][i] = queues[r][i + Shift(r)]
        /\ ~(r = q /\ i + Shift(r) = gone)
  <2> SUFFICES ASSUME NEW r \in QueueIds, NEW i \in 1 .. Len(qs[r])
               PROVE  /\ i + Shift(r) \in 1 .. Len(queues[r]) /\ qs[r][i] = queues[r][i + Shift(r)]
                      /\ ~(r = q /\ i + Shift(r) = gone)
    OBVIOUS
  <2>1. CASE r = q
    <3>1. i \in 1 .. n - 1 /\ Shift(r) = e /\ queues[r] = s /\ qs[r] = rest
      BY <1>3, <1>6, <1>11, <2>1
    <3>2. QED
      BY <1>6, <1>7, <1>10, <2>1, <3>1
  <2>2. CASE r # q
    <3>1. i \in Nat /\ Shift(r) = 0 /\ qs[r] = queues[r] /\ i + 0 = i
      BY <1>2, <1>11, <2>2
    <3>2. QED
      BY <2>2, <3>1
  <2>3. QED
    BY <2>1, <2>2
<1>14. Apart'
  <2> SUFFICES ASSUME NEW r \in QueueIds, NEW t \in QueueIds, NEW i \in 1 .. Len(qs[r]),
                      NEW j \in 1 .. Len(qs[t]), qs[r][i] = qs[t][j]
               PROVE  r = t /\ i = j
    BY SameMachine DEF Apart, qs
  <2>1. PICK k \in 1 .. Len(queues[r]) : k = i + Shift(r) /\ qs[r][i] = queues[r][k]
    BY <1>13
  <2>2. PICK l \in 1 .. Len(queues[t]) : l = j + Shift(t) /\ qs[t][j] = queues[t][l]
    BY <1>13
  <2>3. r = t /\ k = l
    <3>1. queues[r][k] = queues[t][l]
      BY <2>1, <2>2
    <3>2. Apart
      BY DEF QueuesInv
    <3>3. QED
      BY <3>1, <3>2 DEF Apart
  <2>4. i \in Int /\ j \in Int /\ Shift(r) \in Int
    OBVIOUS
  <2>5. QED
    BY <2>1, <2>2, <2>3, <2>4
<1>15. y \in Queued /\ queues[q][gone] = y
  <2>1. queues[q][gone] = y /\ gone \in 1 .. Len(queues[q])
    BY <1>3, <1>6, <1>7, <1>8
  <2>2. QED
    BY <1>1, <1>2, <2>1, WithinIs
<1>16. Queued' = Queued \ {y}
  <2>1. Queued' = Within(qs)
    BY SameMachine DEF Queued, Within, qs
  <2>2. ASSUME NEW x, x \in Within(qs) PROVE x \in Within(queues) /\ x # y
    <3>1. PICK r \in QueueIds : \E i \in 1 .. Len(qs[r]) : qs[r][i] = x
      BY <1>11, <2>2, WithinIs
    <3>2. PICK i \in 1 .. Len(qs[r]) : qs[r][i] = x
      BY <3>1
    <3>3. PICK k \in 1 .. Len(queues[r]) : queues[r][k] = x /\ ~(r = q /\ k = gone)
      BY <1>13, <3>2
    <3>4. x \in Within(queues)
      BY <1>2, <3>3, WithinIs
    <3>5. gone \in 1 .. Len(queues[q])
      BY <1>3, <1>6
    <3>6. x # y
      BY <1>15, <3>3, <3>5 DEF QueuesInv, Apart
    <3>7. QED
      BY <3>4, <3>6
  <2>3. ASSUME NEW x, x \in Within(queues), x # y PROVE x \in Within(qs)
    <3>1. PICK r \in QueueIds : \E i \in 1 .. Len(queues[r]) : queues[r][i] = x
      BY <1>2, <2>3, WithinIs
    <3>2. PICK i \in 1 .. Len(queues[r]) : queues[r][i] = x
      BY <3>1
    <3>3. CASE r # q
      <4>1. qs[r] = queues[r]
        BY <1>11, <3>3
      <4>2. QED
        BY <1>11, <3>2, <4>1, WithinIs
    <3>4. CASE r = q
      <4>1. i # gone /\ i \in 1 .. n /\ s[i] = x
        BY <1>3, <1>6, <1>15, <2>3, <3>2, <3>4
      <4>2. PICK k \in 1 .. n - 1 : k = i - e
        BY <1>9, <4>1
      <4>3. rest[k] = s[k + e] /\ k + e = i
        BY <1>7, <4>1, <4>2
      <4>4. k \in 1 .. Len(qs[q]) /\ qs[q][k] = x
        BY <1>6, <1>11, <4>1, <4>3
      <4>5. QED
        BY <1>11, <4>4, WithinIs
    <3>5. QED
      BY <3>3, <3>4
  <2>4. QED
    BY <1>1, <2>1, <2>2, <2>3
<1>17. g_num_tasks_waiting' = Cardinality(Queued')
  <2>1. Cardinality(Queued \ {y}) = Cardinality(Queued) - 1
    BY <1>1, <1>15, FS_RemoveElement
  <2>2. QED
    BY <1>16, <2>1 DEF QueuesInv
<1>18. \A r \in QueueIds : Len(qs[r]) <= Room
  <2>1. n <= Room
    BY <1>3, <1>6 DEF QueuesInv
  <2>2. Len(qs[q]) <= Room
    BY <1>1, <1>6, <1>11, <2>1
  <2>3. QED
    BY <1>11, <2>2 DEF QueuesInv
<1>19. Queued' \cap executed' = {} /\ Queued' \cup executed' = 1 .. next' - 1
  BY <1>12, <1>15, <1>16 DEF QueuesInv
<1>20. QED
  BY <1>1, <1>11, <1>14, <1>17, <1>18, <1>19, SameMachine DEF QueuesInv, qs

\* A task that is executed at once, its queue being full.
LEMMA Inlined ==
    ASSUME QueuesInv, UNCHANGED <<setup, queues, g_num_tasks_waiting>>, next \in Tasks,
           next' = next + 1, executed' = executed \cup {next}
    PROVE  QueuesInv'
<1>1. /\ Queued \subseteq 1 .. next - 1 /\ next \in Nat \ {0}
      /\ Tasks = 1 .. setup.max_tasks /\ setup.max_tasks \in Nat
  BY QueuedFacts
<1>2. Queued' = Queued /\ Apart' = Apart
  BY SameMachine DEF Queued, Apart
<1>3. 1 .. next' - 1 = (1 .. next - 1) \cup {next} /\ next \notin 1 .. next - 1
      /\ next' \in 1 .. setup.max_tasks + 1
  BY <1>1
<1>4. QED
  BY <1>1, <1>2, <1>3, SameMachine DEF QueuesInv

LEMMA SameQueues ==
    ASSUME QueuesInv, UNCHANGED <<setup, queues, g_num_tasks_waiting, next, executed>>
    PROVE  QueuesInv'
<1>1. Queued' = Queued /\ Apart' = Apart
  BY SameMachine DEF Queued, Apart
<1>2. QED
  BY <1>1, SameMachine DEF QueuesInv
-----------------------------------------------------------------------------
(* The searches *)

Searching(w) == pc[w] \in {"look", "take"}

\* A search is at a place of its policy, and what it has left behind has had nothing
\* for it.  It takes only where it has looked.
SearchOf(w) ==
    IF Searching(w)
    THEN /\ IsPlace(w, at[w])
         /\ \A q \in QueueIds : IsLeft(w, at[w], q) => q \in shunned[w]
         /\ pc[w] = "take" => ~Passed(w, at[w])
    ELSE at[w] = End
SearchInv ==
    /\ setup \in Setups
    /\ bias \in [Workers -> Workers]
    /\ pc \in [Workers -> {"idle", "look", "take"}]
    /\ at = [w \in Workers |-> at[w]]
    /\ \A w \in Workers : SearchOf(w)

IInv == QueuesInv /\ SearchInv

\* There is nothing for w at its place.
Nothing(w) ==
    \/ Passed(w, at[w])
    \/ Len(queues[QueueAt(w, at[w])]) <= LimitAt(w, at[w])
    \/ queues[QueueAt(w, at[w])] = <<>>

\* What is left behind on leaving such a place has had nothing for w.
LEMMA LeavesNothing ==
    ASSUME IInv, NEW w \in Workers, Searching(w), Nothing(w),
           NEW q \in QueueIds, Leaves(w, at[w], q)
    PROVE  q \in shunned[w] \/ Len(queues[q]) <= Spared(w, q)
<1>1. setup \in Setups /\ queues \in [QueueIds -> Seq(Tasks)] /\ SearchOf(w)
  BY DEF IInv, QueuesInv, SearchInv
<1>2. CASE IsLeft(w, at[w], q)
  BY <1>1, <1>2 DEF SearchOf
<1>3. CASE ~IsLeft(w, at[w], q)
  <2>1. q = QueueAt(w, at[w]) /\ ~Passed(w, at[w])
    BY <1>3 DEF Leaves
  <2>2. LimitAt(w, at[w]) = Spared(w, q)
    BY <1>1, <1>3, <2>1, HereIs DEF SearchOf
  <2>3. Spared(w, q) \in Nat
    BY <1>1, SparedFacts
  <2>4. Len(queues[q]) <= Spared(w, q) \/ queues[q] = <<>>
    BY <2>1, <2>2 DEF Nothing
  <2>5. QED
    BY <2>3, <2>4
<1>4. QED
  BY <1>2, <1>3

\* A search under way forgets nothing and notes what each step leaves unfit.
LEMMA Grown ==
    ASSUME NoteUnfit, UNCHANGED setup, NEW w \in Workers, Searching(w)'
    PROVE  /\ shunned[w] \subseteq shunned'[w]
           /\ \A q \in QueueIds : Len(queues'[q]) <= Spared(w, q) => q \in shunned'[w]
BY DEF NoteUnfit, Searching

\* A worker that stays where it is keeps its part of the invariant.
LEMMA Stays ==
    ASSUME IInv, UNCHANGED setup, NoteUnfit, NEW w \in Workers,
           \/ at'[w] = at[w] /\ pc'[w] = pc[w]
           \/ at'[w] = at[w] /\ pc[w] = "look" /\ pc'[w] = "take" /\ ~Passed(w, at[w])
    PROVE  SearchOf(w)'
<1>1. SearchOf(w) /\ at'[w] = at[w]
  BY DEF IInv, SearchInv
<1>2. CASE Searching(w)'
  <2>1. Searching(w) /\ (pc'[w] = "take" => pc[w] = "take" \/ ~Passed(w, at[w]))
    BY <1>2 DEF Searching
  <2>2. shunned[w] \subseteq shunned'[w]
    BY <1>2, Grown
  <2>3. IsPlace(w, at[w])' /\ (pc'[w] = "take" => ~Passed(w, at[w])')
    BY <1>1, <2>1, SamePlaces DEF SearchOf
  <2>4. \A q \in QueueIds : IsLeft(w, at[w], q)' => q \in shunned'[w]
    BY <1>1, <2>1, <2>2, SamePlaces DEF SearchOf
  <2>5. QED
    BY <1>2, <2>3, <2>4, SameMachine DEF SearchOf
<1>3. CASE ~Searching(w)'
  <2>1. ~Searching(w)
    BY <1>3 DEF Searching
  <2>2. QED
    BY <1>1, <1>3, <2>1 DEF SearchOf
<1>4. QED
  BY <1>2, <1>3

\* So does one that begins a search.
LEMMA Begins ==
    ASSUME IInv, UNCHANGED setup, NEW w \in Workers, pc'[w] = "look", at'[w] = FirstPlace(w)
    PROVE  SearchOf(w)'
<1>1. IsPlace(w, FirstPlace(w)) /\ \A q \in QueueIds : ~IsLeft(w, FirstPlace(w), q)
  BY FirstIs DEF IInv, SearchInv
<1>2. IsPlace(w, at[w])' /\ \A q \in QueueIds : ~IsLeft(w, at[w], q)'
  BY <1>1, SamePlaces
<1>3. QED
  BY <1>2, SameMachine DEF SearchOf, Searching

\* So does one that moves on from a place where there is nothing for it.
LEMMA MovesOn ==
    ASSUME IInv, UNCHANGED <<setup, queues>>, NoteUnfit, NEW w \in Workers,
           Searching(w), MoveOn(w), Nothing(w)
    PROVE  SearchOf(w)'
<1>1. PICK p : p = PlaceAfter(w, at[w])
  OBVIOUS
<1>2. at'[w] = p /\ pc'[w] = IF p = End THEN "idle" ELSE "look"
  BY <1>1 DEF MoveOn, IInv, SearchInv
<1>3. setup \in Setups /\ IsPlace(w, at[w])
  BY DEF IInv, SearchInv, SearchOf
<1>4. CASE p = End
  BY <1>2, <1>4 DEF SearchOf, Searching
<1>5. CASE p # End
  <2>1. IsPlace(w, p) /\ \A q \in QueueIds : IsLeft(w, p, q) => Leaves(w, at[w], q)
    BY <1>1, <1>3, <1>5, PlaceFollows DEF Follows
  <2>2. Searching(w)' /\ pc'[w] = "look"
    BY <1>2, <1>5 DEF Searching
  <2>3. \A q \in QueueIds : IsLeft(w, p, q) => q \in shunned'[w]
    <3> SUFFICES ASSUME NEW q \in QueueIds, IsLeft(w, p, q) PROVE q \in shunned'[w]
      OBVIOUS
    <3>1. q \in shunned[w] \/ Len(queues[q]) <= Spared(w, q)
      BY <2>1, LeavesNothing
    <3>2. QED
      BY <2>2, <3>1, Grown
  <2>4. IsPlace(w, at[w])' /\ \A q \in QueueIds : IsLeft(w, at[w], q)' => q \in shunned'[w]
    BY <1>2, <2>1, <2>3, SamePlaces
  <2>5. QED
    BY <2>2, <2>4, SameMachine DEF SearchOf
<1>6. QED
  BY <1>4, <1>5

\* A step of one worker leaves the others where they are.
LEMMA OthersStay ==
    ASSUME IInv, UNCHANGED setup, NoteUnfit, NEW w \in Workers, SearchOf(w)',
           bias' \in [Workers -> Workers],
           \/ UNCHANGED <<pc, at>>
           \/ \E c \in {"idle", "look", "take"} : \E p :
                pc' = [pc EXCEPT ![w] = c] /\ (at' = [at EXCEPT ![w] = p] \/ at' = at)
    PROVE  SearchInv'
<1>1. /\ pc \in [Workers -> {"idle", "look", "take"}] /\ at = [v \in Workers |-> at[v]]
      /\ setup \in Setups
  BY DEF IInv, SearchInv
<1>2. /\ pc' \in [Workers -> {"idle", "look", "take"}] /\ at' = [v \in Workers |-> at'[v]]
      /\ \A v \in Workers : v # w => pc'[v] = pc[v] /\ at'[v] = at[v]
  BY <1>1
<1>3. \A v \in Workers : SearchOf(v)'
  BY <1>2, Stays
<1>4. QED
  BY <1>1, <1>2, <1>3, SameMachine DEF SearchInv

\* Where a search takes from, and how a pop ends there.
LEMMA Steps ==
    ASSUME IInv, NEW w \in Workers, Pop(w) \/ Create(w)
    PROVE  /\ UNCHANGED setup
           /\ \/ PopBegin(w)
              \/ /\ Searching(w) /\ Nothing(w) /\ MoveOn(w)
                 /\ UNCHANGED <<queues, g_num_tasks_waiting, next, bias, executed>>
              \/ /\ pc[w] = "look" /\ ~Passed(w, at[w])
                 /\ pc' = [pc EXCEPT ![w] = "take"]
                 /\ UNCHANGED <<at, queues, g_num_tasks_waiting, next, bias, executed>>
              \/ /\ pc[w] = "take" /\ queues[QueueAt(w, at[w])] # <<>> /\ Take(w)
                 /\ pc' = [pc EXCEPT ![w] = "idle"] /\ at' = [at EXCEPT ![w] = End]
                 /\ g_num_tasks_waiting' = g_num_tasks_waiting - 1
              \/ /\ \E dist \in Dists : Push(w, dist)
                 /\ UNCHANGED <<pc, at>>
<1>1. CASE PopBegin(w)
  BY <1>1 DEF PopBegin
<1>2. CASE Look(w)
  <2>1. CASE Passed(w, at[w]) \/ Len(queues[QueueAt(w, at[w])]) <= LimitAt(w, at[w])
    BY <1>2, <2>1 DEF Look, Searching, Nothing
  <2>2. CASE ~(Passed(w, at[w]) \/ Len(queues[QueueAt(w, at[w])]) <= LimitAt(w, at[w]))
    BY <1>2, <2>2 DEF Look
  <2>3. QED
    BY <2>1, <2>2
<1>3. CASE Take(w)
  <2>1. CASE queues[QueueAt(w, at[w])] = <<>>
    BY <1>3, <2>1 DEF Take, Searching, Nothing
  <2>2. CASE queues[QueueAt(w, at[w])] # <<>>
    BY <1>3, <2>2 DEF Take
  <2>3. QED
    BY <2>1, <2>2
<1>4. CASE Create(w)
  BY <1>4 DEF Create, Push
<1>5. QED
  BY <1>1, <1>2, <1>3, <1>4 DEF Pop

\* Where a search takes from is a queue.
LEMMA TakesFromQueue ==
    ASSUME IInv, NEW w \in Workers, Searching(w)
    PROVE  QueueAt(w, at[w]) \in QueueIds
BY HereIs DEF IInv, SearchInv, SearchOf

LEMMA PushKeeps ==
    ASSUME IInv, NoteUnfit, NEW w \in Workers, NEW dist \in Dists, Push(w, dist)
    PROVE  IInv'
<1>1. PICK q : q = Target(w, dist)
  OBVIOUS
<1>2. setup \in Setups /\ bias \in [Workers -> Workers] /\ QueuesInv
  BY DEF IInv, SearchInv
<1>3. q \in QueueIds
  BY <1>1, <1>2, TargetIs
<1>4. QueuesInv'
  <2>1. CASE Len(queues[q]) < Room
    BY <1>1, <1>2, <1>3, <2>1, Appended DEF Push
  <2>2. CASE ~(Len(queues[q]) < Room)
    BY <1>1, <1>2, <2>2, Inlined DEF Push
  <2>3. QED
    BY <2>1, <2>2
<1>5. UNCHANGED <<setup, pc, at>>
  BY DEF Push
<1>6. bias' \in [Workers -> Workers]
  <2>1. PICK n \in Nat : n = num_workers
    BY <1>2, SetupFacts
  <2>2. (bias[w] + 1) % n \in 0 .. n - 1
    <3>1. PICK b \in 0 .. n - 1 : b = bias[w]
      BY <1>2, <2>1 DEF Workers
    <3>2. PICK x \in 0 .. 2 * n - 1 : x = b + 1
      BY <2>1, <3>1
    <3>3. n \in Nat \ {0}
      BY <2>1, <3>1
    <3>4. x % n = IF x < n THEN x ELSE x - n
      BY <3>3, WrapIs
    <3>5. x % n \in 0 .. n - 1
      BY <2>1, <3>2, <3>3, <3>4
    <3>6. QED
      BY <3>1, <3>2, <3>5
  <2>3. (bias[w] + 1) % num_workers \in Workers
    BY <2>1, <2>2 DEF Workers
  <2>4. bias' = IF ByCost(dist) THEN [bias EXCEPT ![w] = (bias[w] + 1) % num_workers] ELSE bias
    BY DEF Push
  <2>5. QED
    BY <1>2, <2>3, <2>4
<1>7. SearchInv'
  BY <1>5, <1>6, Stays, OthersStay
<1>8. QED
  BY <1>4, <1>7 DEF IInv

LEMMA PopKeeps ==
    ASSUME IInv, NoteUnfit, NEW w \in Workers, Pop(w) \/ Create(w),
           ~\E dist \in Dists : Push(w, dist)
    PROVE  IInv'
<1>0. /\ UNCHANGED setup /\ bias \in [Workers -> Workers] /\ QueuesInv
      /\ pc \in [Workers -> {"idle", "look", "take"}] /\ at = [v \in Workers |-> at[v]]
  BY Steps DEF IInv, SearchInv
<1>1. CASE PopBegin(w)
  <2>1. /\ pc' = [pc EXCEPT ![w] = "look"] /\ at' = [at EXCEPT ![w] = FirstPlace(w)]
        /\ UNCHANGED <<queues, g_num_tasks_waiting, next, bias, executed>>
    BY <1>1 DEF PopBegin
  <2>2. SearchOf(w)'
    BY <1>0, <2>1, Begins
  <2>3. SearchInv'
    BY <1>0, <2>1, <2>2, OthersStay
  <2>4. QED
    BY <1>0, <2>1, <2>3, SameQueues DEF IInv
<1>2. CASE /\ Searching(w) /\ Nothing(w) /\ MoveOn(w)
           /\ UNCHANGED <<queues, g_num_tasks_waiting, next, bias, executed>>
  <2>1. SearchOf(w)'
    BY <1>0, <1>2, MovesOn
  <2>2. \E c \in {"idle", "look", "take"} : \E p :
            pc' = [pc EXCEPT ![w] = c] /\ at' = [at EXCEPT ![w] = p]
    BY <1>2 DEF MoveOn
  <2>3. SearchInv'
    BY <1>0, <1>2, <2>1, <2>2, OthersStay
  <2>4. QED
    BY <1>0, <1>2, <2>3, SameQueues DEF IInv
<1>3. CASE /\ pc[w] = "look" /\ ~Passed(w, at[w]) /\ pc' = [pc EXCEPT ![w] = "take"]
           /\ UNCHANGED <<at, queues, g_num_tasks_waiting, next, bias, executed>>
  <2>1. pc'[w] = "take" /\ at'[w] = at[w]
    BY <1>0, <1>3
  <2>2. SearchOf(w)'
    BY <1>0, <1>3, <2>1, Stays
  <2>3. SearchInv'
    BY <1>0, <1>3, <2>2, OthersStay
  <2>4. QED
    BY <1>0, <1>3, <2>3, SameQueues DEF IInv
<1>4. CASE /\ pc[w] = "take" /\ queues[QueueAt(w, at[w])] # <<>> /\ Take(w)
           /\ pc' = [pc EXCEPT ![w] = "idle"] /\ at' = [at EXCEPT ![w] = End]
  <2>1. QueueAt(w, at[w]) \in QueueIds
    BY <1>4, TakesFromQueue DEF Searching
  <2>2. /\ queues' = [queues EXCEPT ![QueueAt(w, at[w])] = Rest(w, at[w], @)]
        /\ g_num_tasks_waiting' = g_num_tasks_waiting - 1
        /\ executed' = executed \cup {Yield(w, at[w], queues[QueueAt(w, at[w])])}
        /\ UNCHANGED <<next, bias>>
    BY <1>4 DEF Take
  <2>3. QueuesInv'
    BY <1>0, <1>4, <2>1, <2>2, Removed
  <2>4. SearchOf(w)'
    BY <1>0, <1>4 DEF SearchOf, Searching
  <2>5. SearchInv'
    BY <1>0, <1>4, <2>2, <2>4, OthersStay
  <2>6. QED
    BY <2>3, <2>5 DEF IInv
<1>5. QED
  BY <1>1, <1>2, <1>3, <1>4, Steps

\* The strengthening of the theorems below: every task is queued once or handed over,
\* and what a search has left behind has had nothing for it.
THEOREM SearchInvariant == Spec => []IInv
<1>1. Init => IInv
  <2> SUFFICES ASSUME Init PROVE IInv
    OBVIOUS
  <2>1. /\ setup \in Setups /\ queues = [q \in QueueIds |-> <<>>] /\ next = 1 /\ executed = {}
        /\ pc = [w \in Workers |-> "idle"] /\ at = [w \in Workers |-> End]
        /\ bias = [w \in Workers |-> w] /\ g_num_tasks_waiting = 0
    BY DEF Init
  <2>2. SearchInv
    BY <2>1 DEF SearchInv, SearchOf, Searching
  <2>3. setup.max_tasks \in Nat /\ Room \in Nat
    BY <2>1, SetupFacts, RoomIs
  <2>4. queues \in [QueueIds -> Seq(Tasks)] /\ \A q \in QueueIds : Len(queues[q]) = 0
    BY <2>1
  <2>5. Queued = {}
    <3>1. \A x : x \notin Within(queues)
      BY <2>4, WithinIs
    <3>2. QED
      BY <3>1 DEF Within, Queued
  <2>6. Cardinality(Queued) = 0
    BY <2>5, FS_EmptySet
  <2>7. Apart
    BY <2>4 DEF Apart
  <2>8. QueuesInv
    BY <2>1, <2>3, <2>4, <2>5, <2>6, <2>7 DEF QueuesInv
  <2>9. QED
    BY <2>2, <2>8 DEF IInv
<1>2. IInv /\ [Next]_vars => IInv'
  <2> SUFFICES ASSUME IInv, [Next]_vars PROVE IInv'
    OBVIOUS
  <2>1. CASE UNCHANGED vars
    <3>1. QueuesInv'
      BY <2>1, SameQueues DEF vars, IInv
    <3>2. \A w \in Workers : SearchOf(w)'
      BY <2>1, SamePlaces, SameMachine DEF vars, IInv, SearchInv, SearchOf, Searching
    <3>3. QED
      BY <2>1, <3>1, <3>2, SameMachine DEF vars, IInv, SearchInv
  <2>2. ASSUME NEW w \in Workers \ Busy, Pop(w) \/ Create(w), NoteUnfit PROVE IInv'
    BY <2>2, PushKeeps, PopKeeps
  <2>3. QED
    BY <2>1, <2>2 DEF Next
<1>3. QED
  BY <1>1, <1>2, PTL DEF Spec
-----------------------------------------------------------------------------
(* The properties *)

\* Every variable keeps its type, the queues their capacity, and the counter of the
\* waiting tasks is exact, under each of the six policies.
THEOREM SchedTypes == Spec => []TypeOK
<1>1. IInv => TypeOK
  <2> SUFFICES ASSUME IInv PROVE TypeOK
    OBVIOUS
  <2>1. QueuesInv /\ SearchInv
    BY DEF IInv
  <2>2. \A w \in Workers : at[w] # End => QueueAt(w, at[w]) \in QueueIds
    BY TakesFromQueue DEF IInv, SearchInv, SearchOf
  <2>3. executed \subseteq Tasks
    BY <2>1, QueuedFacts DEF QueuesInv
  <2>4. QED
    BY <2>1, <2>2, <2>3 DEF TypeOK, QueuesInv, SearchInv
<1>2. QED
  BY <1>1, SearchInvariant, PTL

\* No task is lost or handed over twice: each one created is in a queue or has been
\* handed to a worker, never both, and it is in one place of one queue.
TasksAreAccountedFor ==
    /\ Queued \cap executed = {} /\ Queued \cup executed = 1 .. next - 1
    /\ Apart

\* So it is under each policy, whichever end of the queue a pop takes from.
THEOREM NoTaskIsLost == Spec => []TasksAreAccountedFor
<1>1. IInv => TasksAreAccountedFor
  BY DEF IInv, QueuesInv, TasksAreAccountedFor
<1>2. QED
  BY <1>1, SearchInvariant, PTL

\* A pop ends with a task, or by moving on from the last place, with nothing there.
LEMMA HowPopsEnd ==
    ASSUME IInv, Next, NEW w \in Workers, Ends(w), ~Got(w)
    PROVE  Searching(w) /\ MoveOn(w) /\ Nothing(w)
<1>1. PICK u \in Workers \ Busy : Pop(u) \/ Create(u)
  BY DEF Next
<1>2. /\ Searching(w) /\ pc'[w] = "idle" /\ pc'[w] # pc[w]
      /\ pc \in [Workers -> {"idle", "look", "take"}] /\ g_num_tasks_waiting \in Nat
  BY QueuedFacts DEF Ends, Searching, IInv, SearchInv, QueuesInv
<1>3. ~(g_num_tasks_waiting' = g_num_tasks_waiting - 1)
  BY <1>2 DEF Got
<1>4. CASE PopBegin(u)
  <2>1. pc'[w] = "look" \/ pc'[w] = pc[w]
    BY <1>2, <1>4 DEF PopBegin
  <2>2. QED
    BY <1>2, <2>1
<1>5. CASE Searching(u) /\ Nothing(u) /\ MoveOn(u)
  <2>1. u = w
    BY <1>2, <1>5 DEF MoveOn
  <2>2. QED
    BY <1>5, <2>1
<1>6. CASE pc' = [pc EXCEPT ![u] = "take"]
  BY <1>2, <1>6
<1>7. CASE pc' = pc
  BY <1>2, <1>7
<1>8. QED
  BY <1>1, <1>3, <1>4, <1>5, <1>6, <1>7, Steps

\* A pop gets a task by taking it.
LEMMA HowPopsGet ==
    ASSUME IInv, Next, NEW w \in Workers, Got(w)
    PROVE  pc[w] = "take"
<1>1. PICK u \in Workers \ Busy : Pop(u) \/ Create(u)
  BY DEF Next
<1>2. /\ pc'[w] # pc[w] /\ pc \in [Workers -> {"idle", "look", "take"}]
      /\ g_num_tasks_waiting \in Nat /\ g_num_tasks_waiting' < g_num_tasks_waiting
  BY QueuedFacts DEF Got, Ends, IInv, SearchInv, QueuesInv
<1>3. g_num_tasks_waiting' # g_num_tasks_waiting
  BY <1>2
<1>4. CASE PopBegin(u)
  BY <1>3, <1>4 DEF PopBegin
<1>5. CASE pc[u] = "take" /\ pc' = [pc EXCEPT ![u] = "idle"]
  BY <1>2, <1>5
<1>6. CASE pc' = pc
  BY <1>2, <1>6
<1>7. QED
  BY <1>1, <1>3, <1>4, <1>5, <1>6, Steps

\* A pop that returns without a task has missed none that the tables lead to.
LEMMA MissesNone ==
    ASSUME IInv, Next, NEW w \in Workers, Ends(w), ~Got(w),
           NEW q \in QueueIds, InReach(w, q)
    PROVE  q \in shunned[w] \/ Len(queues[q]) <= Spared(w, q)
<1>1. Searching(w) /\ MoveOn(w) /\ Nothing(w) /\ pc'[w] = "idle"
  BY HowPopsEnd DEF Ends
<1>2. setup \in Setups /\ IsPlace(w, at[w]) /\ pc \in [Workers -> {"idle", "look", "take"}]
  BY <1>1 DEF IInv, SearchInv, SearchOf
<1>3. PlaceAfter(w, at[w]) = End
  BY <1>1, <1>2 DEF MoveOn
<1>4. Leaves(w, at[w], q)
  BY <1>2, <1>3, PlaceFollows DEF Follows
<1>5. QED
  BY <1>1, <1>4, LeavesNothing

\* The part of PopMissesNothing about the queues that the tables lead to.
ReachMissesNothing ==
    [][\A w \in Workers : Ends(w) /\ ~Got(w) =>
        \A q \in QueueIds : InReach(w, q) =>
            q \in shunned[w] \/ Len(queues[q]) <= Spared(w, q)]_vars

\* A pop that returns without a task has missed none in any queue it can reach by the
\* tables, whatever the others do meanwhile, on every machine, also on those whose
\* vicinity_of leaves nodes out.
THEOREM ReachableTasksAreFound == Spec => ReachMissesNothing
<1>1. IInv /\ [Next]_vars =>
        [\A w \in Workers : Ends(w) /\ ~Got(w) =>
            \A q \in QueueIds : InReach(w, q) =>
                q \in shunned[w] \/ Len(queues[q]) <= Spared(w, q)]_vars
  BY MissesNone
<1>2. QED
  BY <1>1, SearchInvariant, PTL DEF Spec, ReachMissesNothing

\* The policies that go by the neighbourhood run on machines whose tables name it whole.
VicinitiesComplete == \A s \in Setups : s.pol \in HoodPolicies => VicinityIsComplete(s.arch)

\* Then a pop that returns without a task has missed none at all.
THEOREM PopsMissNothing ==
    ASSUME VicinitiesComplete
    PROVE  Spec => PopMissesNothing
<1>1. IInv /\ [Next]_vars =>
        [\A w \in Workers : Ends(w) /\ ~Got(w) =>
            \A q \in QueueIds : q \in shunned[w] \/ Len(queues[q]) <= Spared(w, q)]_vars
  <2> SUFFICES ASSUME IInv, Next, NEW w \in Workers, Ends(w), ~Got(w), NEW q \in QueueIds
               PROVE  q \in shunned[w] \/ Len(queues[q]) <= Spared(w, q)
    OBVIOUS
  <2>1. setup \in Setups
    BY DEF IInv, SearchInv
  <2>2. InReach(w, q)
    <3>1. SUFFICES ASSUME pol \in HoodPolicies
                   PROVE  NodeOf(q[2]) = node(w) \/ NodeOf(q[2]) \in Reachable(arch, node(w))
      BY DEF InReach
    <3>2. VicinityIsComplete(arch)
      BY <2>1, <3>1 DEF VicinitiesComplete, pol, arch
    <3>3. NodeOf(q[2]) \in Nodes(arch) /\ node(w) \in Nodes(arch)
      BY <2>1, <3>1, QueueFacts, NodeFacts, SetupFacts
    <3>4. QED
      BY <3>2, <3>3 DEF VicinityIsComplete
  <2>3. QED
    BY <2>2, MissesNone
<1>2. QED
  BY <1>1, SearchInvariant, PTL DEF Spec, PopMissesNothing

\* A pop takes from a queue only when each nearer one has had nothing for it.
THEOREM PopsTakeNearestFirst == Spec => NearestFirst
<1>1. IInv /\ [Next]_vars =>
        [\A w \in Workers : Got(w) =>
            \A q \in QueueIds : Rank(w, q) < Rank(w, QueueAt(w, at[w])) => q \in shunned[w]]_vars
  <2> SUFFICES ASSUME IInv, Next, NEW w \in Workers, Got(w), NEW q \in QueueIds,
                      Rank(w, q) < Rank(w, QueueAt(w, at[w]))
               PROVE  q \in shunned[w]
    OBVIOUS
  <2>1. Searching(w) /\ setup \in Setups /\ SearchOf(w)
    BY DEF Got, Ends, Searching, IInv, SearchInv
  <2>2. pc[w] = "take"
    BY HowPopsGet
  <2>3. IsPlace(w, at[w]) /\ ~Passed(w, at[w])
    BY <2>1, <2>2 DEF SearchOf
  <2>4. IsLeft(w, at[w], q)
    BY <2>1, <2>3, NearerIsLeft
  <2>5. QED
    BY <2>1, <2>4 DEF SearchOf
<1>2. QED
  BY <1>1, SearchInvariant, PTL DEF Spec, NearestFirst

\* No node of a worker has cheaper access to the footprint of a task than the node
\* whose queue gets it.
THEOREM PushesGoByLeastCost == Spec => LeastCostWins
<1>1. IInv /\ [Next]_vars =>
        [next' # next =>
            \A w \in Workers, dist \in Dists : ByCost(dist) =>
                \A v \in Workers : CommCost(arch, dist, Target(w, dist)[2])
                                      <= CommCost(arch, dist, node(v))]_vars
  <2> SUFFICES ASSUME IInv, NEW w \in Workers, NEW dist \in Dists, ByCost(dist), NEW v \in Workers
               PROVE  CommCost(arch, dist, Target(w, dist)[2]) <= CommCost(arch, dist, node(v))
    OBVIOUS
  <2>1. setup \in Setups /\ bias[w] \in Workers /\ pol = "numa"
    BY DEF IInv, SearchInv, ByCost
  <2>2. dist \in [Nodes(arch) -> Nat]
    BY FootprintAssumption DEF Dists, ByCost
  <2>3. Target(w, dist)[2] = node(LeastCostWorker(dist, bias[w]))
    <3>1. Target(w, dist) = Main(node(LeastCostWorker(dist, bias[w])))
      BY <2>1 DEF Target, Central
    <3>2. QED
      BY <3>1 DEF Main
  <2>4. QED
    BY <2>1, <2>2, <2>3, CheapestIs
<1>2. QED
  BY <1>1, SearchInvariant, PTL DEF Spec, LeastCostWins

\* The tables that the generator writes, for any number of cpus, are what the policies
\* rely on: the hypothesis of PopsMissNothing holds on every such machine.
THEOREM GeneratedTablesAgree ==
    ASSUME NEW n \in Nat \ {0}
    PROVE  TableTypes(arch_this(n)) /\ TablesAgree(arch_this(n)) /\ VicinityIsComplete(arch_this(n))
<1> DEFINE a == arch_this(n)
           cpus == [i \in 1 .. n |-> i - 1]
<1>1. Len(cpus) = n
  OBVIOUS
<1>2. /\ a.num_nodes = 1 /\ a.num_cores = n /\ a.diameter = 0
      /\ a.sys_cpu_of = [c \in 0 .. n - 1 |-> cpus[c + 1]]
      /\ a.node_of = [c \in 0 .. n - 1 |-> 0]
      /\ a.cpus_of = [m \in {0} |-> [i \in 1 .. n |-> i - 1]]
      /\ a.vicinity_of = NoNeighbors(1, 0)
      /\ a.comm_cost_of = [ends \in {0} \X {0} |-> 10]
  BY <1>1 DEF arch_this, OneNode
<1> HIDE DEF a
<1>3. Nodes(a) = {0} /\ Cores(a) = 0 .. n - 1 /\ 1 .. 0 = {} /\ 0 .. 0 = {0}
  BY <1>2 DEF Nodes, Cores
<1>4. TableTypes(a)
  <2>1. a.cpus_of \in [Nodes(a) -> Seq(Cores(a))]
    <3>1. [i \in 1 .. n |-> i - 1] \in Seq(0 .. n - 1)
      OBVIOUS
    <3>2. QED
      BY <1>2, <1>3, <3>1
  <2>2. a.vicinity_of \in [Nodes(a) -> [1 .. a.diameter -> Seq(Nodes(a))]]
    BY <1>2, <1>3 DEF NoNeighbors
  <2>3. a.comm_cost_of \in [Nodes(a) \X Nodes(a) -> Nat]
    BY <1>2, <1>3
  <2>4. a.node_of \in [Cores(a) -> Nodes(a)]
    BY <1>2, <1>3
  <2>5. QED
    BY <1>2, <2>1, <2>2, <2>3, <2>4 DEF TableTypes
<1>5. TablesAgree(a)
  <2>1. \A m \in Nodes(a) : {c \in Cores(a) : a.node_of[c] = m} = ToSet(a.cpus_of[m])
    <3>1. {c \in Cores(a) : a.node_of[c] = 0} = 0 .. n - 1
      BY <1>2, <1>3
    <3>2. a.cpus_of[0] = cpus /\ ToSet(cpus) = {cpus[i] : i \in 1 .. n}
      BY <1>2 DEF ToSet
    <3>3. \A c \in 0 .. n - 1 : c + 1 \in 1 .. n /\ cpus[c + 1] = c
      OBVIOUS
    <3>4. \A i \in 1 .. n : cpus[i] \in 0 .. n - 1
      OBVIOUS
    <3>5. ToSet(cpus) = 0 .. n - 1
      <4> HIDE DEF cpus
      <4>1. ASSUME NEW c \in 0 .. n - 1 PROVE \E i \in 1 .. n : cpus[i] = c
        BY <3>3
      <4>2. QED
        BY <3>2, <3>4, <4>1
    <3>6. QED
      BY <1>3, <3>1, <3>2, <3>5
  <2>2. \A c, e \in Cores(a) : a.sys_cpu_of[c] = a.sys_cpu_of[e] => c = e
    BY <1>2, <1>3
  <2>3. \A m, k \in Nodes(a) : a.comm_cost_of[m, m] <= a.comm_cost_of[m, k]
    <3> SUFFICES ASSUME NEW m \in Nodes(a), NEW k \in Nodes(a)
                 PROVE  a.comm_cost_of[m, m] <= a.comm_cost_of[m, k]
      OBVIOUS
    <3>1. m = k
      BY <1>3
    <3>2. PICK c \in Nat : c = a.comm_cost_of[m, m]
      BY <1>4 DEF TableTypes
    <3>3. c = a.comm_cost_of[m, k]
      BY <3>1, <3>2
    <3>4. c <= c
      OBVIOUS
    <3>5. QED
      BY <3>2, <3>3, <3>4
  <2>4. QED
    BY <2>1, <2>2, <2>3 DEF TablesAgree
<1>6. VicinityIsComplete(a)
  BY <1>3 DEF VicinityIsComplete
<1>7. QED
  BY <1>4, <1>5, <1>6 DEF a
=============================================================================
