------------------------------ MODULE MirMemPol ------------------------------
(***************************************************************************)
(* The memory distribution of mir_mem_pol.c: workers allocate and release  *)
(* blocks under the system, local, coarse or fine policy, and ask on which *)
(* nodes a block lies.  The coarse policy reads mem_pol->node without the  *)
(* lock under which it is advanced.  Pages of numa_alloc_onnode lie on the *)
(* node asked for, interleaved ones take turns, and malloc puts them where *)
(* it likes.                                                               *)
(***************************************************************************)
EXTENDS MirMemNodeDist

CONSTANTS
    Configs,    \* policy, machine, and cpus of the workers
    Sizes,      \* sizes in bytes that are asked for
    MaxBlocks,  \* bound: allocations
    MaxResets,  \* bound: resets
    PageSize, HeaderSize,   \* sysconf(_SC_PAGESIZE), sizeof(struct mem_header_t)
    Footprints  \* data footprints that are asked about

\* page_size and pagesz are of 16 bits.
ASSUME SizesAssumption ==
    /\ PageSize \in Nat /\ PageSize < 65536 /\ HeaderSize \in 1 .. PageSize - 1
    /\ Sizes \subseteq Nat \ {0} /\ MaxBlocks \in Nat /\ MaxResets \in Nat
ASSUME FootprintAssumption == \A fp \in Footprints :
    fp.type \in Nat \ {0} /\ fp.start \in Nat /\ fp.end \in Nat /\ fp.start <= fp.end /\ fp.row_sz \in Nat
ASSUME ConfigAssumption == \A c \in Configs :
    /\ c.pol \in {"system", "local", "coarse", "fine"}
    /\ c.worker_cpu_map \in Seq(Cores(c.arch)) /\ c.worker_cpu_map # <<>>
    /\ c.arch.num_nodes \in Nat \ {0}
    /\ \A cpu \in Cores(c.arch) : c.arch.node_of[cpu] \in Nodes(c.arch)

VARIABLES
    config,             \* chosen when the runtime is created
    node, lock,         \* mem_pol->node, mem_pol->lock
    total_allocated,    \* mem_pol->total_allocated
    blocks,             \* block -> where it lies and what its header says
    at, mine,           \* where each worker stands, and with which block
    turns               \* history: [from, left]: node was `from`, and has left it so often

vars == <<config, node, lock, total_allocated, blocks, at, mine, turns>>

arch == config.arch
num_nodes == arch.num_nodes
Workers == 0 .. Len(config.worker_cpu_map) - 1
node_of_worker(w) == arch.node_of[config.worker_cpu_map[w + 1]]
Allowed == {node_of_worker(w) : w \in Workers}
NoNode == num_nodes + 1
None == -1

\* The next node that has a worker, in the order of the nodes.
NextAllowed(n) ==
    (n + Min({d \in 1 .. num_nodes : (n + d) % num_nodes \in Allowed})) % num_nodes

Used == DOMAIN blocks
new_sz(sz) == sz + HeaderSize
Pages(sz) == 0 .. (new_sz(sz) - 1) \div PageSize
-----------------------------------------------------------------------------
Init ==
    /\ config \in Configs
    /\ node = node_of_worker(0)
    /\ lock = None /\ total_allocated = 0
    /\ blocks = <<>>
    /\ at = [w \in Workers |-> "user"] /\ mine = [w \in Workers |-> None]
    /\ turns = [from |-> node_of_worker(0), left |-> 0, resets |-> 0]

\* A new block of sz bytes for w, whose pages lie at home, with its header.
Map(w, sz, home, nodeid, marked, cache, next) ==
    /\ at[w] = "user" /\ Len(blocks) < MaxBlocks
    /\ blocks' = Append(blocks, [sz |-> sz, home |-> home, live |-> next = "user",
                                 nodeid |-> nodeid, marked |-> marked, node_cache |-> cache])
    /\ mine' = [mine EXCEPT ![w] = Len(blocks) + 1]
    /\ at' = [at EXCEPT ![w] = next]
    /\ UNCHANGED <<config, node, lock, total_allocated, turns>>

\* malloc: the pages lie wherever they do, and nothing is counted.
AllocateSystem(w, sz) ==
    /\ config.pol = "system"
    /\ \E home \in [Pages(sz) -> Nodes(arch)] : Map(w, sz, home, NoNode, FALSE, <<>>, "user")

AllocateLocal(w, sz) ==
    /\ config.pol = "local"
    /\ Map(w, sz, [p \in Pages(sz) |-> node_of_worker(w)], node_of_worker(w), TRUE, <<>>, "account")

\* The pages take turns over the nodes of the workers; they are faulted in and
\* their nodes kept in the cache.
AllocateFine(w, sz) ==
    /\ config.pol = "fine"
    /\ \E home \in [Pages(sz) -> Allowed] :
        /\ \A p \in Pages(sz) \ {0} : home[p] = NextAllowed(home[p - 1])
        /\ Map(w, sz, home, NoNode, FALSE, [k \in 1 .. Cardinality(Pages(sz)) |-> home[k - 1]], "account")

\* The pages go to mem_pol->node, or where the system likes if there is no such
\* node (see Step); the header is written later.  The earlier read, for the mask, is
\* left out: the placement follows this one.
AllocateCoarse(w, sz) ==
    /\ config.pol = "coarse"
    /\ \E n \in IF node \in Nodes(arch) THEN {node} ELSE Nodes(arch) :
           Map(w, sz, [p \in Pages(sz) |-> n], NoNode, FALSE, <<>>, "header")

\* header->nodeid reads mem_pol->node again.
WriteHeader(w) ==
    /\ at[w] = "header"
    /\ blocks' = [blocks EXCEPT ![mine[w]].nodeid = node, ![mine[w]].marked = TRUE]
    /\ at' = [at EXCEPT ![w] = "lock"]
    /\ UNCHANGED <<config, node, lock, total_allocated, mine, turns>>

\* Bug variant: advance_node without the lock.
LockNodeOpen(w) ==
    /\ at[w] = "lock"
    /\ lock' = w
    /\ at' = [at EXCEPT ![w] = "advance"]
    /\ UNCHANGED <<config, node, total_allocated, blocks, mine, turns>>

LockNode(w) ==
    /\ at[w] = "lock" /\ lock = None
    /\ lock' = w
    /\ at' = [at EXCEPT ![w] = "advance"]
    /\ UNCHANGED <<config, node, total_allocated, blocks, mine, turns>>

\* Bug variant: the last node is never reached.
WrapShort(n) == IF num_nodes = 1 THEN 0 ELSE n % (num_nodes - 1)

Wrap(n) == n % num_nodes

\* node++ and the remainder are two stores that the readers without the lock can
\* see, or one where the compiler merges them.
Step(w) ==
    /\ at[w] = "advance"
    /\ \/ node' = node + 1 /\ at' = [at EXCEPT ![w] = "wrap"]
       \/ node' = Wrap(node + 1) /\ at' = [at EXCEPT ![w] = "check"]
    /\ UNCHANGED <<config, lock, total_allocated, blocks, mine, turns>>

StepWrap(w) ==
    /\ at[w] = "wrap"
    /\ node' = Wrap(node) /\ at' = [at EXCEPT ![w] = "check"]
    /\ UNCHANGED <<config, lock, total_allocated, blocks, mine, turns>>

\* A node without a worker is passed over.
Check(w) ==
    /\ at[w] = "check"
    /\ IF node \in Allowed
       THEN /\ lock' = None /\ at' = [at EXCEPT ![w] = "account"]
            /\ turns' = [turns EXCEPT !.left = @ + 1]
       ELSE at' = [at EXCEPT ![w] = "advance"] /\ UNCHANGED <<lock, turns>>
    /\ UNCHANGED <<config, node, total_allocated, blocks, mine>>

Account(w) ==
    /\ at[w] = "account"
    /\ total_allocated' = total_allocated + new_sz(blocks[mine[w]].sz)
    /\ blocks' = [blocks EXCEPT ![mine[w]].live = TRUE]
    /\ at' = [at EXCEPT ![w] = "user"]
    /\ UNCHANGED <<config, node, lock, mine, turns>>

\* release_coarse, also for the fine and local policies: the block is unmapped,
\* then subtracted.  release_system only frees it.
Release(w, b) ==
    /\ at[w] = "user" /\ blocks[b].live
    /\ blocks' = [blocks EXCEPT ![b].live = FALSE]
    /\ mine' = [mine EXCEPT ![w] = b]
    /\ at' = [at EXCEPT ![w] = IF config.pol = "system" THEN "user" ELSE "subtract"]
    /\ UNCHANGED <<config, node, lock, total_allocated, turns>>

\* Bug variant: the header is added but not subtracted.
SubtractUserSize(w) ==
    /\ at[w] = "subtract"
    /\ total_allocated' = total_allocated - blocks[mine[w]].sz
    /\ at' = [at EXCEPT ![w] = "user"]
    /\ UNCHANGED <<config, node, lock, blocks, mine, turns>>

Subtract(w) ==
    /\ at[w] = "subtract"
    /\ total_allocated' = total_allocated - new_sz(blocks[mine[w]].sz)
    /\ at' = [at EXCEPT ![w] = "user"]
    /\ UNCHANGED <<config, node, lock, blocks, mine, turns>>

\* mir_mem_pol_reset, which does nothing under the other policies.
Reset(w) ==
    /\ config.pol = "coarse" /\ at[w] = "user" /\ lock = None
    /\ turns.resets < MaxResets
    /\ node' = 0
    /\ turns' = [from |-> 0, left |-> 0, resets |-> turns.resets + 1]
    /\ UNCHANGED <<config, lock, total_allocated, blocks, at, mine>>

Allocate(w) == \E sz \in Sizes :
    AllocateSystem(w, sz) \/ AllocateLocal(w, sz) \/ AllocateFine(w, sz) \/ AllocateCoarse(w, sz)
GoOn(w) == WriteHeader(w) \/ LockNode(w) \/ Step(w) \/ StepWrap(w) \/ Check(w)
             \/ Account(w) \/ Subtract(w)

Next == \E w \in Workers :
    Allocate(w) \/ GoOn(w) \/ Reset(w) \/ \E b \in Used : Release(w, b)

\* A call that has begun goes on.
MaxWorkers == Max({Len(c.worker_cpu_map) : c \in Configs})
Spec == /\ Init /\ [][Next]_vars
        /\ \A w \in 0 .. MaxWorkers - 1 : WF_vars(w \in Workers /\ GoOn(w))
-----------------------------------------------------------------------------
(* Where does a block lie?  Offsets are in bytes from the address that user code *)
(* has; the header and the first page begin HeaderSize bytes before it.         *)

NodeAt(b, i) == b.home[(i + HeaderSize) \div PageSize]

\* Bug variant: one page ahead.
CacheOneAhead(b, i, part_of) ==
    IF part_of /\ b.node_cache # <<>> THEN b.node_cache[Min({i \div PageSize + 2, Len(b.node_cache)})]
    ELSE NodeAt(b, i)

\* get_node_of: the cache counts pages from the address that user code has.
get_node_of(b, i, part_of) ==
    IF part_of /\ b.node_cache # <<>> THEN b.node_cache[i \div PageSize + 1] ELSE NodeAt(b, i)

\* mir_mem_get_mem_node_dist: sz bytes of b from addr on, with b as part_of or not.
mir_mem_get_mem_node_dist(b, addr, sz, part_of) ==
    IF b.marked /\ (part_of \/ addr = 0) THEN Credit(EmptyDist(arch), b.nodeid, sz)
    ELSE Walk(arch, [i \in 0 .. sz - 1 |-> get_node_of(b, addr + i, part_of)], sz, PageSize)

\* The rows of a footprint that begins with the block: where each begins, and its
\* bytes.  A footprint of rows has end + 1 of them; start shortens a row but does
\* not move it.
RowStarts(fp) ==
    IF fp.row_sz > 1 THEN [brow \in 1 .. fp.end + 1 |-> (brow - 1) * fp.row_sz * fp.type] ELSE <<0>>
RowBytes(fp) == (fp.end - fp.start + 1) * fp.type
AddDists(d, e) == [n \in Nodes(arch) |-> d[n] + e[n]]
FootprintDist(b, fp, part_of) ==
    FoldLeft(LAMBDA dist, row : AddDists(dist, mir_mem_get_mem_node_dist(b, row, RowBytes(fp), part_of)),
             EmptyDist(arch), RowStarts(fp))
-----------------------------------------------------------------------------
(* Properties *)

\* total_allocated is what the live blocks take with their headers, but for the
\* calls under way that have not counted yet.
Bytes(S) == MapThenSumSet(LAMBDA b : new_sz(blocks[b].sz), S)
Accounting ==
    LET live == {b \in Used : blocks[b].live}
        leaving == {mine[w] : w \in {v \in Workers : at[v] = "subtract"}}
    IN  total_allocated = IF config.pol = "system" THEN 0 ELSE Bytes(live) + Bytes(leaving)

\* The fields of mir_mem_pol_t: node is at most one past the last while it wraps, and
\* total_allocated is the exact count of the bytes in use.
TypeOK ==
    /\ node \in 0 .. num_nodes
    /\ lock \in Workers \cup {None}
    /\ total_allocated \in Nat
    /\ \A b \in Used : blocks[b].nodeid \in 0 .. NoNode /\ blocks[b].sz \in Sizes
    /\ at \in [Workers -> {"user", "header", "lock", "advance", "wrap", "check", "account", "subtract"}]
    /\ \A w \in Workers : at[w] # "user" => mine[w] \in Used
    /\ Accounting

\* The node of the next call is "chosen round-robin": whoever advances mem_pol->node,
\* and in whatever order, each advance is one turn in the round of the nodes that
\* have workers.  (Two coarse calls at once may still place pages on the same node.)
RoundTurns ==
    lock = None => node = FoldLeft(LAMBDA n, t : NextAllowed(n), turns.from,
                                   [t \in 1 .. turns.left |-> t])

\* A whole block is told with an error of at most the header's length a page, where
\* the header names the node of the block.
Lies(b) == [n \in Nodes(arch) |-> Cardinality({i \in 0 .. b.sz - 1 : NodeAt(b, i) = n})]
WholeIsTold ==
    \A k \in Used : LET b == blocks[k]
                        dist == mir_mem_get_mem_node_dist(b, 0, b.sz, TRUE)
                    IN  b.live /\ config.pol # "system" /\ (b.marked => b.nodeid = b.home[0]) =>
                            \A n \in Nodes(arch) : Distance(dist[n], Lies(b)[n])
                                                     <= HeaderSize * Cardinality(Pages(b.sz))

\* Each byte of a footprint is counted, once.
Fits(b, fp) == Last(RowStarts(fp)) + RowBytes(fp) <= b.sz
FootprintIsCounted ==
    \A k \in Used, fp \in Footprints, part_of \in BOOLEAN :
        LET b == blocks[k]
        IN  b.live /\ Fits(b, fp) /\ (b.marked => b.nodeid \in Nodes(arch)) =>
                Sum(arch, FootprintDist(b, fp, part_of)) = Len(RowStarts(fp)) * RowBytes(fp)

\* What mir_mem_get_mem_node_dist says of the memory a task uses: no byte is forgotten
\* or counted for two nodes where a page or a row begins within it, and the node a byte
\* is counted for is the wrong one only for as many bytes as the headers shift.
DistributionTells == WholeIsTold /\ FootprintIsCounted

\* advance_node finds a node with a worker and releases the lock, also after a
\* reset to a node that has none.
LockIsReleased == lock # None ~> lock = None
=============================================================================
