---------------------------- MODULE MirMemPolProofs ----------------------------
(***************************************************************************)
(* Proofs about the memory distribution of MirMemPol, for every machine,   *)
(* set of workers, page size and footprint.  A block in a call is in the   *)
(* hands of one worker and not counted, so that total_allocated is the     *)
(* sum over two sets that change by one block a step; the turns are a      *)
(* function g of nodes, of which a worker that advances is somewhere       *)
(* between two values.  The rest is about what the code computes from a    *)
(* block: sums and folds are CHOOSEn solutions of an equation, shown here  *)
(* to exist and to go element by element, and a walk has told, when it     *)
(* comes to a page, where the bytes before it lie.                         *)
(***************************************************************************)
EXTENDS MirMemPol, FoldProofs

(* The bytes of some blocks, with their headers *)

BytesOf(s, S) == MapThenSumSet(LAMBDA b : new_sz(s[b].sz), S)
Weights(s, S) == [b \in S |-> new_sz(s[b].sz)]

LEMMA BytesIs ==
    ASSUME NEW s, NEW S, IsFiniteSet(S)
    PROVE  \E g : IsSum(g, Weights(s, S), S) /\ BytesOf(s, S) = g[S]
<1> DEFINE w == Weights(s, S)
           part(g, d) == IF d = {} THEN 0
                         ELSE new_sz(s[CHOOSE x \in d : TRUE].sz) + g[d \ {CHOOSE x \in d : TRUE}]
           it == CHOOSE g : g = [d \in SUBSET S |-> part(g, d)]
<1>1. ASSUME NEW g, NEW d \in SUBSET S  PROVE SumOf(g, w, d) = part(g, d)
  <2>1. CASE d = {}
    BY <2>1 DEF SumOf
  <2>2. CASE d # {}
    <3>1. Chosen(d) \in S /\ Chosen(d) = CHOOSE x \in d : TRUE
      BY <2>2 DEF Chosen
    <3>2. w[Chosen(d)] = new_sz(s[Chosen(d)].sz)
      BY <3>1 DEF Weights
    <3> HIDE DEF w
    <3>3. QED
      BY <2>2, <3>1, <3>2 DEF SumOf
  <2>3. QED
    BY <2>1, <2>2
<1>2. PICK f : IsSum(f, w, S)
  BY SumExists
<1>3. f = [d \in SUBSET S |-> part(f, d)]
  BY <1>1, <1>2 DEF IsSum
<1>4. it = [d \in SUBSET S |-> part(it, d)]
  BY <1>3
<1>5. BytesOf(s, S) = it[S]
  BY DEF BytesOf, MapThenSumSet, MapThenFoldSet
<1>6. IsSum(it, w, S)
  <2>1. \A d \in SUBSET S : part(it, d) = SumOf(it, w, d)
    BY <1>1
  <2> HIDE DEF it, part, w
  <2>2. [d \in SUBSET S |-> part(it, d)] = [d \in SUBSET S |-> SumOf(it, w, d)]
    BY <2>1
  <2>3. QED
    BY <1>4, <2>2 DEF IsSum
<1> HIDE DEF it
<1>7. QED
  BY <1>5, <1>6

LEMMA BytesFacts ==
    ASSUME NEW s, NEW S, IsFiniteSet(S), \A b \in S : new_sz(s[b].sz) \in Nat
    PROVE  BytesOf(s, S) \in Nat /\ (S = {} => BytesOf(s, S) = 0)
<1>1. PICK g : IsSum(g, Weights(s, S), S) /\ BytesOf(s, S) = g[S]
  BY BytesIs
<1>2. \A b \in S : Weights(s, S)[b] \in Nat
  BY DEF Weights
<1> DEFINE w == Weights(s, S)
<1>3. IsSum(g, w, S) /\ \A b \in S : w[b] \in Nat
  BY <1>1, <1>2
<1> HIDE DEF w
<1>4. (\A d \in SUBSET S : g[d] \in Nat) /\ g[{}] = 0
  BY <1>3, SumFacts
<1>5. QED
  BY <1>1, <1>4

LEMMA BytesSame ==
    ASSUME NEW s, NEW r, NEW S, IsFiniteSet(S), \A b \in S : s[b].sz = r[b].sz
    PROVE  BytesOf(s, S) = BytesOf(r, S)
<1>1. PICK g : IsSum(g, Weights(s, S), S) /\ BytesOf(s, S) = g[S]
  BY BytesIs
<1>2. PICK h : IsSum(h, Weights(r, S), S) /\ BytesOf(r, S) = h[S]
  BY BytesIs
<1>3. \A b \in S : Weights(r, S)[b] = Weights(s, S)[b]
  BY DEF Weights, new_sz
<1>4. g[S] = h[S]
  BY <1>1, <1>2, <1>3, SumAgrees
<1>5. QED
  BY <1>1, <1>2, <1>4

\* One block more, or one less.
LEMMA BytesAdd ==
    ASSUME NEW s, NEW S, IsFiniteSet(S), \A b \in S : new_sz(s[b].sz) \in Nat, NEW c \in S
    PROVE  BytesOf(s, S) = BytesOf(s, S \ {c}) + new_sz(s[c].sz)
<1>1. PICK g : IsSum(g, Weights(s, S), S) /\ BytesOf(s, S) = g[S]
  BY BytesIs
<1> DEFINE R == S \ {c}
<1>2. IsFiniteSet(R) /\ R \in SUBSET S
  BY FS_Subset
<1>3. PICK h : IsSum(h, Weights(s, R), R) /\ BytesOf(s, R) = h[R]
  BY <1>2, BytesIs
<1>4. \A b \in R : Weights(s, R)[b] = Weights(s, S)[b]
  BY DEF Weights
<1>5. g[R] = h[R]
  <2> HIDE DEF R
  <2>1. QED
    BY <1>1, <1>2, <1>3, <1>4, SumAgrees
<1>6. \A b \in S : Weights(s, S)[b] \in Nat
  BY DEF Weights
<1>7. g[S] = Weights(s, S)[c] + g[S \ {c}] /\ g[S \ {c}] \in Nat /\ Weights(s, S)[c] \in Nat
  BY <1>1, <1>2, <1>6, SumFacts
<1>8. Weights(s, S)[c] = new_sz(s[c].sz)
  BY DEF Weights
<1>9. QED
  BY <1>1, <1>3, <1>5, <1>7, <1>8
-----------------------------------------------------------------------------
(* The inductive invariant *)

Fields == {"sz", "home", "live", "nodeid", "marked", "node_cache"}
\* A block with a header that names its node lies on one node.
OnOneNode(b) == \A p \in Pages(b.sz) : b.home[p] = b.home[0]
CacheOf(b) == [k \in 1 .. Cardinality(Pages(b.sz)) |-> b.home[k - 1]]
IsBlock(b) ==
    /\ b = [f \in Fields |-> b[f]]
    /\ b.sz \in Sizes /\ b.live \in BOOLEAN /\ b.nodeid \in 0 .. NoNode
    /\ b.home \in [Pages(b.sz) -> Nodes(arch)]
    /\ b.node_cache = <<>> \/ b.node_cache = CacheOf(b)
    /\ b.marked => config.pol \in {"local", "coarse"}
    /\ config.pol \in {"local", "coarse"} => OnOneNode(b)
IsList(s) == Len(s) \in Nat /\ s = [i \in 1 .. Len(s) |-> s[i]]
Places == {"user", "header", "lock", "advance", "wrap", "check", "account", "subtract"}
Holding == {"advance", "wrap", "check"}

PlaceInv ==
    /\ config \in Configs /\ at \in [Workers -> Places] /\ mine \in [Workers -> Int]
    /\ config.pol = "system" => \A w \in Workers : at[w] = "user"
    /\ \A w \in Workers : at[w] = "header" => config.pol = "coarse"

BlockInv == IsList(blocks) /\ \A b \in Used : IsBlock(blocks[b])

\* A block in a call is not counted, and no other worker has it.
HandInv == \A w \in Workers : at[w] # "user" =>
    /\ mine[w] \in Used /\ ~blocks[mine[w]].live
    /\ \A v \in Workers : at[v] # "user" /\ mine[v] = mine[w] => v = w

NodeInv ==
    /\ node \in 0 .. num_nodes /\ lock \in Workers \cup {None}
    /\ \A w \in Workers : at[w] \in Holding <=> lock = w
    /\ node = num_nodes => lock # None /\ at[lock] = "wrap"

Live == {b \in Used : blocks[b].live}
Leaving == {mine[w] : w \in {v \in Workers : at[v] = "subtract"}}
BytesInv ==
    total_allocated =
        IF config.pol = "system" THEN 0 ELSE BytesOf(blocks, Live) + BytesOf(blocks, Leaving)

MemInv == PlaceInv /\ BlockInv /\ HandInv /\ NodeInv /\ BytesInv

LEMMA ConfigFacts ==
    ASSUME config \in Configs
    PROVE  /\ num_nodes \in Nat \ {0}
           /\ Len(config.worker_cpu_map) \in Nat \ {0}
           /\ 0 \in Workers /\ None \notin Workers /\ Workers \subseteq Nat
           /\ \A w \in Workers : node_of_worker(w) \in 0 .. num_nodes - 1
           /\ Allowed \subseteq 0 .. num_nodes - 1 /\ Allowed # {}
<1> DEFINE map == config.worker_cpu_map
<1>1. /\ map \in Seq(Cores(arch)) /\ map # <<>> /\ num_nodes \in Nat \ {0}
      /\ \A cpu \in Cores(arch) : arch.node_of[cpu] \in Nodes(arch)
  BY ConfigAssumption DEF arch, num_nodes
<1>2. Len(map) \in Nat \ {0} /\ \A i \in 1 .. Len(map) : map[i] \in Cores(arch)
  <2> HIDE DEF map
  <2>1. QED
    BY <1>1
<1>3. ASSUME NEW w \in Workers  PROVE node_of_worker(w) \in 0 .. num_nodes - 1
  <2>1. w + 1 \in 1 .. Len(map)
    BY <1>2 DEF Workers
  <2>2. QED
    BY <1>1, <1>2, <2>1 DEF node_of_worker, Nodes, num_nodes
<1>4. 0 \in Workers /\ None \notin Workers /\ Workers \subseteq Nat
  BY <1>2 DEF Workers, None
<1>5. QED
  BY <1>1, <1>2, <1>3, <1>4 DEF Allowed

LEMMA SizeFacts ==
    /\ HeaderSize \in Nat \ {0} /\ PageSize \in Nat /\ HeaderSize < PageSize
    /\ \A sz \in Sizes : sz \in Nat \ {0} /\ new_sz(sz) \in Nat
BY SizesAssumption DEF new_sz

\* What is said about the machine does not change with the state.
LEMMA SameMachine ==
    ASSUME config' = config
    PROVE  /\ Workers' = Workers /\ num_nodes' = num_nodes /\ NoNode' = NoNode /\ Allowed' = Allowed
           /\ \A w : node_of_worker(w)' = node_of_worker(w)
           /\ arch' = arch /\ Nodes(arch)' = Nodes(arch)
<1>1. arch' = arch
  BY DEF arch
<1>2. Workers' = Workers /\ num_nodes' = num_nodes
  BY <1>1 DEF Workers, num_nodes
<1>3. \A w : node_of_worker(w)' = node_of_worker(w)
  BY <1>1 DEF node_of_worker
<1>4. Allowed' = Allowed
  BY <1>2, <1>3 DEF Allowed
<1>5. Nodes(arch)' = Nodes(arch)
  BY <1>1
<1>6. QED
  BY <1>1, <1>2, <1>3, <1>4, <1>5 DEF NoNode

LEMMA ListAppend ==
    ASSUME NEW s, IsList(s), NEW e
    PROVE  /\ IsList(Append(s, e)) /\ Len(Append(s, e)) = Len(s) + 1
           /\ DOMAIN Append(s, e) = 1 .. Len(s) + 1
           /\ \A i \in 1 .. Len(s) : Append(s, e)[i] = s[i]
           /\ Append(s, e)[Len(s) + 1] = e
<1> DEFINE S == {s[i] : i \in 1 .. Len(s)} \cup {e}
<1>1. s \in Seq(S) /\ e \in S
  BY DEF IsList
<1> HIDE DEF S
<1>2. /\ Append(s, e) \in Seq(S) /\ Len(Append(s, e)) = Len(s) + 1
      /\ \A i \in 1 .. Len(s) : Append(s, e)[i] = s[i]
      /\ Append(s, e)[Len(s) + 1] = e
  BY <1>1, AppendProperties
<1>3. IsList(Append(s, e)) /\ DOMAIN Append(s, e) = 1 .. Len(s) + 1
  BY <1>2, LenProperties DEF IsList
<1>4. QED
  BY <1>2, <1>3

LEMMA ListExcept ==
    ASSUME NEW s, IsList(s), NEW b \in 1 .. Len(s), NEW e
    PROVE  /\ IsList([s EXCEPT ![b] = e]) /\ Len([s EXCEPT ![b] = e]) = Len(s)
           /\ DOMAIN [s EXCEPT ![b] = e] = 1 .. Len(s)
           /\ \A i \in 1 .. Len(s) : [s EXCEPT ![b] = e][i] = IF i = b THEN e ELSE s[i]
<1> DEFINE S == {s[i] : i \in 1 .. Len(s)} \cup {e}
<1>1. s \in Seq(S) /\ e \in S
  BY DEF IsList
<1> HIDE DEF S
<1>2. /\ [s EXCEPT ![b] = e] \in Seq(S) /\ Len([s EXCEPT ![b] = e]) = Len(s)
      /\ \A i \in 1 .. Len(s) : [s EXCEPT ![b] = e][i] = IF i = b THEN e ELSE s[i]
  BY <1>1, ExceptSeq
<1>3. IsList([s EXCEPT ![b] = e]) /\ DOMAIN [s EXCEPT ![b] = e] = 1 .. Len(s)
  BY <1>2, LenProperties DEF IsList
<1>4. QED
  BY <1>2, <1>3

LEMMA SetLive ==
    ASSUME IsList(blocks), NEW b, b \in 1 .. Len(blocks), IsBlock(blocks[b]), NEW l \in BOOLEAN,
           blocks' = [blocks EXCEPT ![b].live = l]
    PROVE  /\ IsList(blocks') /\ DOMAIN blocks' = 1 .. Len(blocks)
           /\ \A i \in 1 .. Len(blocks) : i # b => blocks'[i] = blocks[i]
           /\ IsBlock(blocks'[b]) /\ blocks'[b].sz = blocks[b].sz /\ blocks'[b].live = l
<1> DEFINE x == blocks[b]
           e == [x EXCEPT !.live = l]
           q == [blocks EXCEPT ![b] = e]
<1>1. blocks' = q
  BY DEF IsList
<1>2. /\ e = [f \in Fields |-> e[f]] /\ e.live = l /\ e.sz = x.sz /\ e.nodeid = x.nodeid
      /\ e.home = x.home /\ e.node_cache = x.node_cache /\ e.marked = x.marked
  <2>1. x = [f \in Fields |-> x[f]]
    BY DEF IsBlock
  <2> HIDE DEF x
  <2>2. QED
    BY <2>1 DEF Fields
<1>3. IsBlock(e)
  <2> HIDE DEF e, x
  <2>1. IsBlock(x)
    BY DEF x
  <2>2. CacheOf(e) = CacheOf(x) /\ (OnOneNode(x) => OnOneNode(e))
    BY <1>2 DEF CacheOf, OnOneNode
  <2>3. QED
    BY <1>2, <2>1, <2>2 DEF IsBlock
<1> HIDE DEF e
<1>4. /\ IsList(q) /\ DOMAIN q = 1 .. Len(blocks)
      /\ \A i \in 1 .. Len(blocks) : q[i] = IF i = b THEN e ELSE blocks[i]
  BY ListExcept
<1> HIDE DEF q, x
<1>5. q[b] = e /\ \A i \in 1 .. Len(blocks) : i # b => q[i] = blocks[i]
  BY <1>4
<1>6. QED
  BY <1>1, <1>2, <1>3, <1>4, <1>5 DEF x

LEMMA SetHeader ==
    ASSUME IsList(blocks), NEW b, b \in 1 .. Len(blocks), IsBlock(blocks[b]), node \in 0 .. NoNode,
           config.pol = "coarse",
           blocks' = [blocks EXCEPT ![b].nodeid = node, ![b].marked = TRUE]
    PROVE  /\ IsList(blocks') /\ DOMAIN blocks' = 1 .. Len(blocks)
           /\ \A i \in 1 .. Len(blocks) : i # b => blocks'[i] = blocks[i]
           /\ IsBlock(blocks'[b]) /\ blocks'[b].sz = blocks[b].sz /\ blocks'[b].live = blocks[b].live
<1> DEFINE x == blocks[b]
           e == [x EXCEPT !.nodeid = node, !.marked = TRUE]
           q == [blocks EXCEPT ![b] = e]
<1>1. blocks' = q
  BY DEF IsList
<1>2. /\ e = [f \in Fields |-> e[f]] /\ e.live = x.live /\ e.sz = x.sz /\ e.nodeid = node
      /\ e.home = x.home /\ e.node_cache = x.node_cache
  <2>1. x = [f \in Fields |-> x[f]]
    BY DEF IsBlock
  <2> HIDE DEF x
  <2>2. QED
    BY <2>1 DEF Fields
<1>3. IsBlock(e)
  <2> HIDE DEF e, x
  <2>1. IsBlock(x)
    BY DEF x
  <2>2. CacheOf(e) = CacheOf(x) /\ (OnOneNode(x) => OnOneNode(e))
    BY <1>2 DEF CacheOf, OnOneNode
  <2>3. QED
    BY <1>2, <2>1, <2>2 DEF IsBlock
<1> HIDE DEF e
<1>4. /\ IsList(q) /\ DOMAIN q = 1 .. Len(blocks)
      /\ \A i \in 1 .. Len(blocks) : q[i] = IF i = b THEN e ELSE blocks[i]
  BY ListExcept
<1> HIDE DEF q, x
<1>5. q[b] = e /\ \A i \in 1 .. Len(blocks) : i # b => q[i] = blocks[i]
  BY <1>4
<1>6. QED
  BY <1>1, <1>2, <1>3, <1>4, <1>5 DEF x

\* What a call to allocate does, whatever the policy: a new block, counted at
\* once by the system policy only.
Begins(w, b, next) ==
    /\ at[w] = "user" /\ IsBlock(b) /\ (b.live <=> next = "user")
    /\ blocks' = Append(blocks, b)
    /\ mine' = [mine EXCEPT ![w] = Len(blocks) + 1]
    /\ at' = [at EXCEPT ![w] = next]
    /\ UNCHANGED <<config, node, lock, total_allocated, turns>>

LEMMA MapBegins ==
    ASSUME NEW w, NEW sz \in Sizes, NEW home \in [Pages(sz) -> Nodes(arch)],
           NEW nodeid \in 0 .. NoNode, NEW marked, NEW cache, NEW next,
           cache = <<>> \/ cache = [k \in 1 .. Cardinality(Pages(sz)) |-> home[k - 1]],
           marked => config.pol \in {"local", "coarse"},
           config.pol \in {"local", "coarse"} => \A p \in Pages(sz) : home[p] = home[0],
           Map(w, sz, home, nodeid, marked, cache, next)
    PROVE  \E b : Begins(w, b, next)
<1> DEFINE b == [sz |-> sz, home |-> home, live |-> next = "user",
                 nodeid |-> nodeid, marked |-> marked, node_cache |-> cache]
<1>1. b = [f \in Fields |-> b[f]]
  BY DEF Fields
<1>2. /\ b.sz = sz /\ b.nodeid = nodeid /\ b.live \in BOOLEAN /\ (b.live <=> next = "user")
      /\ b.home = home /\ b.marked = marked /\ b.node_cache = cache
  OBVIOUS
<1>3. Begins(w, b, next) <=> IsBlock(b)
  BY <1>2 DEF Map, Begins
<1> HIDE DEF b
<1>4. (b.node_cache = <<>> \/ b.node_cache = CacheOf(b)) /\ (b.marked => config.pol \in {"local", "coarse"})
  BY <1>2 DEF CacheOf
<1>5. config.pol \in {"local", "coarse"} => OnOneNode(b)
  BY <1>2 DEF OnOneNode
<1>6. b.home \in [Pages(b.sz) -> Nodes(arch)]
  BY <1>2
<1>7. IsBlock(b)
  BY <1>1, <1>2, <1>4, <1>5, <1>6 DEF IsBlock
<1>8. QED
  BY <1>3, <1>7

LEMMA PagesAre ==
    ASSUME NEW sz \in Sizes
    PROVE  /\ new_sz(sz) \in Nat \ {0} /\ (new_sz(sz) - 1) \div PageSize \in Nat
           /\ 0 \in Pages(sz) /\ IsFiniteSet(Pages(sz)) /\ Pages(sz) \subseteq Nat
           /\ Cardinality(Pages(sz)) = (new_sz(sz) - 1) \div PageSize + 1
<1>1. PICK x : x = new_sz(sz) - 1
  OBVIOUS
<1>2. x \in Nat /\ new_sz(sz) \in Nat \ {0} /\ PageSize \in Nat \ {0}
  BY <1>1, SizesAssumption DEF new_sz
<1>3. x \div PageSize \in Nat
  BY <1>2
<1>4. PICK y : y = x \div PageSize
  OBVIOUS
<1>5. y \in Nat /\ Pages(sz) = 0 .. y
  BY <1>1, <1>3, <1>4 DEF Pages
<1>6. IsFiniteSet(0 .. y) /\ Cardinality(0 .. y) = y + 1
  BY <1>5, FS_Interval
<1>7. QED
  BY <1>1, <1>2, <1>4, <1>5, <1>6

LEMMA AllocateIs ==
    ASSUME MemInv, NEW w \in Workers, Allocate(w)
    PROVE  \E next \in {"user", "account", "header"} :
                /\ \E b : Begins(w, b, next)
                /\ next = "user" <=> config.pol = "system"
                /\ next = "header" => config.pol = "coarse"
<1>1. PICK sz \in Sizes : AllocateSystem(w, sz) \/ AllocateLocal(w, sz)
                            \/ AllocateFine(w, sz) \/ AllocateCoarse(w, sz)
  BY DEF Allocate
<1>2. /\ node_of_worker(w) \in 0 .. NoNode /\ NoNode \in 0 .. NoNode
      /\ node_of_worker(w) \in Nodes(arch) /\ Allowed \subseteq Nodes(arch)
  <2>1. /\ num_nodes \in Nat \ {0} /\ node_of_worker(w) \in 0 .. num_nodes - 1
        /\ Allowed \subseteq 0 .. num_nodes - 1
    BY ConfigFacts DEF MemInv, PlaceInv
  <2>2. QED
    BY <2>1 DEF NoNode, Nodes, num_nodes
<1>3. 0 \in Pages(sz)
  BY PagesAre
<1>4. CASE AllocateSystem(w, sz)
  <2>1. PICK home \in [Pages(sz) -> Nodes(arch)] : Map(w, sz, home, NoNode, FALSE, <<>>, "user")
    BY <1>4 DEF AllocateSystem
  <2>2. config.pol = "system"
    BY <1>4 DEF AllocateSystem
  <2>3. \E b : Begins(w, b, "user")
    BY <1>2, <2>1, <2>2, MapBegins
  <2>4. QED
    BY <2>2, <2>3
<1>5. CASE AllocateLocal(w, sz)
  <2>1. PICK home \in [Pages(sz) -> Nodes(arch)] :
            /\ Map(w, sz, home, node_of_worker(w), TRUE, <<>>, "account")
            /\ \A p \in Pages(sz) : home[p] = home[0]
    <3> DEFINE home == [p \in Pages(sz) |-> node_of_worker(w)]
    <3>1. home \in [Pages(sz) -> Nodes(arch)] /\ \A p \in Pages(sz) : home[p] = home[0]
      BY <1>2, <1>3
    <3>2. Map(w, sz, home, node_of_worker(w), TRUE, <<>>, "account")
      BY <1>5 DEF AllocateLocal
    <3> HIDE DEF home
    <3>3. QED
      BY <3>1, <3>2
  <2>2. config.pol = "local"
    BY <1>5 DEF AllocateLocal
  <2>3. \E b : Begins(w, b, "account")
    BY <1>2, <2>1, <2>2, MapBegins
  <2>4. QED
    BY <2>2, <2>3
<1>6. CASE AllocateFine(w, sz)
  <2>1. PICK home \in [Pages(sz) -> Allowed] :
            Map(w, sz, home, NoNode, FALSE, [k \in 1 .. Cardinality(Pages(sz)) |-> home[k - 1]], "account")
    BY <1>6 DEF AllocateFine
  <2>2. config.pol = "fine"
    BY <1>6 DEF AllocateFine
  <2>3. PICK cache : /\ cache = [k \in 1 .. Cardinality(Pages(sz)) |-> home[k - 1]]
                     /\ Map(w, sz, home, NoNode, FALSE, cache, "account")
    BY <2>1
  <2>4. home \in [Pages(sz) -> Nodes(arch)]
    BY <1>2
  <2>5. \E b : Begins(w, b, "account")
    BY <1>2, <2>2, <2>3, <2>4, MapBegins
  <2>6. QED
    BY <2>2, <2>5
<1>7. CASE AllocateCoarse(w, sz)
  <2>1. PICK n \in Nodes(arch) : Map(w, sz, [p \in Pages(sz) |-> n], NoNode, FALSE, <<>>, "header")
    BY <1>7 DEF AllocateCoarse
  <2>2. config.pol = "coarse"
    BY <1>7 DEF AllocateCoarse
  <2>3. PICK home : home = [p \in Pages(sz) |-> n]
    OBVIOUS
  <2>4. home \in [Pages(sz) -> Nodes(arch)] /\ \A p \in Pages(sz) : home[p] = home[0]
    BY <1>3, <2>3
  <2>5. Map(w, sz, home, NoNode, FALSE, <<>>, "header")
    BY <2>1, <2>3
  <2>6. \E b : Begins(w, b, "header")
    BY <1>2, <2>2, <2>4, <2>5, MapBegins
  <2>7. QED
    BY <2>2, <2>6
<1>8. QED
  BY <1>1, <1>4, <1>5, <1>6, <1>7
-----------------------------------------------------------------------------
(* Every step keeps the invariant *)

LEMMA MemInit == Init => MemInv
<1> SUFFICES ASSUME Init PROVE MemInv
  OBVIOUS
<1>1. /\ 0 \in Workers /\ None \notin Workers /\ num_nodes \in Nat \ {0}
      /\ node_of_worker(0) \in 0 .. num_nodes - 1
  BY ConfigFacts DEF Init
<1>2. PlaceInv
  BY DEF PlaceInv, Init, Places, None
<1>3. BlockInv /\ Used = {}
  BY DEF BlockInv, IsList, Used, Init
<1>4. HandInv
  BY DEF HandInv, Init
<1>5. NodeInv
  BY <1>1 DEF NodeInv, Init, Holding
<1>6. BytesInv
  <2>1. Live = {} /\ Leaving = {}
    BY <1>3 DEF Live, Leaving, Init
  <2>2. BytesOf(blocks, {}) = 0
    BY BytesFacts, FS_EmptySet
  <2>3. QED
    BY <2>1, <2>2 DEF BytesInv, Init
<1>7. QED
  BY <1>2, <1>3, <1>4, <1>5, <1>6 DEF MemInv

LEMMA PlaceStep ==
    ASSUME MemInv, [Next]_vars
    PROVE  PlaceInv'
<1> USE DEF MemInv, PlaceInv
<1>1. CASE UNCHANGED vars
  BY <1>1, SameMachine DEF vars
<1>2. ASSUME NEW w \in Workers, Allocate(w)  PROVE PlaceInv'
  <2>1. PICK next \in {"user", "account", "header"} :
                /\ \E b : Begins(w, b, next)
                /\ next = "user" <=> config.pol = "system"
                /\ next = "header" => config.pol = "coarse"
    BY <1>2, AllocateIs
  <2>2. Len(blocks) \in Nat
    BY DEF BlockInv, IsList
  <2>3. /\ config' = config /\ mine' = [mine EXCEPT ![w] = Len(blocks) + 1]
        /\ at[w] = "user" /\ at' = [at EXCEPT ![w] = next]
    BY <2>1 DEF Begins
  <2>4. at' \in [Workers -> Places] /\ mine' \in [Workers -> Int]
    BY <2>2, <2>3 DEF Places
  <2>5. config.pol = "system" => \A v \in Workers : at'[v] = "user"
    BY <2>1, <2>3
  <2>6. \A v \in Workers : at'[v] = "header" => config.pol = "coarse"
    BY <2>1, <2>3
  <2>7. QED
    BY <2>3, <2>4, <2>5, <2>6, SameMachine
<1>3. ASSUME NEW w \in Workers, GoOn(w)  PROVE PlaceInv'
  BY <1>3, SameMachine
     DEF GoOn, WriteHeader, LockNode, Step, StepWrap, Check, Account, Subtract, Places
<1>4. ASSUME NEW w \in Workers, Reset(w)  PROVE PlaceInv'
  BY <1>4, SameMachine DEF Reset
<1>5. ASSUME NEW w \in Workers, NEW b \in Used, Release(w, b)  PROVE PlaceInv'
  <2>1. b \in Int
    BY DEF BlockInv, IsList, Used
  <2>2. QED
    BY <1>5, <2>1, SameMachine DEF Release, Places
<1>6. QED
  BY <1>1, <1>2, <1>3, <1>4, <1>5 DEF Next

\* Blocks stay blocks of the same size.
LEMMA BlockStep ==
    ASSUME MemInv, [Next]_vars
    PROVE  /\ BlockInv' /\ Used \subseteq Used'
           /\ \A b \in Used : blocks'[b].sz = blocks[b].sz
<1>1. IsList(blocks) /\ Used = 1 .. Len(blocks) /\ \A b \in Used : IsBlock(blocks[b])
  BY DEF MemInv, BlockInv, IsList, Used
<1>2. config' = config
  BY DEF Next, vars, Allocate, AllocateSystem, AllocateLocal, AllocateFine, AllocateCoarse, Map,
         GoOn, WriteHeader, LockNode, Step, StepWrap, Check, Account, Subtract, Reset, Release
<1>3. \A r : IsBlock(r) => IsBlock(r)'
  <2>1. arch' = arch /\ Nodes(arch)' = Nodes(arch) /\ (0 .. NoNode)' = 0 .. NoNode
    BY <1>2, SameMachine
  <2>2. QED
    BY <1>2, <2>1 DEF IsBlock, CacheOf, OnOneNode
<1>4. ASSUME IsList(blocks'), Used \subseteq DOMAIN blocks', \A b \in DOMAIN blocks' : IsBlock(blocks'[b]),
             \A b \in Used : blocks'[b].sz = blocks[b].sz
      PROVE  /\ BlockInv' /\ Used \subseteq Used'
             /\ \A b \in Used : blocks'[b].sz = blocks[b].sz
  <2>1. \A b \in Used' : IsBlock(blocks[b])'
    <3>1. ASSUME NEW b \in DOMAIN blocks'  PROVE IsBlock(blocks[b])'
      <4>1. PICK r : r = blocks'[b]
        OBVIOUS
      <4>2. IsBlock(r)'
        BY <1>3, <1>4, <4>1
      <4>3. QED
        BY <1>2, <4>1, <4>2 DEF IsBlock
    <3>2. QED
      BY <3>1 DEF Used
  <2>2. IsList(blocks)'
    BY <1>4 DEF IsList
  <2>3. QED
    BY <1>4, <2>1, <2>2 DEF BlockInv, Used
<1>5. CASE blocks' = blocks
  BY <1>1, <1>4, <1>5 DEF Used
<1>6. ASSUME NEW w \in Workers, NEW b, NEW next, Begins(w, b, next)
      PROVE  /\ BlockInv' /\ Used \subseteq Used'
             /\ \A c \in Used : blocks'[c].sz = blocks[c].sz
  <2>1. blocks' = Append(blocks, b) /\ IsBlock(b) /\ Len(blocks) \in Nat
    BY <1>1, <1>6 DEF Begins, IsList
  <2>2. /\ IsList(blocks') /\ DOMAIN blocks' = 1 .. Len(blocks) + 1
        /\ \A i \in 1 .. Len(blocks) : blocks'[i] = blocks[i]
        /\ blocks'[Len(blocks) + 1] = b
    BY <1>1, <2>1, ListAppend
  <2>3. \A c \in DOMAIN blocks' : IsBlock(blocks'[c])
    <3>1. ASSUME NEW c \in 1 .. Len(blocks) + 1  PROVE IsBlock(blocks'[c])
      <4>1. CASE c = Len(blocks) + 1
        BY <2>1, <2>2, <4>1
      <4>2. CASE c # Len(blocks) + 1
        <5>1. c \in 1 .. Len(blocks)
          BY <2>1, <4>2
        <5>2. QED
          BY <1>1, <2>2, <5>1
      <4>3. QED
        BY <4>1, <4>2
    <3>2. QED
      BY <2>2, <3>1
  <2>4. Used \subseteq DOMAIN blocks' /\ \A c \in Used : blocks'[c].sz = blocks[c].sz
    BY <1>1, <2>1, <2>2
  <2>5. QED
    BY <1>4, <2>2, <2>3, <2>4
<1>7. ASSUME NEW b \in Used, NEW l \in BOOLEAN, blocks' = [blocks EXCEPT ![b].live = l]
      PROVE  /\ BlockInv' /\ Used \subseteq Used'
             /\ \A c \in Used : blocks'[c].sz = blocks[c].sz
  <2>1. b \in 1 .. Len(blocks) /\ IsBlock(blocks[b])
    BY <1>1
  <2>2. /\ IsList(blocks') /\ DOMAIN blocks' = 1 .. Len(blocks)
        /\ \A i \in 1 .. Len(blocks) : i # b => blocks'[i] = blocks[i]
        /\ IsBlock(blocks'[b]) /\ blocks'[b].sz = blocks[b].sz
    BY <1>1, <1>7, <2>1, SetLive
  <2>3. QED
    BY <1>1, <1>4, <2>2
<1>8. ASSUME NEW w \in Workers, WriteHeader(w)
      PROVE  /\ BlockInv' /\ Used \subseteq Used'
             /\ \A c \in Used : blocks'[c].sz = blocks[c].sz
  <2>1. PICK b : b = mine[w]
    OBVIOUS
  <2>2. b \in 1 .. Len(blocks) /\ IsBlock(blocks[b])
    BY <1>1, <1>8, <2>1 DEF MemInv, HandInv, WriteHeader
  <2>3. node \in 0 .. NoNode /\ config.pol = "coarse"
    <3>1. node \in 0 .. NoNode
      BY ConfigFacts DEF MemInv, PlaceInv, NodeInv, NoNode
    <3>2. QED
      BY <1>8, <3>1 DEF MemInv, PlaceInv, WriteHeader
  <2>4. blocks' = [blocks EXCEPT ![b].nodeid = node, ![b].marked = TRUE]
    BY <1>8, <2>1 DEF WriteHeader
  <2>5. /\ IsList(blocks') /\ DOMAIN blocks' = 1 .. Len(blocks)
        /\ \A i \in 1 .. Len(blocks) : i # b => blocks'[i] = blocks[i]
        /\ IsBlock(blocks'[b]) /\ blocks'[b].sz = blocks[b].sz
    BY <1>1, <2>2, <2>3, <2>4, SetHeader
  <2>6. QED
    BY <1>1, <1>4, <2>5
<1>9. CASE UNCHANGED vars
  BY <1>5, <1>9 DEF vars
<1>10. ASSUME NEW w \in Workers, Allocate(w)
       PROVE  /\ BlockInv' /\ Used \subseteq Used'
              /\ \A c \in Used : blocks'[c].sz = blocks[c].sz
  <2>1. PICK b, next : Begins(w, b, next)
    BY <1>10, AllocateIs
  <2>2. QED
    BY <1>6, <2>1
<1>11. ASSUME NEW w \in Workers, GoOn(w)
       PROVE  /\ BlockInv' /\ Used \subseteq Used'
              /\ \A c \in Used : blocks'[c].sz = blocks[c].sz
  <2>1. CASE Account(w)
    <3>1. mine[w] \in Used
      BY <2>1 DEF MemInv, HandInv, Account
    <3>2. blocks' = [blocks EXCEPT ![mine[w]].live = TRUE]
      BY <2>1 DEF Account
    <3>3. QED
      BY <1>7, <3>1, <3>2
  <2>2. CASE LockNode(w) \/ Step(w) \/ StepWrap(w) \/ Check(w) \/ Subtract(w)
    BY <1>5, <2>2 DEF LockNode, Step, StepWrap, Check, Subtract
  <2>3. QED
    BY <1>8, <1>11, <2>1, <2>2 DEF GoOn
<1>12. ASSUME NEW w \in Workers, Reset(w)
       PROVE  /\ BlockInv' /\ Used \subseteq Used'
              /\ \A c \in Used : blocks'[c].sz = blocks[c].sz
  BY <1>5, <1>12 DEF Reset
<1>13. ASSUME NEW w \in Workers, NEW b \in Used, Release(w, b)
       PROVE  /\ BlockInv' /\ Used \subseteq Used'
              /\ \A c \in Used : blocks'[c].sz = blocks[c].sz
  BY <1>7, <1>13 DEF Release
<1>14. QED
  BY <1>9, <1>10, <1>11, <1>12, <1>13 DEF Next

\* What each step that writes blocks does to them.
LEMMA BeginsIs ==
    ASSUME MemInv, NEW w \in Workers, NEW b, NEW next, Begins(w, b, next)
    PROVE  /\ Used = 1 .. Len(blocks) /\ Len(blocks) \in Nat /\ Used' = 1 .. Len(blocks) + 1
           /\ \A i \in Used : blocks'[i] = blocks[i]
           /\ blocks'[Len(blocks) + 1] = b /\ IsBlock(b) /\ (b.live <=> next = "user")
<1>1. IsList(blocks) /\ Used = 1 .. Len(blocks) /\ Len(blocks) \in Nat
  BY DEF MemInv, BlockInv, IsList, Used
<1>2. blocks' = Append(blocks, b) /\ IsBlock(b) /\ (b.live <=> next = "user")
  BY DEF Begins
<1>3. /\ DOMAIN blocks' = 1 .. Len(blocks) + 1
      /\ \A i \in 1 .. Len(blocks) : blocks'[i] = blocks[i]
      /\ blocks'[Len(blocks) + 1] = b
  BY <1>1, <1>2, ListAppend
<1>4. QED
  BY <1>1, <1>2, <1>3 DEF Used

LEMMA MarksIs ==
    ASSUME MemInv, NEW b \in Used, NEW l \in BOOLEAN, blocks' = [blocks EXCEPT ![b].live = l]
    PROVE  /\ Used' = Used /\ blocks'[b].live = l
           /\ \A i \in Used : i # b => blocks'[i] = blocks[i]
<1>1. IsList(blocks) /\ Used = 1 .. Len(blocks) /\ \A i \in Used : IsBlock(blocks[i])
  BY DEF MemInv, BlockInv, IsList, Used
<1>2. b \in 1 .. Len(blocks) /\ IsBlock(blocks[b])
  BY <1>1
<1>3. /\ DOMAIN blocks' = 1 .. Len(blocks) /\ blocks'[b].live = l
      /\ \A i \in 1 .. Len(blocks) : i # b => blocks'[i] = blocks[i]
  BY <1>1, <1>2, SetLive
<1>4. QED
  BY <1>1, <1>3 DEF Used

LEMMA WritesIs ==
    ASSUME MemInv, NEW w \in Workers, WriteHeader(w)
    PROVE  Used' = Used /\ \A i \in Used : blocks'[i].live = blocks[i].live
<1>1. IsList(blocks) /\ Used = 1 .. Len(blocks) /\ \A i \in Used : IsBlock(blocks[i])
  BY DEF MemInv, BlockInv, IsList, Used
<1>2. PICK b : b = mine[w]
  OBVIOUS
<1>3. b \in 1 .. Len(blocks) /\ IsBlock(blocks[b])
  BY <1>1, <1>2 DEF MemInv, HandInv, WriteHeader
<1>4. node \in 0 .. NoNode /\ config.pol = "coarse"
  <2>1. node \in 0 .. NoNode
    BY ConfigFacts DEF MemInv, PlaceInv, NodeInv, NoNode
  <2>2. QED
    BY <2>1 DEF MemInv, PlaceInv, WriteHeader
<1>5. blocks' = [blocks EXCEPT ![b].nodeid = node, ![b].marked = TRUE]
  BY <1>2 DEF WriteHeader
<1>6. /\ DOMAIN blocks' = 1 .. Len(blocks) /\ blocks'[b].live = blocks[b].live
      /\ \A i \in 1 .. Len(blocks) : i # b => blocks'[i] = blocks[i]
  BY <1>1, <1>3, <1>4, <1>5, SetHeader
<1>7. QED
  BY <1>1, <1>6 DEF Used

LEMMA HandStep ==
    ASSUME MemInv, [Next]_vars
    PROVE  HandInv'
<1>1. /\ \A w \in Workers : at[w] # "user" =>
            /\ mine[w] \in Used /\ ~blocks[mine[w]].live
            /\ \A v \in Workers : at[v] # "user" /\ mine[v] = mine[w] => v = w
      /\ at \in [Workers -> Places] /\ mine \in [Workers -> Int]
      /\ config.pol = "system" => \A w \in Workers : at[w] = "user"
  BY DEF MemInv, HandInv, PlaceInv
<1> DEFINE Held == \A w \in Workers : at'[w] # "user" =>
                /\ mine'[w] \in Used' /\ ~blocks'[mine'[w]].live
                /\ \A v \in Workers : at'[v] # "user" /\ mine'[v] = mine'[w] => v = w
<1>2. config' = config /\ Held => HandInv'
  BY SameMachine DEF HandInv
<1>3. ASSUME blocks' = blocks, mine' = mine, \A w \in Workers : at[w] = "user" => at'[w] = "user"
      PROVE  Held
  BY <1>1, <1>3 DEF Used
<1>4. CASE UNCHANGED vars
  BY <1>2, <1>3, <1>4 DEF vars
<1>5. ASSUME NEW w \in Workers, Allocate(w)  PROVE HandInv'
  <2>1. PICK next \in {"user", "account", "header"} :
                (\E b : Begins(w, b, next)) /\ (next = "user" <=> config.pol = "system")
    BY <1>5, AllocateIs
  <2>2. PICK b : Begins(w, b, next)
    BY <2>1
  <2>3. PICK n : n = Len(blocks)
    OBVIOUS
  <2>4. /\ config' = config /\ at' = [at EXCEPT ![w] = next]
        /\ mine' = [mine EXCEPT ![w] = n + 1]
    BY <2>2, <2>3 DEF Begins
  <2>5. /\ Used = 1 .. n /\ n \in Nat /\ Used' = 1 .. n + 1
        /\ \A i \in Used : blocks'[i] = blocks[i]
        /\ next # "user" => ~blocks'[n + 1].live
    BY <2>2, <2>3, BeginsIs
  <2>6. CASE next = "user"
    <3>1. \A v \in Workers : at'[v] = "user"
      BY <1>1, <2>1, <2>4, <2>6
    <3>2. QED
      BY <1>2, <2>4, <3>1
  <2>7. CASE next # "user"
    <3>1. at'[w] # "user" /\ mine'[w] = n + 1
      BY <1>1, <2>4, <2>7
    <3>2. \A v \in Workers : v # w => at'[v] = at[v] /\ mine'[v] = mine[v]
      BY <1>1, <2>4
    <3>3. ASSUME NEW v \in Workers, at'[v] # "user"
          PROVE  /\ mine'[v] \in Used' /\ ~blocks'[mine'[v]].live
                 /\ v # w => mine'[v] # n + 1
      <4>1. CASE v = w
        BY <2>5, <2>7, <3>1, <4>1
      <4>2. CASE v # w
        <5>1. mine[v] \in 1 .. n /\ ~blocks[mine[v]].live /\ mine'[v] = mine[v]
          BY <1>1, <2>5, <3>2, <3>3, <4>2
        <5>2. QED
          BY <2>5, <5>1
      <4>3. QED
        BY <4>1, <4>2
    <3>4. ASSUME NEW v \in Workers, at'[v] # "user", NEW u \in Workers, at'[u] # "user",
                 mine'[u] = mine'[v]
          PROVE  u = v
      <4>1. CASE u = w \/ v = w
        BY <3>1, <3>3, <3>4, <4>1
      <4>2. CASE u # w /\ v # w
        BY <1>1, <3>2, <3>4, <4>2
      <4>3. QED
        BY <4>1, <4>2
    <3>5. Held
      BY <3>3, <3>4
    <3>6. QED
      BY <1>2, <2>4, <3>5
  <2>8. QED
    BY <2>6, <2>7
<1>6. ASSUME NEW w \in Workers, WriteHeader(w)  PROVE HandInv'
  <2>1. Used' = Used /\ \A i \in Used : blocks'[i].live = blocks[i].live
    BY <1>6, WritesIs
  <2>2. config' = config /\ mine' = mine /\ \A v \in Workers : at[v] = "user" => at'[v] = "user"
    BY <1>1, <1>6 DEF WriteHeader
  <2>3. Held
    BY <1>1, <2>1, <2>2
  <2>4. QED
    BY <1>2, <2>2, <2>3
<1>7. ASSUME NEW w \in Workers, Account(w)  PROVE HandInv'
  <2>1. /\ config' = config /\ mine' = mine /\ at' = [at EXCEPT ![w] = "user"]
        /\ at[w] # "user" /\ blocks' = [blocks EXCEPT ![mine[w]].live = TRUE]
    BY <1>7 DEF Account
  <2>2. mine[w] \in Used
    BY <1>1, <2>1
  <2>3. Used' = Used /\ \A i \in Used : i # mine[w] => blocks'[i] = blocks[i]
    BY <2>1, <2>2, MarksIs
  <2>4. Held
    BY <1>1, <2>1, <2>3
  <2>5. QED
    BY <1>2, <2>1, <2>4
<1>8. ASSUME NEW w \in Workers, LockNode(w) \/ Step(w) \/ StepWrap(w) \/ Check(w) \/ Subtract(w)
      PROVE  HandInv'
  <2>1. config' = config /\ blocks' = blocks /\ mine' = mine
    BY <1>8 DEF LockNode, Step, StepWrap, Check, Subtract
  <2>2. \A v \in Workers : at[v] = "user" => at'[v] = "user"
    BY <1>1, <1>8 DEF LockNode, Step, StepWrap, Check, Subtract
  <2>3. QED
    BY <1>2, <1>3, <2>1, <2>2
<1>9. ASSUME NEW w \in Workers, Reset(w)  PROVE HandInv'
  BY <1>2, <1>3, <1>9 DEF Reset
<1>10. ASSUME NEW w \in Workers, NEW b \in Used, Release(w, b)  PROVE HandInv'
  <2>1. /\ config' = config /\ mine' = [mine EXCEPT ![w] = b]
        /\ at' = [at EXCEPT ![w] = IF config.pol = "system" THEN "user" ELSE "subtract"]
        /\ at[w] = "user" /\ blocks[b].live /\ blocks' = [blocks EXCEPT ![b].live = FALSE]
    BY <1>10 DEF Release
  <2>2. /\ Used' = Used /\ blocks'[b].live = FALSE
        /\ \A i \in Used : i # b => blocks'[i] = blocks[i]
    BY <2>1, MarksIs
  <2>3. CASE config.pol = "system"
    <3>1. \A v \in Workers : at'[v] = "user"
      BY <1>1, <2>1, <2>3
    <3>2. QED
      BY <1>2, <2>1, <3>1
  <2>4. CASE config.pol # "system"
    <3>1. mine'[w] = b /\ \A v \in Workers : v # w => at'[v] = at[v] /\ mine'[v] = mine[v]
      BY <1>1, <2>1
    <3>2. \A v \in Workers : at[v] # "user" => v # w /\ mine[v] # b
      BY <1>1, <2>1
    <3>3. Held
      BY <1>1, <2>2, <3>1, <3>2
    <3>4. QED
      BY <1>2, <2>1, <3>3
  <2>5. QED
    BY <2>3, <2>4
<1>11. QED
  BY <1>4, <1>5, <1>6, <1>7, <1>8, <1>9, <1>10 DEF Next, GoOn

\* The node is changed by the holder of the lock, or by a reset when there is none.
LEMMA NodeStep ==
    ASSUME MemInv, [Next]_vars
    PROVE  NodeInv'
<1>1. /\ node \in 0 .. num_nodes /\ lock \in Workers \cup {None}
      /\ \A w \in Workers : at[w] \in Holding <=> lock = w
      /\ node = num_nodes => lock # None /\ at[lock] = "wrap"
      /\ at \in [Workers -> Places]
  BY DEF MemInv, NodeInv, PlaceInv
<1>2. num_nodes \in Nat \ {0} /\ None \notin Workers
  BY ConfigFacts DEF MemInv, PlaceInv
<1>3. \A x \in Nat : Wrap(x) \in 0 .. num_nodes - 1
  BY <1>2 DEF Wrap
<1> DEFINE N == num_nodes
           Good == /\ node' \in 0 .. N /\ lock' \in Workers \cup {None}
                   /\ \A w \in Workers : at'[w] \in Holding <=> lock' = w
                   /\ node' = N => lock' # None /\ at'[lock'] = "wrap"
<1>4. config' = config /\ Good => NodeInv'
  BY SameMachine DEF NodeInv
<1>5. ASSUME lock' = lock, node' = node, config' = config, NEW w \in Workers,
             at[w] \notin Holding, NEW place \in Places \ Holding, at' = [at EXCEPT ![w] = place]
      PROVE  NodeInv'
  <2>1. \A v \in Workers : at'[v] \in Holding <=> at[v] \in Holding
    BY <1>1, <1>5
  <2>2. lock # None => lock # w /\ at'[lock] = at[lock]
    BY <1>1, <1>5
  <2>3. Good
    BY <1>1, <1>5, <2>1, <2>2
  <2>4. QED
    BY <1>4, <1>5, <2>3
<1>6. CASE UNCHANGED vars
  BY <1>1, <1>4, <1>6 DEF vars
<1>7. ASSUME NEW w \in Workers, Allocate(w)  PROVE NodeInv'
  <2>1. PICK next \in {"user", "account", "header"} : \E b : Begins(w, b, next)
    BY <1>7, AllocateIs
  <2>2. /\ config' = config /\ lock' = lock /\ node' = node /\ at[w] = "user"
        /\ at' = [at EXCEPT ![w] = next]
    BY <2>1 DEF Begins
  <2>3. at[w] \notin Holding /\ next \in Places \ Holding
    BY <2>1, <2>2 DEF Places, Holding
  <2>4. QED
    BY <1>5, <2>2, <2>3
<1>8. ASSUME NEW w \in Workers, WriteHeader(w)  PROVE NodeInv'
  <2>1. at[w] \notin Holding /\ "lock" \in Places \ Holding
    BY <1>8 DEF WriteHeader, Places, Holding
  <2>2. QED
    BY <1>5, <1>8, <2>1 DEF WriteHeader
<1>9. ASSUME NEW w \in Workers, Account(w) \/ Subtract(w)  PROVE NodeInv'
  <2>1. at[w] \notin Holding /\ "user" \in Places \ Holding
    BY <1>9 DEF Account, Subtract, Places, Holding
  <2>2. QED
    BY <1>5, <1>9, <2>1 DEF Account, Subtract
<1>10. ASSUME NEW w \in Workers, NEW b \in Used, Release(w, b)  PROVE NodeInv'
  <2>1. PICK next \in {"user", "subtract"} : at' = [at EXCEPT ![w] = next]
    BY <1>10 DEF Release
  <2>2. at[w] \notin Holding /\ next \in Places \ Holding
    BY <1>10 DEF Release, Places, Holding
  <2>3. QED
    BY <1>5, <1>10, <2>1, <2>2 DEF Release
<1>11. ASSUME NEW w \in Workers, LockNode(w)  PROVE NodeInv'
  <2>1. lock = None /\ lock' = w /\ at' = [at EXCEPT ![w] = "advance"] /\ config' = config /\ node' = node
    BY <1>11 DEF LockNode
  <2>2. node \in 0 .. N - 1
    BY <1>1, <1>2, <2>1
  <2>3. Good
    BY <1>1, <1>2, <2>1, <2>2 DEF Holding
  <2>4. QED
    BY <1>4, <2>1, <2>3
<1>12. ASSUME NEW w \in Workers, Step(w) \/ StepWrap(w)  PROVE NodeInv'
  <2>1. lock' = lock /\ config' = config /\ at[w] \in {"advance", "wrap"}
    BY <1>12 DEF Step, StepWrap
  <2>2. lock = w
    BY <1>1, <2>1 DEF Holding
  <2>3. /\ \/ node' = node + 1 /\ at' = [at EXCEPT ![w] = "wrap"] /\ at[w] = "advance"
           \/ node' = Wrap(node + 1) /\ at' = [at EXCEPT ![w] = "check"]
           \/ node' = Wrap(node) /\ at' = [at EXCEPT ![w] = "check"]
    BY <1>12 DEF Step, StepWrap
  <2>4. at[w] = "advance" => node \in 0 .. N - 1
    BY <1>1, <1>2, <2>2
  <2>5. /\ node' \in 0 .. N
        /\ node' = N => at'[w] = "wrap"
        /\ at'[w] \in Holding
        /\ \A v \in Workers : v # w => at'[v] = at[v]
    <3>1. node \in Nat /\ node + 1 \in Nat /\ N \in Nat
      BY <1>1, <1>2
    <3>2. Wrap(node) \in 0 .. N - 1 /\ Wrap(node + 1) \in 0 .. N - 1
      BY <1>3, <3>1
    <3>3. QED
      BY <1>1, <2>3, <2>4, <3>1, <3>2 DEF Holding
  <2>6. Good
    BY <1>1, <1>2, <2>1, <2>2, <2>5
  <2>7. QED
    BY <1>4, <2>1, <2>6
<1>13. ASSUME NEW w \in Workers, Check(w)  PROVE NodeInv'
  <2>1. config' = config /\ node' = node /\ at[w] = "check"
    BY <1>13 DEF Check
  <2>2. lock = w /\ node \in 0 .. N - 1
    BY <1>1, <1>2, <2>1 DEF Holding
  <2>3. CASE lock' = None /\ at' = [at EXCEPT ![w] = "account"]
    <3>1. Good
      BY <1>1, <1>2, <2>1, <2>2, <2>3 DEF Holding
    <3>2. QED
      BY <1>4, <2>1, <3>1
  <2>4. CASE lock' = lock /\ at' = [at EXCEPT ![w] = "advance"]
    <3>1. Good
      BY <1>1, <1>2, <2>1, <2>2, <2>4 DEF Holding
    <3>2. QED
      BY <1>4, <2>1, <3>1
  <2>5. QED
    BY <1>13, <2>3, <2>4 DEF Check
<1>14. ASSUME NEW w \in Workers, Reset(w)  PROVE NodeInv'
  <2>1. config' = config /\ node' = 0 /\ lock' = lock /\ at' = at /\ lock = None
    BY <1>14 DEF Reset
  <2>2. Good
    BY <1>1, <1>2, <2>1
  <2>3. QED
    BY <1>4, <2>1, <2>2
<1>15. QED
  BY <1>6, <1>7, <1>8, <1>9, <1>10, <1>11, <1>12, <1>13, <1>14 DEF Next, GoOn

LEMMA LeavingIs ==
    ASSUME NEW b
    PROVE  b \in Leaving <=> \E v \in Workers : at[v] = "subtract" /\ mine[v] = b
BY DEF Leaving

LEMMA BytesStep ==
    ASSUME MemInv, [Next]_vars
    PROVE  BytesInv'
<1> DEFINE sum(S) == BytesOf(blocks, S)
           sys == config.pol = "system"
<1>1. /\ IsFiniteSet(Used) /\ Live \subseteq Used /\ Leaving \subseteq Used
      /\ \A b \in Used : new_sz(blocks[b].sz) \in Nat
      /\ \A b \in Leaving : b \notin Live
  <2>1. /\ Used = 1 .. Len(blocks) /\ Len(blocks) \in Nat
        /\ \A b \in Used : blocks[b].sz \in Sizes
    BY DEF MemInv, BlockInv, IsList, Used, IsBlock
  <2>2. IsFiniteSet(Used)
    BY <2>1, FS_Interval
  <2>3. \A b \in Leaving : b \in Used /\ ~blocks[b].live
    BY LeavingIs DEF MemInv, HandInv
  <2>4. QED
    BY <2>1, <2>2, <2>3, SizeFacts DEF Live
<1>2. /\ total_allocated = IF sys THEN 0 ELSE sum(Live) + sum(Leaving)
      /\ sys => \A w \in Workers : at[w] = "user"
  BY DEF MemInv, BytesInv, PlaceInv
<1>3. ASSUME NEW S \in SUBSET Used
      PROVE  /\ IsFiniteSet(S) /\ sum(S) \in Nat /\ BytesOf(blocks', S) = sum(S)
             /\ \A b \in S : sum(S) = sum(S \ {b}) + new_sz(blocks[b].sz) /\ sum(S \ {b}) \in Nat
  <2>1. IsFiniteSet(S) /\ \A b \in S : new_sz(blocks[b].sz) \in Nat
    BY <1>1, FS_Subset
  <2>2. sum(S) \in Nat
    BY <2>1, BytesFacts
  <2>3. BytesOf(blocks', S) = sum(S)
    <3>1. \A b \in S : blocks'[b].sz = blocks[b].sz
      BY BlockStep
    <3>2. PICK r : r = blocks'
      OBVIOUS
    <3>3. BytesOf(r, S) = BytesOf(blocks, S)
      BY <2>1, <3>1, <3>2, BytesSame
    <3>4. QED
      BY <3>2, <3>3
  <2>4. ASSUME NEW b \in S
        PROVE  sum(S) = sum(S \ {b}) + new_sz(blocks[b].sz) /\ sum(S \ {b}) \in Nat
    <3>1. IsFiniteSet(S \ {b}) /\ \A c \in S \ {b} : new_sz(blocks[c].sz) \in Nat
      BY <2>1, FS_Subset
    <3>2. BytesOf(blocks, S \ {b}) \in Nat
      BY <3>1, BytesFacts
    <3>3. QED
      BY <2>1, <3>2, BytesAdd
  <2>5. QED
    BY <2>1, <2>2, <2>3, <2>4
<1>4. config' = config
  BY DEF Next, vars, Allocate, AllocateSystem, AllocateLocal, AllocateFine, AllocateCoarse, Map,
         GoOn, WriteHeader, LockNode, Step, StepWrap, Check, Account, Subtract, Reset, Release
<1>5. ASSUME NEW L \in SUBSET Used, NEW V \in SUBSET Used, Live' = L, Leaving' = V,
             total_allocated' = IF sys THEN 0 ELSE sum(L) + sum(V)
      PROVE  BytesInv'
  <2>1. BytesOf(blocks', L) = sum(L) /\ BytesOf(blocks', V) = sum(V)
    BY <1>3
  <2>2. BytesOf(blocks, Live)' = sum(L) /\ BytesOf(blocks, Leaving)' = sum(V)
    BY <1>5, <2>1
  <2>3. QED
    BY <1>4, <1>5, <2>2 DEF BytesInv
<1>6. ASSUME Used \subseteq Used', \A b \in Used' : blocks'[b].live <=> b \in Used /\ blocks[b].live
      PROVE  Live' = Live
  BY <1>6 DEF Live
<1>7. ASSUME \A v \in Workers : at'[v] = "subtract" <=> at[v] = "subtract",
             \A v \in Workers : at[v] = "subtract" => mine'[v] = mine[v]
      PROVE  Leaving' = Leaving
  BY <1>4, <1>7, SameMachine DEF Leaving
<1>8. CASE UNCHANGED <<blocks, at, mine, total_allocated>>
  <2>1. Live' = Live /\ Leaving' = Leaving
    BY <1>4, <1>8, SameMachine DEF Live, Leaving, Used
  <2>2. QED
    BY <1>1, <1>2, <1>5, <1>8, <2>1
<1>9. at \in [Workers -> Places] /\ mine \in [Workers -> Int]
  BY DEF MemInv, PlaceInv
<1>10. ASSUME NEW w \in Workers, Allocate(w)  PROVE BytesInv'
  <2>1. PICK next \in {"user", "account", "header"} :
                (\E b : Begins(w, b, next)) /\ (next = "user" <=> config.pol = "system")
    BY <1>10, AllocateIs
  <2>2. PICK b : Begins(w, b, next)
    BY <2>1
  <2>3. PICK n : n = Len(blocks)
    OBVIOUS
  <2>4. /\ at[w] = "user" /\ at' = [at EXCEPT ![w] = next] /\ mine' = [mine EXCEPT ![w] = n + 1]
        /\ total_allocated' = total_allocated
    BY <2>2, <2>3 DEF Begins
  <2>5. /\ Used = 1 .. n /\ n \in Nat /\ Used' = 1 .. n + 1
        /\ \A i \in Used : blocks'[i] = blocks[i]
        /\ next # "user" => ~blocks'[n + 1].live
    BY <2>2, <2>3, BeginsIs
  <2>6. CASE sys
    BY <1>2, <1>4, <2>4, <2>6 DEF BytesInv
  <2>7. CASE ~sys
    <3>1. \A i \in Used' : blocks'[i].live <=> i \in Used /\ blocks[i].live
      <4>1. ~blocks'[n + 1].live
        BY <2>1, <2>5, <2>7
      <4>2. \A i \in Used' : i # n + 1 => i \in Used
        BY <2>5
      <4>3. n + 1 \notin Used
        BY <2>5
      <4>4. QED
        BY <2>5, <4>1, <4>2, <4>3
    <3>2. Live' = Live
      BY <1>6, <2>5, <3>1
    <3>3. Leaving' = Leaving
      BY <1>7, <1>9, <2>4
    <3>4. QED
      BY <1>1, <1>2, <1>5, <2>4, <3>2, <3>3
  <2>8. QED
    BY <2>6, <2>7
<1>11. ASSUME NEW w \in Workers, WriteHeader(w)  PROVE BytesInv'
  <2>1. Used' = Used /\ \A i \in Used : blocks'[i].live = blocks[i].live
    BY <1>11, WritesIs
  <2>2. Live' = Live
    BY <2>1 DEF Live
  <2>3. mine' = mine /\ at' = [at EXCEPT ![w] = "lock"] /\ at[w] = "header"
        /\ total_allocated' = total_allocated
    BY <1>11 DEF WriteHeader
  <2>4. Leaving' = Leaving
    BY <1>7, <1>9, <2>3
  <2>5. QED
    BY <1>1, <1>2, <1>5, <2>2, <2>3, <2>4
<1>12. ASSUME NEW w \in Workers, LockNode(w) \/ Step(w) \/ StepWrap(w) \/ Check(w)
       PROVE  BytesInv'
  <2>1. blocks' = blocks /\ mine' = mine /\ total_allocated' = total_allocated
    BY <1>12 DEF LockNode, Step, StepWrap, Check
  <2>2. \A v \in Workers : at'[v] = "subtract" <=> at[v] = "subtract"
    BY <1>9, <1>12 DEF LockNode, Step, StepWrap, Check
  <2>3. Leaving' = Leaving
    BY <1>7, <2>1, <2>2
  <2>4. Live' = Live
    BY <2>1 DEF Live, Used
  <2>5. QED
    BY <1>1, <1>2, <1>5, <2>1, <2>3, <2>4
<1>13. ASSUME NEW w \in Workers, Account(w)  PROVE BytesInv'
  <2>1. PICK m : m = mine[w]
    OBVIOUS
  <2>2. /\ mine' = mine /\ at' = [at EXCEPT ![w] = "user"] /\ at[w] = "account"
        /\ blocks' = [blocks EXCEPT ![m].live = TRUE]
        /\ total_allocated' = total_allocated + new_sz(blocks[m].sz)
    BY <1>13, <2>1 DEF Account
  <2>3. m \in Used /\ ~blocks[m].live
    BY <2>1, <2>2 DEF MemInv, HandInv
  <2>4. /\ Used' = Used /\ blocks'[m].live = TRUE
        /\ \A i \in Used : i # m => blocks'[i] = blocks[i]
    BY <2>2, <2>3, MarksIs
  <2> DEFINE L == Live \cup {m}
  <2>5. Live' = L /\ L \ {m} = Live /\ L \in SUBSET Used /\ m \in L
    BY <1>1, <2>3, <2>4 DEF Live
  <2>6. Leaving' = Leaving
    BY <1>7, <1>9, <2>2
  <2>7. ~sys
    BY <1>2, <2>2
  <2> HIDE DEF L
  <2>8. sum(L) = sum(Live) + new_sz(blocks[m].sz) /\ sum(Live) \in Nat /\ sum(Leaving) \in Nat
    BY <1>1, <1>3, <2>5
  <2>9. new_sz(blocks[m].sz) \in Nat
    BY <1>1, <2>3
  <2>10. total_allocated' = sum(L) + sum(Leaving)
    <3> HIDE DEF sum
    <3>1. QED
      BY <1>2, <2>2, <2>7, <2>8, <2>9
  <2>11. QED
    BY <1>1, <1>5, <2>5, <2>6, <2>7, <2>10
<1>14. ASSUME NEW w \in Workers, NEW b \in Used, Release(w, b)  PROVE BytesInv'
  <2>1. /\ mine' = [mine EXCEPT ![w] = b]
        /\ at' = [at EXCEPT ![w] = IF config.pol = "system" THEN "user" ELSE "subtract"]
        /\ at[w] = "user" /\ blocks[b].live /\ blocks' = [blocks EXCEPT ![b].live = FALSE]
        /\ total_allocated' = total_allocated
    BY <1>14 DEF Release
  <2>2. /\ Used' = Used /\ blocks'[b].live = FALSE
        /\ \A i \in Used : i # b => blocks'[i] = blocks[i]
    BY <2>1, MarksIs
  <2>3. CASE sys
    BY <1>2, <1>4, <2>1, <2>3 DEF BytesInv
  <2>4. CASE ~sys
    <3> DEFINE L == Live \ {b}
               V == Leaving \cup {b}
    <3>1. Live' = L /\ L \in SUBSET Used /\ b \in Live
      BY <1>1, <2>1, <2>2 DEF Live
    <3>2. V \ {b} = Leaving /\ V \in SUBSET Used /\ b \in V
      BY <1>1, <3>1
    <3>3. Leaving' = V
      <4>1. \A x : x \in Leaving' <=> \E v \in Workers : at'[v] = "subtract" /\ mine'[v] = x
        BY <1>4, SameMachine DEF Leaving
      <4>2. /\ at'[w] = "subtract" /\ mine'[w] = b /\ at[w] # "subtract"
            /\ \A v \in Workers : v # w => at'[v] = at[v] /\ mine'[v] = mine[v]
        BY <1>9, <2>1, <2>4
      <4>3. \A x : x \in Leaving' <=> x \in Leaving \/ x = b
        BY <4>1, <4>2, LeavingIs
      <4>4. QED
        BY <4>3
    <3> HIDE DEF L, V
    <3>4. /\ sum(Live) = sum(L) + new_sz(blocks[b].sz) /\ sum(L) \in Nat
          /\ sum(V) = sum(Leaving) + new_sz(blocks[b].sz) /\ sum(Leaving) \in Nat
      BY <1>1, <1>3, <3>1, <3>2 DEF L
    <3>5. new_sz(blocks[b].sz) \in Nat
      BY <1>1
    <3>6. total_allocated' = sum(L) + sum(V)
      <4> HIDE DEF sum
      <4>1. QED
        BY <1>2, <2>1, <2>4, <3>4, <3>5
    <3>7. QED
      BY <1>5, <2>4, <3>1, <3>2, <3>3, <3>6
  <2>5. QED
    BY <2>3, <2>4
<1>15. ASSUME NEW w \in Workers, Subtract(w)  PROVE BytesInv'
  <2>1. PICK m : m = mine[w]
    OBVIOUS
  <2>2. /\ mine' = mine /\ at' = [at EXCEPT ![w] = "user"] /\ at[w] = "subtract"
        /\ blocks' = blocks
        /\ total_allocated' = total_allocated - new_sz(blocks[m].sz)
    BY <1>15, <2>1 DEF Subtract
  <2> DEFINE V == Leaving \ {m}
  <2>3. m \in Leaving /\ V \in SUBSET Used
    BY <1>1, <2>1, <2>2, LeavingIs
  <2>4. Leaving' = V
    <3>1. \A x : x \in Leaving' <=> \E v \in Workers : at'[v] = "subtract" /\ mine'[v] = x
      BY <1>4, SameMachine DEF Leaving
    <3>2. at'[w] # "subtract" /\ \A v \in Workers : v # w => at'[v] = at[v] /\ mine'[v] = mine[v]
      BY <1>9, <2>2
    <3>3. \A v \in Workers : v # w /\ at[v] = "subtract" => mine[v] # m
      BY <2>1, <2>2 DEF MemInv, HandInv
    <3>4. \A x : x \in Leaving' <=> x \in Leaving /\ x # m
      BY <2>1, <3>1, <3>2, <3>3, LeavingIs
    <3>5. QED
      BY <3>4
  <2>5. Live' = Live
    BY <2>2 DEF Live, Used
  <2>6. ~sys
    BY <1>2, <2>2
  <2> HIDE DEF V
  <2>7. /\ sum(Leaving) = sum(V) + new_sz(blocks[m].sz) /\ sum(V) \in Nat
        /\ sum(Live) \in Nat /\ new_sz(blocks[m].sz) \in Nat
    BY <1>1, <1>3, <2>3 DEF V
  <2>8. total_allocated' = sum(Live) + sum(V)
    <3> HIDE DEF sum
    <3>1. QED
      BY <1>2, <2>2, <2>6, <2>7
  <2>9. QED
    BY <1>1, <1>5, <2>3, <2>4, <2>5, <2>6, <2>8
<1>16. CASE UNCHANGED vars
  BY <1>8, <1>16 DEF vars
<1>17. ASSUME NEW w \in Workers, Reset(w)  PROVE BytesInv'
  BY <1>8, <1>17 DEF Reset
<1>18. QED
  BY <1>10, <1>11, <1>12, <1>13, <1>14, <1>15, <1>16, <1>17 DEF Next, GoOn

\* The invariant of allocation and release.
LEMMA MemStep ==
    ASSUME MemInv, [Next]_vars
    PROVE  MemInv'
BY PlaceStep, BlockStep, HandStep, NodeStep, BytesStep DEF MemInv

\* Every block in a call belongs to one worker and is not counted, and the lock
\* and the node are those of whoever advances the node.
THEOREM MemInvariant == Spec => []MemInv
BY MemInit, MemStep, PTL DEF Spec

LEMMA BytesAre ==
    ASSUME NEW S
    PROVE  Bytes(S) = BytesOf(blocks, S)
BY DEF Bytes, BytesOf

LEMMA MemAccounting == MemInv => Accounting
<1>1. Bytes(Live) = BytesOf(blocks, Live) /\ Bytes(Leaving) = BytesOf(blocks, Leaving)
  BY BytesAre
<1>2. MemInv => total_allocated = IF config.pol = "system" THEN 0 ELSE Bytes(Live) + Bytes(Leaving)
  BY <1>1 DEF MemInv, BytesInv
<1>3. QED
  BY <1>2 DEF Accounting, Live, Leaving

LEMMA MemTypes == MemInv => TypeOK
<1> SUFFICES ASSUME MemInv PROVE TypeOK
  OBVIOUS
<1>1. total_allocated \in Nat
  <2>1. /\ Used = 1 .. Len(blocks) /\ Len(blocks) \in Nat
        /\ \A b \in Used : blocks[b].sz \in Sizes
    BY DEF MemInv, BlockInv, IsList, Used, IsBlock
  <2>2. IsFiniteSet(Used) /\ \A b \in Used : new_sz(blocks[b].sz) \in Nat
    <3>1. IsFiniteSet(Used)
      BY <2>1, FS_Interval
    <3>2. QED
      BY <2>1, <3>1, SizeFacts
  <2>3. Live \subseteq Used /\ Leaving \subseteq Used
    BY LeavingIs DEF MemInv, HandInv, Live
  <2>4. IsFiniteSet(Live) /\ IsFiniteSet(Leaving)
    BY <2>2, <2>3, FS_Subset
  <2>5. BytesOf(blocks, Live) \in Nat /\ BytesOf(blocks, Leaving) \in Nat
    BY <2>2, <2>3, <2>4, BytesFacts
  <2>6. QED
    BY <2>5 DEF MemInv, BytesInv
<1>2. node \in 0 .. num_nodes /\ lock \in Workers \cup {None}
  BY DEF MemInv, NodeInv
<1>3. \A b \in Used : blocks[b].nodeid \in 0 .. NoNode /\ blocks[b].sz \in Sizes
  BY DEF MemInv, BlockInv, IsBlock
<1>4. at \in [Workers -> {"user", "header", "lock", "advance", "wrap", "check", "account", "subtract"}]
  BY DEF MemInv, PlaceInv, Places
<1>5. \A w \in Workers : at[w] # "user" => mine[w] \in Used
  BY DEF MemInv, HandInv
<1>6. QED
  BY <1>1, <1>2, <1>3, <1>4, <1>5, MemAccounting DEF TypeOK

\* total_allocated is at every moment what the blocks in use take with their headers,
\* and those whose release has not been counted yet: no byte is counted twice
\* or left behind, whatever calls run at a time (allocate_*, release_*).
THEOREM BytesAccounted == Spec => []Accounting
BY MemInvariant, MemAccounting, PTL

\* The types of mir_mem_pol_t: total_allocated is exact, so that it never falls below
\* zero, and node is at most one past the last while it wraps.
THEOREM MemTypesHold == Spec => []TypeOK
BY MemInvariant, MemTypes, PTL
-----------------------------------------------------------------------------
(* The round of the nodes *)

\* g[k] is the node after k turns.  Between two turns the nodes passed over have
\* no workers.
Ahead(n, k) == (n + k) % num_nodes
IsRound(g) == g[0] = turns.from /\ \A k \in 1 .. turns.left : g[k] = NextAllowed(g[k - 1])
Passing(n, k) ==
    /\ \A d \in 1 .. k - 1 : Ahead(n, d) \notin Allowed
    /\ at[lock] = "check" => k >= 1 /\ node = Ahead(n, k)
    /\ at[lock] # "check" => k = 0 \/ Ahead(n, k) \notin Allowed
    /\ at[lock] = "advance" => node = Ahead(n, k)
    /\ at[lock] = "wrap" => node = Ahead(n, k) + 1
RoundInv ==
    /\ turns \in [from : 0 .. num_nodes - 1, left : Nat, resets : Nat]
    /\ \E g \in [0 .. turns.left -> 0 .. num_nodes - 1] :
            /\ IsRound(g)
            /\ IF lock = None THEN node = g[turns.left]
               ELSE \E k \in 0 .. num_nodes : Passing(g[turns.left], k)

\* A fold that ignores the elements depends on the number of them only.
LEMMA FoldIsRound ==
    ASSUME NEW from, NEW n \in Nat, NEW g, g[0] = from,
           \A k \in 1 .. n : g[k] = NextAllowed(g[k - 1])
    PROVE  FoldLeft(LAMBDA m, t : NextAllowed(m), from, [t \in 1 .. n |-> t]) = g[n]
<1> DEFINE s == [t \in 1 .. n |-> t]
           part(h, d) == IF d = {} THEN from ELSE NextAllowed(h[d \ {Max(d)}])
           it == CHOOSE h : h = [d \in SUBSET (1 .. n) |-> part(h, d)]
           f == [d \in SUBSET (1 .. n) |-> g[Cardinality(d)]]
<1>1. \A d \in SUBSET (1 .. n) : d # {} => Max(d) \in d
  BY MaxIn
<1>2. f = [d \in SUBSET (1 .. n) |-> part(f, d)]
  <2>1. ASSUME NEW d \in SUBSET (1 .. n)  PROVE f[d] = part(f, d)
    <3>1. IsFiniteSet(1 .. n) /\ Cardinality(1 .. n) = n
      BY FS_Interval
    <3>2. IsFiniteSet(d) /\ Cardinality(d) \in 0 .. n
      <4>1. PICK S : S = 1 .. n
        OBVIOUS
      <4>2. IsFiniteSet(S) /\ Cardinality(S) = n /\ d \in SUBSET S
        BY <3>1, <4>1
      <4>3. IsFiniteSet(d) /\ Cardinality(d) <= n
        BY <4>2, FS_Subset
      <4>4. Cardinality(d) \in Nat
        BY <4>3, FS_CardinalityType
      <4>5. QED
        BY <4>3, <4>4
    <3>3. CASE d = {}
      BY <3>3, FS_EmptySet
    <3>4. CASE d # {}
      <4>1. PICK x : x = Max(d)
        OBVIOUS
      <4>2. x \in d /\ d \ {x} \in SUBSET (1 .. n)
        BY <1>1, <3>4, <4>1
      <4>3. Cardinality(d \ {x}) = Cardinality(d) - 1 /\ Cardinality(d \ {x}) \in Nat
        <5>1. Cardinality(d \ {x}) = Cardinality(d) - 1
          BY <3>2, <4>2, FS_RemoveElement
        <5>2. QED
          BY <3>2, <4>2, <5>1, FS_Subset, FS_CardinalityType
      <4>4. PICK c : c = Cardinality(d)
        OBVIOUS
      <4>5. c \in 1 .. n /\ Cardinality(d \ {x}) = c - 1
        BY <3>2, <4>3, <4>4
      <4>6. g[c] = NextAllowed(g[c - 1])
        BY <4>5
      <4>7. f[d] = g[c] /\ f[d \ {x}] = g[c - 1]
        BY <4>2, <4>4, <4>5
      <4> HIDE DEF f
      <4>8. QED
        BY <3>4, <4>1, <4>6, <4>7
    <3>5. QED
      BY <3>3, <3>4
  <2> HIDE DEF part
  <2>2. f = [d \in SUBSET (1 .. n) |-> f[d]]
    OBVIOUS
  <2> HIDE DEF f
  <2>3. QED
    BY <2>1, <2>2
<1>3. it = [d \in SUBSET (1 .. n) |-> part(it, d)]
  <2> HIDE DEF f
  <2>1. QED
    BY <1>2
<1>4. FoldLeft(LAMBDA m, t : NextAllowed(m), from, s) = it[1 .. n]
  <2>1. DOMAIN s = 1 .. n
    OBVIOUS
  <2>2. QED
    BY <2>1 DEF FoldLeft, MapThenFoldSet
<1> HIDE DEF it
<1> DEFINE Odd == {k \in 0 .. n : it[1 .. k] # g[k]}
<1>5. Odd = {}
  <2>1. ASSUME NEW k \in Odd, \A j \in Odd : k <= j  PROVE FALSE
    <3>1. k # 0
      <4>1. 1 .. 0 = {} /\ {} \in SUBSET (1 .. n)
        OBVIOUS
      <4>2. it[{}] = from
        BY <1>3, <4>1
      <4>3. QED
        BY <4>1, <4>2
    <3>2. Max(1 .. k) = k
      <4>1. k \in 1 .. k /\ 1 .. k \subseteq Nat /\ \A y \in 1 .. k : k >= y
        BY <3>1
      <4>2. QED
        BY <4>1, MaxIs
    <3>3. (1 .. k) \ {k} = 1 .. k - 1 /\ 1 .. k # {} /\ 1 .. k \in SUBSET (1 .. n)
      BY <3>1
    <3>4. it[1 .. k] = NextAllowed(it[1 .. k - 1])
      BY <1>3, <3>2, <3>3
    <3>5. k - 1 \in 0 .. n /\ k - 1 \notin Odd /\ k \in 1 .. n
      BY <2>1, <3>1
    <3>6. it[1 .. k - 1] = g[k - 1]
      BY <3>5
    <3>7. QED
      BY <3>4, <3>5, <3>6
  <2>2. Odd \in SUBSET Nat
    OBVIOUS
  <2> HIDE DEF Odd
  <2>3. QED
    BY <2>1, <2>2, LeastNumber
<1>6. it[1 .. n] = g[n]
  BY <1>5
<1>7. QED
  BY <1>4, <1>6

LEMMA AheadIs ==
    ASSUME num_nodes \in Nat \ {0}, NEW n \in 0 .. num_nodes - 1, NEW k \in 0 .. num_nodes
    PROVE  /\ Ahead(n, k) = IF n + k < num_nodes THEN n + k ELSE n + k - num_nodes
           /\ Ahead(n, k) \in 0 .. num_nodes - 1 /\ Ahead(n, 0) = n
           /\ k < num_nodes => Wrap(Ahead(n, k) + 1) = Ahead(n, k + 1)
<1>1. PICK N : N = num_nodes
  OBVIOUS
<1>2. N \in Nat \ {0} /\ n \in 0 .. N - 1 /\ k \in 0 .. N
  BY <1>1
<1>3. \A x \in 0 .. 2 * N - 1 : x % N = IF x < N THEN x ELSE x - N
  BY <1>2, WrapIs
<1>4. n + k \in 0 .. 2 * N - 1 /\ n + 0 \in 0 .. 2 * N - 1
  BY <1>2
<1>5. (n + k) % N = (IF n + k < N THEN n + k ELSE n + k - N) /\ (n + 0) % N = n
  BY <1>2, <1>3, <1>4
<1>6. ASSUME k < N  PROVE (((n + k) % N) + 1) % N = (n + (k + 1)) % N
  <2>1. PICK x : x = (n + k) % N
    OBVIOUS
  <2>2. x \in 0 .. N - 1 /\ x = IF n + k < N THEN n + k ELSE n + k - N
    BY <1>2, <1>5, <2>1
  <2>3. x + 1 \in 0 .. 2 * N - 1 /\ n + (k + 1) \in 0 .. 2 * N - 1
    BY <1>2, <1>6, <2>2
  <2>4. PICK y, z : y = x + 1 /\ z = n + (k + 1)
    OBVIOUS
  <2>5. y % N = (IF y < N THEN y ELSE y - N) /\ z % N = (IF z < N THEN z ELSE z - N)
    BY <1>3, <2>3, <2>4
  <2>6. y % N = z % N
    BY <1>2, <1>6, <2>2, <2>4, <2>5
  <2>7. QED
    BY <2>1, <2>4, <2>6
<1>7. (n + k) % N \in 0 .. N - 1
  BY <1>2, <1>5
<1>8. QED
  BY <1>1, <1>5, <1>6, <1>7 DEF Ahead, Wrap

\* From any node the round comes to one with a worker, and goes to the first.
LEMMA NextIs ==
    ASSUME config \in Configs, NEW n \in 0 .. num_nodes - 1
    PROVE  /\ \E d \in 1 .. num_nodes : Ahead(n, d) \in Allowed
           /\ NextAllowed(n) \in 0 .. num_nodes - 1
           /\ \A k \in 1 .. num_nodes :
                  Ahead(n, k) \in Allowed /\ (\A d \in 1 .. k - 1 : Ahead(n, d) \notin Allowed)
                      => NextAllowed(n) = Ahead(n, k)
<1>1. num_nodes \in Nat \ {0} /\ Allowed \subseteq 0 .. num_nodes - 1 /\ Allowed # {}
  BY ConfigFacts
<1> DEFINE D == {d \in 1 .. num_nodes : Ahead(n, d) \in Allowed}
<1>2. D # {}
  <2>1. PICK a \in Allowed : a \in 0 .. num_nodes - 1
    BY <1>1
  <2>2. PICK d : d = IF n < a THEN a - n ELSE a - n + num_nodes
    OBVIOUS
  <2>3. d \in 1 .. num_nodes /\ d \in 0 .. num_nodes
    BY <1>1, <2>1, <2>2
  <2>4. Ahead(n, d) = IF n + d < num_nodes THEN n + d ELSE n + d - num_nodes
    BY <1>1, <2>3, AheadIs
  <2>5. Ahead(n, d) = a
    BY <1>1, <2>1, <2>2, <2>3, <2>4
  <2>6. QED
    BY <2>3, <2>5
<1>3. NextAllowed(n) = Ahead(n, Min(D))
  BY DEF NextAllowed, Ahead
<1>4. D \in SUBSET Nat /\ \A d \in D : d \in 0 .. num_nodes
  BY <1>1
<1>5. D = {d \in 1 .. num_nodes : Ahead(n, d) \in Allowed}
  OBVIOUS
<1> HIDE DEF D
<1>6. PICK m \in D : \A y \in D : m <= y
  BY <1>2, <1>4, LeastNumber
<1>7. Min(D) \in D /\ \A y \in D : Min(D) <= y
  BY <1>6 DEF Min
<1>8. NextAllowed(n) \in 0 .. num_nodes - 1
  <2>1. Min(D) \in 0 .. num_nodes
    BY <1>4, <1>7
  <2>2. Ahead(n, Min(D)) \in 0 .. num_nodes - 1
    BY <1>1, <2>1, AheadIs
  <2>3. QED
    BY <1>3, <2>2
<1>9. ASSUME NEW k \in 1 .. num_nodes, Ahead(n, k) \in Allowed,
             \A d \in 1 .. k - 1 : Ahead(n, d) \notin Allowed
      PROVE  NextAllowed(n) = Ahead(n, k)
  <2>1. k \in D
    BY <1>5, <1>9
  <2>2. PICK x : x = Min(D)
    OBVIOUS
  <2>3. x \in D /\ x <= k /\ x \in 1 .. num_nodes /\ Ahead(n, x) \in Allowed
    BY <1>5, <1>7, <2>1, <2>2
  <2>4. ~(x < k)
    BY <1>1, <1>9, <2>3
  <2>5. x = k
    BY <1>1, <2>3, <2>4
  <2>6. QED
    BY <1>3, <2>2, <2>5
<1>10. QED
  BY <1>2, <1>5, <1>8, <1>9

LEMMA RoundInit == Init => RoundInv
<1> SUFFICES ASSUME Init PROVE RoundInv
  OBVIOUS
<1>1. num_nodes \in Nat \ {0} /\ node_of_worker(0) \in 0 .. num_nodes - 1
  BY ConfigFacts DEF Init
<1> DEFINE n == node_of_worker(0)
           g == [k \in 0 .. 0 |-> n]
<1>2. turns = [from |-> n, left |-> 0, resets |-> 0] /\ lock = None /\ node = n
  BY DEF Init
<1> HIDE DEF n
<1>3. turns \in [from : 0 .. num_nodes - 1, left : Nat, resets : Nat] /\ turns.left = 0
  BY <1>1, <1>2 DEF n
<1>4. g \in [0 .. 0 -> 0 .. num_nodes - 1] /\ g[0] = n
  BY <1>1 DEF n
<1>5. IsRound(g)
  BY <1>2, <1>4 DEF IsRound
<1> HIDE DEF g
<1>6. QED
  BY <1>2, <1>3, <1>4, <1>5 DEF RoundInv

LEMMA RoundStep ==
    ASSUME MemInv, RoundInv, [Next]_vars
    PROVE  RoundInv'
<1>1. /\ node \in 0 .. num_nodes /\ lock \in Workers \cup {None}
      /\ \A w \in Workers : at[w] \in Holding <=> lock = w
      /\ at \in [Workers -> Places] /\ config \in Configs
  BY DEF MemInv, NodeInv, PlaceInv
<1>2. num_nodes \in Nat \ {0} /\ None \notin Workers
  BY <1>1, ConfigFacts
<1>3. config' = config
  BY DEF Next, vars, Allocate, AllocateSystem, AllocateLocal, AllocateFine, AllocateCoarse, Map,
         GoOn, WriteHeader, LockNode, Step, StepWrap, Check, Account, Subtract, Reset, Release
<1> DEFINE N == num_nodes
           Type == turns \in [from : 0 .. N - 1, left : Nat, resets : Nat]
<1>4. Type
  BY DEF RoundInv
<1>5. PICK g \in [0 .. turns.left -> 0 .. N - 1] :
            /\ IsRound(g)
            /\ IF lock = None THEN node = g[turns.left]
               ELSE \E k \in 0 .. N : Passing(g[turns.left], k)
  BY DEF RoundInv
<1>6. PICK n : n = g[turns.left]
  OBVIOUS
<1>7. n \in 0 .. N - 1
  BY <1>4, <1>5, <1>6
<1>8. /\ num_nodes' = N /\ Allowed' = Allowed /\ Workers' = Workers
      /\ \A x : NextAllowed(x)' = NextAllowed(x)
      /\ \A x, k : Ahead(x, k)' = Ahead(x, k)
  <2>1. num_nodes' = N /\ Allowed' = Allowed /\ Workers' = Workers
    BY <1>3, SameMachine
  <2>2. QED
    BY <2>1 DEF NextAllowed, Ahead
<1>9. ASSUME turns' = turns,
             IF lock' = None THEN node' = n ELSE \E k \in 0 .. N : Passing(n, k)'
      PROVE  RoundInv'
  <2>1. IsRound(g)'
    BY <1>5, <1>8, <1>9 DEF IsRound
  <2>2. turns' \in [from : 0 .. num_nodes' - 1, left : Nat, resets : Nat]
    BY <1>4, <1>8, <1>9
  <2>3. g \in [0 .. turns'.left -> 0 .. num_nodes' - 1] /\ n = g[turns'.left]
    BY <1>5, <1>6, <1>8, <1>9
  <2>4. \A k \in 0 .. num_nodes' : Passing(n, k)' <=> Passing(g[turns.left], k)'
    BY <2>3
  <2>5. QED
    BY <1>8, <1>9, <2>1, <2>2, <2>3 DEF RoundInv
<1>10. ASSUME turns' = turns, node' = node, lock' = lock, lock # None => at'[lock] = at[lock]
       PROVE  RoundInv'
  <2>1. \A k \in 0 .. N : lock # None /\ Passing(n, k) => Passing(n, k)'
    BY <1>8, <1>10 DEF Passing
  <2>2. QED
    BY <1>5, <1>6, <1>9, <1>10, <2>1
<1>11. ASSUME NEW w \in Workers, at[w] \notin Holding, turns' = turns, node' = node, lock' = lock,
              \A v \in Workers : v # w => at'[v] = at[v]
       PROVE  RoundInv'
  <2>1. lock # None => lock # w /\ lock \in Workers
    BY <1>1, <1>11
  <2>2. QED
    BY <1>10, <1>11, <2>1
<1>12. ASSUME NEW w \in Workers, LockNode(w)  PROVE RoundInv'
  <2>1. lock = None /\ lock' = w /\ at'[w] = "advance" /\ node' = node /\ turns' = turns
    BY <1>1, <1>12 DEF LockNode
  <2>2. node = n /\ lock' # None
    BY <1>2, <1>5, <1>6, <2>1
  <2>3. Ahead(n, 0)' = n
    BY <1>2, <1>7, <1>8, AheadIs
  <2>4. Passing(n, 0)'
    BY <2>1, <2>2, <2>3 DEF Passing
  <2>5. 0 \in 0 .. N
    BY <1>2
  <2>6. QED
    BY <1>9, <2>1, <2>2, <2>4, <2>5
<1>13. ASSUME NEW w \in Workers, Step(w) \/ StepWrap(w)  PROVE RoundInv'
  <2>1. lock' = lock /\ turns' = turns /\ at[w] \in {"advance", "wrap"}
    BY <1>13 DEF Step, StepWrap
  <2>2. lock = w /\ lock # None
    BY <1>1, <1>2, <2>1 DEF Holding
  <2>3. PICK k \in 0 .. N : Passing(n, k)
    BY <1>5, <1>6, <2>2
  <2>4. \A d \in 1 .. k : Ahead(n, d) \notin Allowed
    BY <1>2, <2>1, <2>2, <2>3 DEF Passing
  <2>5. k < N
    <3>1. PICK d \in 1 .. N : Ahead(n, d) \in Allowed
      BY <1>1, <1>7, NextIs
    <3>2. ~(d <= k)
      BY <1>2, <2>4, <3>1
    <3>3. QED
      BY <1>2, <3>1, <3>2
  <2>6. Wrap(Ahead(n, k) + 1) = Ahead(n, k + 1)
    BY <1>2, <1>7, <2>5, AheadIs
  <2>7. \/ node' = node + 1 /\ at'[w] = "wrap" /\ at[w] = "advance"
        \/ node' = Wrap(node + 1) /\ at'[w] = "check" /\ at[w] = "advance"
        \/ node' = Wrap(node) /\ at'[w] = "check" /\ at[w] = "wrap"
    BY <1>1, <1>13 DEF Step, StepWrap
  <2>8. /\ at[w] = "advance" => node = Ahead(n, k)
        /\ at[w] = "wrap" => node = Ahead(n, k) + 1
    BY <2>2, <2>3 DEF Passing
  <2>9. \/ node' = Ahead(n, k) + 1 /\ at'[w] = "wrap"
        \/ node' = Ahead(n, k + 1) /\ at'[w] = "check"
    BY <2>6, <2>7, <2>8
  <2>10. CASE node' = Ahead(n, k) + 1 /\ at'[w] = "wrap"
    <3>1. Passing(n, k)'
      <4>1. k = 0 \/ Ahead(n, k) \notin Allowed
        BY <1>2, <2>4
      <4>2. \A d \in 1 .. k - 1 : Ahead(n, d) \notin Allowed
        BY <1>2, <2>4
      <4>3. QED
        BY <1>8, <2>1, <2>2, <2>10, <4>1, <4>2 DEF Passing
    <3>2. QED
      BY <1>9, <2>1, <2>2, <3>1
  <2>11. CASE node' = Ahead(n, k + 1) /\ at'[w] = "check"
    <3>1. PICK j : j = k + 1
      OBVIOUS
    <3>2. j \in 0 .. N /\ j >= 1 /\ \A d \in 1 .. j - 1 : Ahead(n, d) \notin Allowed
      BY <1>2, <2>4, <2>5, <3>1
    <3>3. Passing(n, j)'
      BY <1>8, <2>1, <2>2, <2>11, <3>1, <3>2 DEF Passing
    <3>4. QED
      BY <1>9, <2>1, <2>2, <3>2, <3>3
  <2>12. QED
    BY <2>9, <2>10, <2>11
<1>14. ASSUME NEW w \in Workers, Check(w), node \notin Allowed  PROVE RoundInv'
  <2>1. /\ lock' = lock /\ turns' = turns /\ at[w] = "check" /\ at'[w] = "advance" /\ node' = node
    BY <1>1, <1>14 DEF Check
  <2>2. lock = w /\ lock # None
    BY <1>1, <1>2, <2>1 DEF Holding
  <2>3. PICK k \in 0 .. N : Passing(n, k)
    BY <1>5, <1>6, <2>2
  <2>4. node = Ahead(n, k) /\ \A d \in 1 .. k - 1 : Ahead(n, d) \notin Allowed
    BY <2>1, <2>2, <2>3 DEF Passing
  <2>5. Passing(n, k)'
    BY <1>8, <1>14, <2>1, <2>2, <2>4 DEF Passing
  <2>6. QED
    BY <1>9, <2>1, <2>2, <2>5
<1>15. ASSUME NEW w \in Workers, Check(w), node \in Allowed  PROVE RoundInv'
  <2>1. lock' = None /\ turns' = [turns EXCEPT !.left = @ + 1] /\ at[w] = "check" /\ node' = node
    BY <1>15 DEF Check
  <2>2. lock = w /\ lock # None
    BY <1>1, <1>2, <2>1 DEF Holding
  <2>3. PICK k \in 0 .. N : Passing(n, k)
    BY <1>5, <1>6, <2>2
  <2>4. /\ node = Ahead(n, k) /\ k \in 1 .. N
        /\ \A d \in 1 .. k - 1 : Ahead(n, d) \notin Allowed
    BY <1>2, <2>1, <2>2, <2>3 DEF Passing
  <2>5. node = NextAllowed(n)
    BY <1>1, <1>7, <1>15, <2>4, NextIs
  <2>6. NextAllowed(n) \in 0 .. N - 1
    BY <1>1, <1>7, NextIs
  <2>7. PICK m : m = turns.left
    OBVIOUS
  <2>8. m \in Nat /\ turns'.left = m + 1 /\ turns'.from = turns.from
        /\ turns' \in [from : 0 .. N - 1, left : Nat, resets : Nat]
    BY <1>4, <2>1, <2>7
  <2>9. PICK h : /\ h \in [0 .. m + 1 -> 0 .. N - 1] /\ h[m + 1] = NextAllowed(n)
                 /\ \A i \in 0 .. m : h[i] = g[i]
    <3> DEFINE h == [i \in 0 .. m + 1 |-> IF i <= m THEN g[i] ELSE NextAllowed(n)]
    <3>1. h \in [0 .. m + 1 -> 0 .. N - 1] /\ h[m + 1] = NextAllowed(n)
          /\ \A i \in 0 .. m : h[i] = g[i]
      BY <1>5, <2>6, <2>7, <2>8
    <3> HIDE DEF h
    <3>2. QED
      BY <3>1
  <2>10. IsRound(h)'
    <3>1. h[0] = turns'.from
      BY <1>5, <2>8, <2>9 DEF IsRound
    <3>2. ASSUME NEW i \in 1 .. m + 1  PROVE h[i] = NextAllowed(h[i - 1])
      <4>1. CASE i <= m
        <5>1. i \in 1 .. m /\ i \in 0 .. m /\ i - 1 \in 0 .. m
          BY <2>8, <4>1
        <5>2. g[i] = NextAllowed(g[i - 1])
          BY <1>5, <2>7, <5>1 DEF IsRound
        <5>3. QED
          BY <2>9, <5>1, <5>2
      <4>2. CASE ~(i <= m)
        <5>1. i = m + 1 /\ i - 1 = m /\ m \in 0 .. m
          BY <2>8, <4>2
        <5>2. QED
          BY <1>6, <2>7, <2>9, <5>1
      <4>3. QED
        BY <4>1, <4>2
    <3>3. QED
      BY <1>8, <2>8, <3>1, <3>2 DEF IsRound
  <2>11. node' = h[turns'.left]
    BY <2>1, <2>5, <2>8, <2>9
  <2>12. QED
    BY <1>8, <2>1, <2>8, <2>9, <2>10, <2>11 DEF RoundInv
<1>16. ASSUME NEW w \in Workers, Reset(w)  PROVE RoundInv'
  <2>1. lock' = None /\ node' = 0 /\ turns' = [from |-> 0, left |-> 0, resets |-> turns.resets + 1]
    BY <1>16 DEF Reset
  <2> DEFINE h == [i \in 0 .. 0 |-> 0]
  <2>2. turns' \in [from : 0 .. N - 1, left : Nat, resets : Nat] /\ turns'.left = 0 /\ turns'.from = 0
    BY <1>2, <1>4, <2>1
  <2>3. h \in [0 .. 0 -> 0 .. N - 1] /\ h[0] = 0
    BY <1>2
  <2> HIDE DEF h
  <2>4. IsRound(h)'
    BY <2>2, <2>3 DEF IsRound
  <2>5. QED
    BY <1>8, <2>1, <2>2, <2>3, <2>4 DEF RoundInv
<1>17. CASE UNCHANGED vars
  BY <1>10, <1>17 DEF vars
<1>18. ASSUME NEW w \in Workers, Allocate(w)  PROVE RoundInv'
  <2>1. PICK next, b : Begins(w, b, next)
    BY <1>18, AllocateIs
  <2>2. at[w] \notin Holding /\ \A v \in Workers : v # w => at'[v] = at[v]
    BY <1>1, <2>1 DEF Begins, Holding
  <2>3. QED
    BY <1>11, <2>1, <2>2 DEF Begins
<1>19. ASSUME NEW w \in Workers, WriteHeader(w) \/ Account(w) \/ Subtract(w)  PROVE RoundInv'
  <2>1. at[w] \notin Holding /\ \A v \in Workers : v # w => at'[v] = at[v]
    BY <1>1, <1>19 DEF WriteHeader, Account, Subtract, Holding
  <2>2. QED
    BY <1>11, <1>19, <2>1 DEF WriteHeader, Account, Subtract
<1>20. ASSUME NEW w \in Workers, NEW b \in Used, Release(w, b)  PROVE RoundInv'
  <2>1. at[w] \notin Holding /\ \A v \in Workers : v # w => at'[v] = at[v]
    BY <1>1, <1>20 DEF Release, Holding
  <2>2. QED
    BY <1>11, <1>20, <2>1 DEF Release
<1>21. QED
  BY <1>12, <1>13, <1>14, <1>15, <1>16, <1>17, <1>18, <1>19, <1>20 DEF Next, GoOn

LEMMA RoundIsTurns == RoundInv => RoundTurns
<1> SUFFICES ASSUME RoundInv, lock = None
             PROVE  node = FoldLeft(LAMBDA n, t : NextAllowed(n), turns.from,
                                    [t \in 1 .. turns.left |-> t])
  BY DEF RoundTurns
<1>1. PICK g : IsRound(g) /\ node = g[turns.left]
  BY DEF RoundInv
<1>2. PICK from, left : from = turns.from /\ left = turns.left
  OBVIOUS
<1>3. left \in Nat
  BY <1>2 DEF RoundInv
<1>4. g[0] = from /\ \A k \in 1 .. left : g[k] = NextAllowed(g[k - 1])
  BY <1>1, <1>2 DEF IsRound
<1>5. FoldLeft(LAMBDA m, t : NextAllowed(m), from, [t \in 1 .. left |-> t]) = g[left]
  BY <1>3, <1>4, FoldIsRound
<1>6. QED
  BY <1>1, <1>2, <1>5

\* "Pages of the next call are distributed to another node chosen round-robin": whenever
\* no worker is advancing mem_pol->node, it is where as many turns as there were
\* calls lead from where it was set, each to the next node that has a worker
\* (advance_node, mir_mem_pol_reset), for any machine and any interleaving.
THEOREM NodesTakeTurns == Spec => []RoundTurns
<1>1. MemInv /\ RoundInv /\ [Next]_vars => RoundInv'
  BY RoundStep
<1>2. QED
  BY <1>1, MemInvariant, RoundInit, RoundIsTurns, PTL DEF Spec
-----------------------------------------------------------------------------
(* Sums of distributions *)

Dists == [Nodes(arch) -> Nat]

LEMMA SumIs ==
    ASSUME config \in Configs, NEW dist \in Dists
    PROVE  /\ IsFiniteSet(Nodes(arch)) /\ Sum(arch, dist) \in Nat
           /\ \E g : /\ IsSum(g, dist, Nodes(arch)) /\ Sum(arch, dist) = g[Nodes(arch)]
                     /\ \A d \in SUBSET Nodes(arch) : g[d] \in Nat
                     /\ \A d \in SUBSET Nodes(arch) : \A x \in d : g[d] = dist[x] + g[d \ {x}]
                     /\ g[{}] = 0
<1>1. IsFiniteSet(Nodes(arch))
  <2>1. num_nodes \in Nat \ {0}
    BY ConfigFacts
  <2>2. QED
    BY <2>1, FS_Interval DEF Nodes, num_nodes
<1>2. PICK S : S = Nodes(arch)
  OBVIOUS
<1>3. PICK g : IsSum(g, dist, S) /\ Total(dist, S) = g[S]
  BY <1>1, <1>2, TotalIs
<1>4. Sum(arch, dist) = g[S]
  BY <1>2, <1>3 DEF Sum, Total
<1>5. \A x \in S : dist[x] \in Nat
  BY <1>2 DEF Dists
<1>6. /\ \A d \in SUBSET S : g[d] \in Nat
      /\ \A d \in SUBSET S : \A x \in d : g[d] = dist[x] + g[d \ {x}]
      /\ g[{}] = 0
  <2>1. IsFiniteSet(S) /\ IsSum(g, dist, S)
    BY <1>1, <1>2, <1>3
  <2>2. QED
    BY <1>5, <2>1, SumFacts
<1>7. g[S] \in Nat
  BY <1>6
<1>8. QED
  BY <1>1, <1>2, <1>3, <1>4, <1>6, <1>7

LEMMA SumOfSums ==
    ASSUME config \in Configs, NEW d \in Dists, NEW e \in Dists
    PROVE  AddDists(d, e) \in Dists /\ Sum(arch, AddDists(d, e)) = Sum(arch, d) + Sum(arch, e)
<1>1. PICK s, S : s = AddDists(d, e) /\ S = Nodes(arch)
  OBVIOUS
<1>2. s \in Dists /\ \A x \in S : s[x] = d[x] + e[x] /\ d[x] \in Nat /\ e[x] \in Nat
  BY <1>1 DEF AddDists, Dists
<1>3. PICK f : /\ Sum(arch, d) = f[S] /\ \A D \in SUBSET S : f[D] \in Nat
               /\ \A D \in SUBSET S : \A x \in D : f[D] = d[x] + f[D \ {x}]
               /\ f[{}] = 0
  BY <1>1, SumIs
<1>4. PICK g : /\ Sum(arch, e) = g[S] /\ \A D \in SUBSET S : g[D] \in Nat
               /\ \A D \in SUBSET S : \A x \in D : g[D] = e[x] + g[D \ {x}]
               /\ g[{}] = 0
  BY <1>1, SumIs
<1>5. PICK h : /\ Sum(arch, s) = h[S] /\ \A D \in SUBSET S : h[D] \in Nat
               /\ \A D \in SUBSET S : \A x \in D : h[D] = s[x] + h[D \ {x}]
               /\ h[{}] = 0
  BY <1>1, <1>2, SumIs
<1>6. IsFiniteSet(S)
  BY <1>1, SumIs
<1> DEFINE Odd == {n \in Nat : \E D \in SUBSET S : Cardinality(D) = n /\ h[D] # f[D] + g[D]}
<1>7. Odd = {}
  <2>1. ASSUME NEW n \in Odd, \A k \in Odd : n <= k  PROVE FALSE
    <3>1. PICK D \in SUBSET S : Cardinality(D) = n /\ h[D] # f[D] + g[D]
      OBVIOUS
    <3>2. D # {}
      <4>1. h[{}] = f[{}] + g[{}]
        BY <1>3, <1>4, <1>5
      <4>2. QED
        BY <3>1, <4>1
    <3>3. PICK x \in D : TRUE
      BY <3>2
    <3>4. Cardinality(D \ {x}) = n - 1 /\ n - 1 \in Nat /\ D \ {x} \in SUBSET S
      <4>1. x \in D
        BY <3>3
      <4>2. /\ Cardinality(D \ {x}) = Cardinality(D) - 1 /\ Cardinality(D \ {x}) \in Nat
            /\ D \ {x} \in SUBSET S
        BY <1>6, <4>1, NextSubset
      <4>3. QED
        BY <3>1, <4>2
    <3>5. n - 1 \notin Odd
      <4>1. ~(n <= n - 1)
        OBVIOUS
      <4>2. QED
        BY <2>1, <4>1
    <3>6. PICK R \in SUBSET S : R = D \ {x}
      BY <3>4
    <3>7. h[R] = f[R] + g[R]
      BY <3>4, <3>5, <3>6
    <3>8. f[D] = d[x] + f[R] /\ g[D] = e[x] + g[R] /\ h[D] = s[x] + h[R]
      BY <1>3, <1>4, <1>5, <3>3, <3>6
    <3>9. s[x] = d[x] + e[x] /\ d[x] \in Nat /\ e[x] \in Nat /\ f[R] \in Nat /\ g[R] \in Nat
      BY <1>2, <1>3, <1>4, <3>3
    <3>10. QED
      BY <3>1, <3>7, <3>8, <3>9
  <2>2. Odd \in SUBSET Nat
    OBVIOUS
  <2> HIDE DEF Odd
  <2>3. QED
    BY <2>1, <2>2, LeastNumber
<1>8. Cardinality(S) \in Nat /\ S \in SUBSET S
  BY <1>6, FS_CardinalityType
<1>9. h[S] = f[S] + g[S]
  BY <1>7, <1>8
<1>10. QED
  BY <1>1, <1>2, <1>3, <1>4, <1>5, <1>9

LEMMA SumOfNothing ==
    ASSUME config \in Configs
    PROVE  EmptyDist(arch) \in Dists /\ Sum(arch, EmptyDist(arch)) = 0
<1>1. PICK e, S : e = EmptyDist(arch) /\ S = Nodes(arch)
  OBVIOUS
<1>2. e \in Dists /\ AddDists(e, e) = e
  BY <1>1 DEF EmptyDist, Dists, AddDists
<1>3. Sum(arch, e) = Sum(arch, e) + Sum(arch, e) /\ Sum(arch, e) \in Nat
  <2>1. Sum(arch, AddDists(e, e)) = Sum(arch, e) + Sum(arch, e)
    BY <1>2, SumOfSums
  <2>2. Sum(arch, e) \in Nat
    BY <1>2, SumIs
  <2>3. Sum(arch, e) = Sum(arch, e) + Sum(arch, e)
    BY <1>2, <2>1
  <2>4. QED
    BY <2>2, <2>3
<1>4. Sum(arch, e) = 0
  <2>1. \A x \in Nat : x = x + x => x = 0
    OBVIOUS
  <2>2. QED
    BY <1>3, <2>1
<1>5. QED
  BY <1>1, <1>2, <1>4

LEMMA SumOfCredit ==
    ASSUME config \in Configs, NEW d \in Dists, NEW n \in Nodes(arch), NEW x \in Nat
    PROVE  /\ Credit(d, n, x) \in Dists
           /\ Sum(arch, Credit(d, n, x)) = Sum(arch, d) + x
<1>1. PICK S, e, z : S = Nodes(arch) /\ e = Credit(d, n, x) /\ z = EmptyDist(arch)
  OBVIOUS
<1>2. e \in Dists /\ e[n] = d[n] + x /\ \A m \in S : m # n => e[m] = d[m]
  BY <1>1 DEF Credit, Dists
<1>3. PICK g : /\ IsSum(g, d, S) /\ Sum(arch, d) = g[S] /\ g[S] = d[n] + g[S \ {n}]
               /\ g[S \ {n}] \in Nat
  BY <1>1, SumIs
<1>4. PICK h : /\ IsSum(h, e, S) /\ Sum(arch, e) = h[S] /\ h[S] = e[n] + h[S \ {n}]
               /\ h[S \ {n}] \in Nat
  BY <1>1, <1>2, SumIs
<1>5. PICK R \in SUBSET S : R = S \ {n}
  OBVIOUS
<1>6. IsFiniteSet(S) /\ IsFiniteSet(R)
  BY <1>1, <1>5, SumIs, FS_Subset
<1>7. PICK k : IsSum(k, d, R)
  BY <1>6, SumExists
<1>8. g[R] = k[R] /\ h[R] = k[R]
  <2>1. \A m \in R : d[m] = e[m]
    BY <1>2, <1>5
  <2>2. g[R] = k[R]
    BY <1>3, <1>6, <1>7, SumAgrees
  <2>3. h[R] = k[R]
    BY <1>4, <1>6, <1>7, <2>1, SumAgrees
  <2>4. QED
    BY <2>2, <2>3
<1>9. d[n] \in Nat
  BY DEF Dists
<1>10. QED
  BY <1>1, <1>2, <1>3, <1>4, <1>5, <1>8, <1>9
-----------------------------------------------------------------------------
(* Quotients and folds *)

LEMMA TimesAtMost ==
    ASSUME NEW a \in Nat, NEW c \in Nat, NEW p \in Nat, a <= c
    PROVE  a * p <= c * p /\ a * p \in Nat
OBVIOUS

LEMMA DivUnique ==
    ASSUME NEW a \in Nat, NEW p \in Nat \ {0}, NEW k \in Nat, k * p <= a, a < k * p + p
    PROVE  a \div p = k
<1>1. PICK q : q = a \div p
  OBVIOUS
<1>2. q \in Nat /\ q * p <= a /\ a < q * p + p
  BY <1>1, DivIs
<1>3. (q + 1) * p = q * p + p /\ (k + 1) * p = k * p + p
  BY <1>2
<1>4. ~(q >= k + 1)
  <2>1. q >= k + 1 => (k + 1) * p <= q * p
    BY <1>2, TimesAtMost
  <2>2. QED
    BY <1>2, <1>3, <2>1
<1>5. ~(k >= q + 1)
  <2>1. k >= q + 1 => (q + 1) * p <= k * p
    BY <1>2, TimesAtMost
  <2>2. QED
    BY <1>2, <1>3, <2>1
<1>6. QED
  BY <1>1, <1>2, <1>4, <1>5

LEMMA DivAtMost ==
    ASSUME NEW a \in Nat, NEW c \in Nat, NEW p \in Nat \ {0}, a <= c
    PROVE  a \div p <= c \div p
<1>1. PICK q, r : q = a \div p /\ r = c \div p
  OBVIOUS
<1>2. q \in Nat /\ q * p <= a /\ r \in Nat /\ c < r * p + p
  BY <1>1, DivIs
<1>3. (r + 1) * p = r * p + p
  BY <1>2
<1>4. ~(q >= r + 1)
  <2>1. q >= r + 1 => (r + 1) * p <= q * p
    BY <1>2, TimesAtMost
  <2>2. QED
    BY <1>2, <1>3, <2>1
<1>5. QED
  BY <1>1, <1>2, <1>4

-----------------------------------------------------------------------------
(* The walk over a range *)

Spots == [dist : [Nodes(arch) -> Int], node : Nodes(arch), ifrom : Int]
Start(node_at) == [dist |-> EmptyDist(arch), node |-> node_at[0], ifrom |-> 0]
Visit(node_at, st, i) ==
    IF node_at[i] = st.node THEN st
    ELSE [dist |-> Credit(st.dist, st.node, i - st.ifrom), node |-> node_at[i], ifrom |-> i]
End(st, sz) == Credit(st.dist, st.node, sz - st.ifrom)

IsWalk(g, node_at, page, n) ==
    g[0] = Start(node_at) /\ \A k \in 1 .. n : g[k] = Visit(node_at, g[k - 1], k * page)

IsRange(node_at, sz, page, n) ==
    /\ sz \in Nat \ {0} /\ page \in Nat \ {0} /\ n \in Nat /\ n = (sz - 1) \div page
    /\ node_at[0] \in Nodes(arch) /\ \A k \in 1 .. n : node_at[k * page] \in Nodes(arch)

\* A walk passes the pages one after the other.
LEMMA WalkIs ==
    ASSUME NEW node_at, NEW sz, NEW page, NEW n, IsRange(node_at, sz, page, n)
    PROVE  \E g : IsWalk(g, node_at, page, n) /\ Walk(arch, node_at, sz, page) = End(g[n], sz)
<1> DEFINE s == PagesAhead(sz, page)
           part(h, d) == IF d = {} THEN Start(node_at)
                         ELSE Visit(node_at, h[d \ {Max(d)}], s[Max(d)])
           it == CHOOSE h : h = [d \in SUBSET (DOMAIN s) |-> part(h, d)]
           F == [x \in Spots \X (1 .. n) |-> Visit(node_at, x[1], x[2] * page)]
<1>0. /\ sz \in Nat \ {0} /\ page \in Nat \ {0} /\ n \in Nat /\ n = (sz - 1) \div page
      /\ node_at[0] \in Nodes(arch) /\ \A k \in 1 .. n : node_at[k * page] \in Nodes(arch)
  BY DEF IsRange
<1>1. Walk(arch, node_at, sz, page) = End(it[DOMAIN s], sz)
  BY DEF Walk, FoldLeft, MapThenFoldSet, End, Visit, Start
<1>2. s = [k \in 1 .. n |-> k * page] /\ DOMAIN s = 1 .. n
  BY <1>0 DEF PagesAhead
<1>3. Start(node_at) \in Spots
  BY <1>0 DEF Start, Spots, EmptyDist
<1>4. ASSUME NEW st \in Spots, NEW k \in 1 .. n
      PROVE  F[<<st, k>>] = Visit(node_at, st, k * page) /\ F[<<st, k>>] \in Spots
  <2>1. F[<<st, k>>] = Visit(node_at, st, k * page)
    OBVIOUS
  <2>2. PICK i \in Nat : i = k * page /\ node_at[i] \in Nodes(arch)
    <3>1. k \in Nat /\ page \in Nat
      BY <1>0
    <3>2. k * page \in Nat
      BY <3>1
    <3>3. QED
      BY <1>0, <3>2
  <2>3. i - st.ifrom \in Int
    BY DEF Spots
  <2>4. Credit(st.dist, st.node, i - st.ifrom) \in [Nodes(arch) -> Int]
    <3>1. PICK c \in Int : c = i - st.ifrom
      BY <2>3
    <3>2. Credit(st.dist, st.node, c) \in [Nodes(arch) -> Int]
      BY DEF Credit, Spots
    <3>3. QED
      BY <3>1, <3>2
  <2>5. Visit(node_at, st, i) \in Spots
    BY <2>2, <2>4 DEF Visit, Spots
  <2>6. QED
    BY <2>1, <2>2, <2>5
<1> HIDE DEF F, s
<1>5. PICK h : IsFold(h, F, Start(node_at), n)
  BY <1>0, FoldExists
<1>6. \A d \in SUBSET (1 .. n) : h[d] \in Spots
  BY <1>0, <1>3, <1>4, <1>5, FoldStays
<1>7. ASSUME NEW d \in SUBSET (1 .. n)  PROVE FoldOf(h, F, Start(node_at), d) = part(h, d)
  <2>1. CASE d = {}
    BY <2>1 DEF FoldOf
  <2>2. CASE d # {}
    <3>1. PICK e, x : e = d \ {Max(d)} /\ x = Max(d)
      OBVIOUS
    <3>2. x \in 1 .. n /\ e \in SUBSET (1 .. n)
      BY <1>0, <2>2, <3>1, RestIs
    <3>3. F[<<h[e], x>>] = Visit(node_at, h[e], s[x])
      BY <1>2, <1>4, <1>6, <3>2
    <3>4. QED
      BY <2>2, <3>1, <3>3 DEF FoldOf
  <2>3. QED
    BY <2>1, <2>2
<1>8. h = [d \in SUBSET (DOMAIN s) |-> part(h, d)]
  <2> HIDE DEF part
  <2>1. [d \in SUBSET (1 .. n) |-> part(h, d)] = [d \in SUBSET (1 .. n) |-> FoldOf(h, F, Start(node_at), d)]
    BY <1>7
  <2>2. QED
    BY <1>2, <1>5, <2>1 DEF IsFold
<1>9. it = [d \in SUBSET (DOMAIN s) |-> part(it, d)]
  BY <1>8
<1> HIDE DEF it
<1> DEFINE g == [k \in 0 .. n |-> it[1 .. k]]
<1>10. g[0] = Start(node_at)
  <2>1. 1 .. 0 = {} /\ {} \in SUBSET (1 .. n)
    OBVIOUS
  <2>2. it[{}] = Start(node_at)
    BY <1>2, <1>9, <2>1
  <2>3. QED
    BY <1>0, <2>1, <2>2
<1>11. ASSUME NEW k \in 1 .. n  PROVE g[k] = Visit(node_at, g[k - 1], k * page)
  <2>1. it[1 .. k] = Visit(node_at, it[1 .. k - 1], s[k])
    <3>1. PICK d, e : d = 1 .. k /\ e = 1 .. k - 1
      OBVIOUS
    <3>2. d \in SUBSET (DOMAIN s) /\ Max(d) = k /\ d \ {k} = e /\ d # {}
      BY <1>0, <1>2, <3>1, PrefixIs
    <3>3. it[d] = part(it, d)
      <4> HIDE DEF part
      <4>1. QED
        BY <1>9, <3>2
    <3>4. QED
      BY <3>1, <3>2, <3>3
  <2>2. k - 1 \in 0 .. n /\ k \in 0 .. n /\ s[k] = k * page
    BY <1>0, <1>2
  <2>3. QED
    BY <2>1, <2>2
<1>12. Walk(arch, node_at, sz, page) = End(g[n], sz)
  BY <1>0, <1>1, <1>2
<1> HIDE DEF g
<1>13. IsWalk(g, node_at, page, n)
  BY <1>10, <1>11 DEF IsWalk
<1>14. QED
  BY <1>12, <1>13
\* tag[i] is the node that counts for byte i; a spot tells of the first hi bytes.
OnNode(tag, m, hi) == {i \in 0 .. hi - 1 : tag[i] = m}
Tells(dist, tag, hi) ==
    /\ dist \in Dists /\ Sum(arch, dist) = hi
    /\ \A m \in Nodes(arch) : dist[m] = Cardinality(OnNode(tag, m, hi))

LEMMA CreditTells ==
    ASSUME config \in Configs, NEW dist, NEW tag, NEW lo \in Nat, NEW hi \in Nat, lo <= hi,
           Tells(dist, tag, lo), NEW node_ \in Nodes(arch), \A i \in lo .. hi - 1 : tag[i] = node_
    PROVE  Tells(Credit(dist, node_, hi - lo), tag, hi)
<1>1. PICK e, c : c = hi - lo /\ e = Credit(dist, node_, c)
  OBVIOUS
<1>2. dist \in Dists /\ Sum(arch, dist) = lo /\ c \in Nat
  BY <1>1 DEF Tells
<1>3. e \in Dists /\ Sum(arch, e) = hi
  <2>1. e \in Dists /\ Sum(arch, e) = Sum(arch, dist) + c
    BY <1>1, <1>2, SumOfCredit
  <2>2. lo + c = hi
    BY <1>1
  <2>3. QED
    BY <1>2, <2>1, <2>2
<1>4. ASSUME NEW m \in Nodes(arch), m # node_  PROVE e[m] = Cardinality(OnNode(tag, m, hi))
  <2>1. OnNode(tag, m, hi) = OnNode(tag, m, lo)
    BY <1>4 DEF OnNode
  <2>2. e[m] = dist[m]
    BY <1>1, <1>2, <1>4 DEF Credit, Dists
  <2>3. QED
    BY <2>1, <2>2 DEF Tells
<1>5. e[node_] = Cardinality(OnNode(tag, node_, hi))
  <2>1. PICK A, B : A = OnNode(tag, node_, lo) /\ B = lo .. hi - 1
    OBVIOUS
  <2>2. OnNode(tag, node_, hi) = A \cup B /\ A \cap B = {}
    BY <2>1 DEF OnNode
  <2>3. IsFiniteSet(A)
    <3>1. IsFiniteSet(0 .. lo - 1) /\ A \subseteq 0 .. lo - 1
      BY <2>1, FS_Interval DEF OnNode
    <3>2. QED
      BY <3>1, FS_Subset
  <2>4. IsFiniteSet(B) /\ Cardinality(B) = c
    <3>1. lo \in Int /\ hi - 1 \in Int
      OBVIOUS
    <3>2. IsFiniteSet(lo .. hi - 1)
          /\ Cardinality(lo .. hi - 1) = IF lo > hi - 1 THEN 0 ELSE (hi - 1) - lo + 1
      BY <3>1, FS_Interval
    <3>3. QED
      BY <1>1, <2>1, <3>2
  <2>5. Cardinality(A \cap B) = 0
    BY <2>2, FS_EmptySet
  <2>6. Cardinality(A \cup B) = Cardinality(A) + Cardinality(B) - Cardinality(A \cap B)
    BY <2>3, <2>4, FS_Union
  <2>7. Cardinality(A) \in Nat
    BY <2>3, FS_CardinalityType
  <2>8. Cardinality(A \cup B) = Cardinality(A) + c
    BY <1>2, <2>4, <2>5, <2>6, <2>7
  <2>9. e[node_] = dist[node_] + c /\ dist[node_] = Cardinality(A)
    BY <1>1, <1>2, <2>1 DEF Credit, Dists, Tells
  <2>10. QED
    BY <2>2, <2>8, <2>9
<1>6. QED
  BY <1>1, <1>3, <1>4, <1>5 DEF Tells

\* A walk counts each byte once, on the node at the beginning of its page.
TagOf(node_at, sz, page) == [i \in 0 .. sz - 1 |-> node_at[(i \div page) * page]]

LEMMA WalkTells ==
    ASSUME config \in Configs, NEW sz \in Nat \ {0}, NEW page \in Nat \ {0}, NEW node_at,
           \A i \in 0 .. sz - 1 : node_at[i] \in Nodes(arch)
    PROVE  Tells(Walk(arch, node_at, sz, page), TagOf(node_at, sz, page), sz)
<1>1. PICK n \in Nat : n = (sz - 1) \div page
  BY DivIs
<1>2. PICK tag : tag = TagOf(node_at, sz, page)
  OBVIOUS
<1>3. n * page <= sz - 1 /\ sz - 1 < n * page + page
  BY <1>1, DivIs
<1>4. ASSUME NEW k \in 0 .. n
      PROVE  /\ k * page \in 0 .. sz - 1
             /\ \A i \in 0 .. sz - 1 : k * page <= i /\ i < k * page + page => tag[i] = node_at[k * page]
  <2>1. k * page <= n * page /\ k * page \in Nat
    BY TimesAtMost
  <2>2. ASSUME NEW i \in 0 .. sz - 1, k * page <= i, i < k * page + page
        PROVE  tag[i] = node_at[k * page]
    <3>1. i \div page = k
      BY <2>2, DivUnique
    <3>2. QED
      BY <1>2, <3>1 DEF TagOf
  <2>3. n * page \in Nat
    OBVIOUS
  <2>4. QED
    BY <1>3, <2>1, <2>2, <2>3
<1>5. 0 * page = 0 /\ 0 \in 0 .. n
  OBVIOUS
<1>6. node_at[0] \in Nodes(arch) /\ \A k \in 1 .. n : node_at[k * page] \in Nodes(arch)
  BY <1>4
<1>7. PICK g : /\ g[0] = Start(node_at)
               /\ \A k \in 1 .. n : g[k] = Visit(node_at, g[k - 1], k * page)
               /\ Walk(arch, node_at, sz, page) = End(g[n], sz)
  <2>1. \E g : IsWalk(g, node_at, page, n) /\ Walk(arch, node_at, sz, page) = End(g[n], sz)
    <3>1. IsRange(node_at, sz, page, n)
      BY <1>1, <1>6 DEF IsRange
    <3>2. QED
      BY <3>1, WalkIs
  <2>2. QED
    BY <2>1 DEF IsWalk
<1> DEFINE Good(st, k) ==
               /\ st.ifrom \in 0 .. k * page /\ Tells(st.dist, tag, st.ifrom) /\ st.node \in Nodes(arch)
               /\ \A i \in 0 .. sz - 1 : st.ifrom <= i /\ i < k * page + page => tag[i] = st.node
<1>8. Good(g[0], 0)
  <2>1. g[0].ifrom = 0 /\ g[0].dist = EmptyDist(arch) /\ g[0].node = node_at[0]
    BY <1>7 DEF Start
  <2>2. Tells(EmptyDist(arch), tag, 0)
    <3>1. EmptyDist(arch) \in Dists /\ Sum(arch, EmptyDist(arch)) = 0
      BY SumOfNothing
    <3>2. \A m \in Nodes(arch) : EmptyDist(arch)[m] = 0 /\ OnNode(tag, m, 0) = {}
      BY DEF EmptyDist, OnNode
    <3>3. QED
      BY <3>1, <3>2, FS_EmptySet DEF Tells
  <2>3. \A i \in 0 .. sz - 1 : i < 0 * page + page => tag[i] = node_at[0]
    <3>1. \A i \in 0 .. sz - 1 : 0 * page <= i /\ i < 0 * page + page => tag[i] = node_at[0 * page]
      BY <1>4, <1>5
    <3>2. QED
      BY <1>5, <3>1
  <2>4. QED
    BY <1>5, <1>6, <2>1, <2>2, <2>3
<1>9. ASSUME NEW k \in 1 .. n, Good(g[k - 1], k - 1)  PROVE Good(g[k], k)
  <2>1. PICK st, i : st = g[k - 1] /\ i = k * page
    OBVIOUS
  <2>2. i \in 0 .. sz - 1 /\ (k - 1) * page + page = i /\ (k - 1) * page <= i
    BY <1>4, <2>1
  <2>3. /\ st.ifrom \in 0 .. i /\ Tells(st.dist, tag, st.ifrom) /\ st.node \in Nodes(arch)
        /\ \A j \in 0 .. sz - 1 : st.ifrom <= j /\ j < i => tag[j] = st.node
    <3>1. PICK q : q = (k - 1) * page
      OBVIOUS
    <3>2. q + page = i /\ q \in Int /\ st.ifrom \in 0 .. q /\ q <= i
      BY <1>9, <2>1, <2>2, <3>1
    <3>3. /\ Tells(st.dist, tag, st.ifrom) /\ st.node \in Nodes(arch)
          /\ \A j \in 0 .. sz - 1 : st.ifrom <= j /\ j < q + page => tag[j] = st.node
      BY <1>9, <2>1, <3>1
    <3>4. QED
      BY <2>2, <3>2, <3>3
  <2>4. \A j \in 0 .. sz - 1 : i <= j /\ j < i + page => tag[j] = node_at[i]
    BY <1>4, <2>1
  <2>5. g[k] = Visit(node_at, st, i) /\ node_at[i] \in Nodes(arch)
    BY <1>6, <1>7, <2>1
  <2>6. CASE node_at[i] = st.node
    <3>1. g[k] = st
      BY <2>5, <2>6 DEF Visit
    <3>2. \A j \in 0 .. sz - 1 : st.ifrom <= j /\ j < i + page => tag[j] = st.node
      <4>1. ASSUME NEW j \in 0 .. sz - 1, st.ifrom <= j, j < i + page  PROVE tag[j] = st.node
        <5>1. j < i \/ i <= j
          BY <2>2
        <5>2. QED
          BY <2>3, <2>4, <2>6, <4>1, <5>1
      <4>2. QED
        BY <4>1
    <3>3. QED
      BY <2>1, <2>3, <3>1, <3>2
  <2>7. CASE node_at[i] # st.node
    <3>1. /\ g[k].dist = Credit(st.dist, st.node, i - st.ifrom)
          /\ g[k].node = node_at[i] /\ g[k].ifrom = i
      BY <2>5, <2>7 DEF Visit
    <3>2. Tells(Credit(st.dist, st.node, i - st.ifrom), tag, i)
      <4>1. PICK lo : lo = st.ifrom
        OBVIOUS
      <4>2. lo \in Nat /\ lo <= i /\ i \in Nat /\ Tells(st.dist, tag, lo) /\ st.node \in Nodes(arch)
        BY <2>2, <2>3, <4>1
      <4>3. \A j \in lo .. i - 1 : tag[j] = st.node
        BY <2>2, <2>3, <4>1, <4>2
      <4>4. Tells(Credit(st.dist, st.node, i - lo), tag, i)
        BY <4>2, <4>3, CreditTells
      <4>5. QED
        BY <4>1, <4>4
    <3>3. i \in 0 .. i
      BY <2>2
    <3>4. QED
      BY <2>1, <2>4, <2>5, <3>1, <3>2, <3>3
  <2>8. QED
    BY <2>6, <2>7
<1>10. Good(g[n], n)
  <2> HIDE DEF Good
  <2> DEFINE Bad == {k \in 0 .. n : ~Good(g[k], k)}
  <2>1. ASSUME NEW k \in Bad, \A j \in Bad : k <= j  PROVE FALSE
    <3>1. k # 0
      BY <1>8
    <3>2. k \in 1 .. n /\ k - 1 \in 0 .. n /\ ~(k <= k - 1)
      BY <3>1
    <3>3. Good(g[k - 1], k - 1)
      BY <2>1, <3>2
    <3>4. QED
      BY <1>9, <3>2, <3>3
  <2>2. Bad \in SUBSET Nat
    OBVIOUS
  <2> HIDE DEF Bad
  <2>3. Bad = {}
    BY <2>1, <2>2, LeastNumber
  <2>4. QED
    BY <2>3 DEF Bad
<1>11. PICK st, lo : st = g[n] /\ lo = st.ifrom
  OBVIOUS
<1>12. /\ lo \in Nat /\ lo <= sz /\ Tells(st.dist, tag, lo) /\ st.node \in Nodes(arch)
       /\ \A i \in lo .. sz - 1 : tag[i] = st.node
  <2>1. PICK q : q = n * page
    OBVIOUS
  <2>2. q \in Nat /\ q <= sz - 1 /\ sz - 1 < q + page
    BY <1>3, <2>1
  <2>3. /\ lo \in 0 .. q /\ Tells(st.dist, tag, lo) /\ st.node \in Nodes(arch)
        /\ \A i \in 0 .. sz - 1 : lo <= i /\ i < q + page => tag[i] = st.node
    BY <1>10, <1>11, <2>1
  <2>4. QED
    BY <2>2, <2>3
<1>13. Tells(Credit(st.dist, st.node, sz - lo), tag, sz)
  BY <1>12, CreditTells
<1>14. QED
  BY <1>2, <1>7, <1>11, <1>13 DEF End
-----------------------------------------------------------------------------
(* Footprints *)

\* A byte of a block lies on a page of it, and so does the byte that the cache
\* takes for it.
LEMMA NodeIn ==
    ASSUME MemInv, NEW k \in Used, NEW b, b = blocks[k], NEW i \in 0 .. b.sz - 1, NEW part_of
    PROVE  /\ i \div PageSize \in Pages(b.sz) /\ (i + HeaderSize) \div PageSize \in Pages(b.sz)
           /\ get_node_of(b, i, part_of) = IF part_of /\ b.node_cache # <<>>
                                           THEN b.home[i \div PageSize] ELSE NodeAt(b, i)
           /\ get_node_of(b, i, part_of) \in Nodes(arch) /\ NodeAt(b, i) \in Nodes(arch)
<1>1. IsBlock(b)
  BY DEF MemInv, BlockInv
<1>2. /\ b.sz \in Nat \ {0} /\ PageSize \in Nat \ {0} /\ HeaderSize \in Nat
      /\ new_sz(b.sz) = b.sz + HeaderSize
  BY <1>1, SizeFacts DEF IsBlock, new_sz
<1>3. PICK top : top = new_sz(b.sz) - 1
  OBVIOUS
<1>4. i \in Nat /\ i + HeaderSize \in Nat /\ i <= top /\ i + HeaderSize <= top /\ top \in Nat
  BY <1>2, <1>3
<1>5. PICK p, q, last : p = i \div PageSize /\ q = (i + HeaderSize) \div PageSize /\ last = top \div PageSize
  OBVIOUS
<1>6. p \in Nat /\ q \in Nat /\ p <= last /\ q <= last /\ last \in Nat
  BY <1>2, <1>4, <1>5, DivIs, DivAtMost
<1>7. Pages(b.sz) = 0 .. last /\ p \in 0 .. last /\ q \in 0 .. last
  BY <1>3, <1>5, <1>6 DEF Pages
<1>8. Cardinality(Pages(b.sz)) = last + 1
  BY <1>1, <1>3, <1>5, PagesAre DEF IsBlock
<1>9. b.home \in [Pages(b.sz) -> Nodes(arch)]
  BY <1>1 DEF IsBlock
<1>10. NodeAt(b, i) = b.home[q]
  BY <1>5 DEF NodeAt
<1>11. CASE part_of /\ b.node_cache # <<>>
  <2>1. b.node_cache = [x \in 1 .. last + 1 |-> b.home[x - 1]]
    BY <1>1, <1>8, <1>11 DEF IsBlock, CacheOf
  <2>2. p + 1 \in 1 .. last + 1 /\ (p + 1) - 1 = p
    BY <1>6
  <2>3. b.node_cache[p + 1] = b.home[p]
    BY <2>1, <2>2
  <2>4. get_node_of(b, i, part_of) = b.home[p]
    BY <1>5, <1>11, <2>3 DEF get_node_of
  <2>5. QED
    BY <1>5, <1>7, <1>9, <1>10, <1>11, <2>4
<1>12. CASE ~(part_of /\ b.node_cache # <<>>)
  <2>1. get_node_of(b, i, part_of) = NodeAt(b, i)
    BY <1>12 DEF get_node_of
  <2>2. QED
    BY <1>5, <1>7, <1>9, <1>10, <1>12, <2>1
<1>13. QED
  BY <1>11, <1>12

\* sz bytes from addr on, of a block whose header names a node if it has one.
IsRangeOf(b, addr, sz) ==
    /\ addr \in Nat /\ sz \in Nat \ {0} /\ addr + sz <= b.sz
    /\ b.marked => b.nodeid \in Nodes(arch)
    /\ \E k \in Used : b = blocks[k]

LEMMA RangeCounts ==
    ASSUME MemInv, NEW b, NEW addr, NEW sz, IsRangeOf(b, addr, sz), NEW part_of
    PROVE  /\ mir_mem_get_mem_node_dist(b, addr, sz, part_of) \in Dists
           /\ Sum(arch, mir_mem_get_mem_node_dist(b, addr, sz, part_of)) = sz
<1> PICK k \in Used : b = blocks[k]
  BY DEF IsRangeOf
<1> addr \in Nat /\ sz \in Nat \ {0} /\ addr + sz <= b.sz /\ (b.marked => b.nodeid \in Nodes(arch))
  BY DEF IsRangeOf
<1>0. config \in Configs /\ PageSize \in Nat \ {0} /\ b.sz \in Nat
  <2>1. config \in Configs /\ IsBlock(b)
    BY DEF MemInv, PlaceInv, BlockInv
  <2>2. b.sz \in Sizes
    BY <2>1 DEF IsBlock
  <2>3. QED
    BY <2>1, <2>2, SizeFacts
<1>1. CASE b.marked /\ (part_of \/ addr = 0)
  <2>1. mir_mem_get_mem_node_dist(b, addr, sz, part_of) = Credit(EmptyDist(arch), b.nodeid, sz)
    BY <1>1 DEF mir_mem_get_mem_node_dist
  <2>2. PICK e : e = EmptyDist(arch) /\ e \in Dists /\ Sum(arch, e) = 0
    BY <1>0, SumOfNothing
  <2>3. PICK n \in Nodes(arch) : n = b.nodeid
    BY <1>1
  <2>4. Credit(e, n, sz) \in Dists /\ Sum(arch, Credit(e, n, sz)) = Sum(arch, e) + sz
    BY <1>0, <2>2, SumOfCredit
  <2>5. QED
    BY <2>1, <2>2, <2>3, <2>4
<1>2. CASE ~(b.marked /\ (part_of \/ addr = 0))
  <2>1. PICK node_at : node_at = [i \in 0 .. sz - 1 |-> get_node_of(b, addr + i, part_of)]
    OBVIOUS
  <2>2. mir_mem_get_mem_node_dist(b, addr, sz, part_of) = Walk(arch, node_at, sz, PageSize)
    BY <1>2, <2>1 DEF mir_mem_get_mem_node_dist
  <2>3. ASSUME NEW i \in 0 .. sz - 1  PROVE node_at[i] \in Nodes(arch)
    <3>1. PICK j : j = addr + i
      OBVIOUS
    <3>2. j \in 0 .. b.sz - 1
      BY <1>0, <3>1
    <3>3. get_node_of(b, j, part_of) \in Nodes(arch)
      BY <3>2, NodeIn
    <3>4. QED
      BY <2>1, <3>1, <3>3
  <2>4. Tells(Walk(arch, node_at, sz, PageSize), TagOf(node_at, sz, PageSize), sz)
    BY <1>0, <2>3, WalkTells
  <2>5. QED
    BY <2>2, <2>4 DEF Tells
<1>3. QED
  BY <1>1, <1>2

LEMMA RowsAre ==
    ASSUME NEW fp \in Footprints
    PROVE  /\ RowBytes(fp) \in Nat \ {0} /\ Len(RowStarts(fp)) \in Nat \ {0}
           /\ DOMAIN RowStarts(fp) = 1 .. Len(RowStarts(fp))
           /\ \A r \in 1 .. Len(RowStarts(fp)) :
                    RowStarts(fp)[r] \in Nat /\ RowStarts(fp)[r] <= Last(RowStarts(fp))
<1>1. /\ fp.type \in Nat \ {0} /\ fp.start \in Nat /\ fp.end \in Nat
      /\ fp.start <= fp.end /\ fp.row_sz \in Nat
  BY FootprintAssumption
<1>2. RowBytes(fp) \in Nat \ {0}
  <2>1. PICK x, t : x = fp.end - fp.start + 1 /\ t = fp.type
    OBVIOUS
  <2>2. x \in Nat \ {0} /\ t \in Nat \ {0}
    BY <1>1, <2>1
  <2>3. x * t \in Nat \ {0}
    BY <2>2
  <2>4. QED
    BY <2>1, <2>3 DEF RowBytes
<1>3. CASE fp.row_sz > 1
  <2>1. PICK n, r_, t : n = fp.end + 1 /\ r_ = fp.row_sz /\ t = fp.type
    OBVIOUS
  <2>2. n \in Nat \ {0} /\ r_ \in Nat /\ t \in Nat
    BY <1>1, <2>1
  <2>3. PICK s : s = [brow \in 1 .. n |-> (brow - 1) * r_ * t]
    OBVIOUS
  <2>4. RowStarts(fp) = s
    BY <1>3, <2>1, <2>3 DEF RowStarts
  <2>5. ASSUME NEW r \in 1 .. n  PROVE s[r] \in Nat /\ s[r] <= s[n]
    <3>1. r - 1 \in Nat /\ n - 1 \in Nat /\ r - 1 <= n - 1
      BY <2>2
    <3>2. PICK x, y : x = (r - 1) * r_ /\ y = (n - 1) * r_
      OBVIOUS
    <3>3. x \in Nat /\ y \in Nat /\ x <= y
      BY <2>2, <3>1, <3>2, TimesAtMost
    <3>4. x * t \in Nat /\ x * t <= y * t
      BY <2>2, <3>3, TimesAtMost
    <3>5. s[r] = x * t /\ s[n] = y * t
      BY <2>2, <2>3, <3>2
    <3>6. QED
      BY <3>4, <3>5
  <2>6. DOMAIN s = 1 .. n /\ Len(s) = n
    <3>1. s \in Seq(Nat)
      <4>1. s \in [1 .. n -> Nat]
        BY <2>3, <2>5
      <4>2. QED
        BY <2>2, <4>1, SeqDef
    <3>2. DOMAIN s = 1 .. n
      BY <2>3
    <3>3. QED
      BY <2>2, <3>1, <3>2, LenProperties
  <2>7. Last(s) = s[n]
    BY <2>6 DEF Last
  <2>8. QED
    BY <1>2, <2>2, <2>4, <2>5, <2>6, <2>7
<1>4. CASE ~(fp.row_sz > 1)
  <2>1. RowStarts(fp) = <<0>>
    BY <1>4 DEF RowStarts
  <2>2. Len(<<0>>) = 1 /\ DOMAIN <<0>> = 1 .. 1 /\ <<0>>[1] = 0 /\ Last(<<0>>) = 0
    BY DEF Last
  <2>3. QED
    BY <1>2, <2>1, <2>2
<1>5. QED
  BY <1>3, <1>4
\* A footprint is the sum of its rows.
LEMMA RowsCount ==
    ASSUME MemInv, NEW b, NEW fp \in Footprints, NEW part_of, NEW n, n = Len(RowStarts(fp)),
           \A r \in 1 .. n :
                LET d == mir_mem_get_mem_node_dist(b, RowStarts(fp)[r], RowBytes(fp), part_of)
                IN  d \in Dists /\ Sum(arch, d) = RowBytes(fp)
    PROVE  Sum(arch, FootprintDist(b, fp, part_of)) = n * RowBytes(fp)
<1> DEFINE s == RowStarts(fp)
           row(x) == mir_mem_get_mem_node_dist(b, x, RowBytes(fp), part_of)
           part(h, d) == IF d = {} THEN EmptyDist(arch)
                         ELSE AddDists(h[d \ {Max(d)}], row(s[Max(d)]))
           it == CHOOSE h : h = [d \in SUBSET (DOMAIN s) |-> part(h, d)]
           F == [x \in Dists \X (1 .. n) |-> AddDists(x[1], row(s[x[2]]))]
<1>0. config \in Configs /\ n \in Nat /\ DOMAIN s = 1 .. n /\ RowBytes(fp) \in Nat
  BY RowsAre DEF MemInv, PlaceInv
<1>1. FootprintDist(b, fp, part_of) = it[DOMAIN s]
  BY DEF FootprintDist, FoldLeft, MapThenFoldSet
<1>2. \A r \in 1 .. n : row(s[r]) \in Dists /\ Sum(arch, row(s[r])) = RowBytes(fp)
  OBVIOUS
<1> HIDE DEF s, row
<1>3. EmptyDist(arch) \in Dists /\ Sum(arch, EmptyDist(arch)) = 0
  BY <1>0, SumOfNothing
<1>4. ASSUME NEW st \in Dists, NEW k \in 1 .. n
      PROVE  F[<<st, k>>] = AddDists(st, row(s[k])) /\ F[<<st, k>>] \in Dists
  <2>1. F[<<st, k>>] = AddDists(st, row(s[k]))
    OBVIOUS
  <2>2. AddDists(st, row(s[k])) \in Dists
    BY <1>0, <1>2, SumOfSums
  <2>3. QED
    BY <2>1, <2>2
<1> HIDE DEF F
<1>5. PICK h : IsFold(h, F, EmptyDist(arch), n)
  BY <1>0, FoldExists
<1>6. \A d \in SUBSET (1 .. n) : h[d] \in Dists
  BY <1>0, <1>3, <1>4, <1>5, FoldStays
<1>7. ASSUME NEW d \in SUBSET (1 .. n)  PROVE FoldOf(h, F, EmptyDist(arch), d) = part(h, d)
  <2>1. CASE d = {}
    BY <2>1 DEF FoldOf
  <2>2. CASE d # {}
    <3>1. PICK e, x : e = d \ {Max(d)} /\ x = Max(d)
      OBVIOUS
    <3>2. x \in 1 .. n /\ e \in SUBSET (1 .. n)
      BY <1>0, <2>2, <3>1, RestIs
    <3>3. F[<<h[e], x>>] = AddDists(h[e], row(s[x]))
      BY <1>4, <1>6, <3>2
    <3>4. QED
      BY <2>2, <3>1, <3>3 DEF FoldOf
  <2>3. QED
    BY <2>1, <2>2
<1>8. h = [d \in SUBSET (DOMAIN s) |-> part(h, d)]
  <2> HIDE DEF part
  <2>1. [d \in SUBSET (1 .. n) |-> part(h, d)]
            = [d \in SUBSET (1 .. n) |-> FoldOf(h, F, EmptyDist(arch), d)]
    BY <1>7
  <2>2. QED
    BY <1>0, <1>5, <2>1 DEF IsFold
<1>9. it = [d \in SUBSET (DOMAIN s) |-> part(it, d)]
  BY <1>8
<1> HIDE DEF it
<1> DEFINE g == [k \in 0 .. n |-> it[1 .. k]]
<1>10. g[0] = EmptyDist(arch)
  <2>1. 1 .. 0 = {} /\ {} \in SUBSET (1 .. n)
    OBVIOUS
  <2>2. it[{}] = EmptyDist(arch)
    BY <1>0, <1>9, <2>1
  <2>3. QED
    BY <1>0, <2>1, <2>2
<1>11. ASSUME NEW k \in 1 .. n  PROVE g[k] = AddDists(g[k - 1], row(s[k])) /\ k - 1 \in 0 .. n
  <2>1. it[1 .. k] = AddDists(it[1 .. k - 1], row(s[k]))
    <3>1. PICK d, e : d = 1 .. k /\ e = 1 .. k - 1
      OBVIOUS
    <3>2. d \in SUBSET (DOMAIN s) /\ Max(d) = k /\ d \ {k} = e /\ d # {}
      BY <1>0, <3>1, PrefixIs
    <3>3. it[d] = part(it, d)
      <4> HIDE DEF part
      <4>1. QED
        BY <1>9, <3>2
    <3>4. QED
      BY <3>1, <3>2, <3>3
  <2>2. k - 1 \in 0 .. n /\ k \in 0 .. n
    BY <1>0
  <2>3. QED
    BY <2>1, <2>2
<1>12. FootprintDist(b, fp, part_of) = g[n]
  BY <1>0, <1>1
<1> HIDE DEF g
<1> DEFINE Good(k) == g[k] \in Dists /\ Sum(arch, g[k]) = k * RowBytes(fp)
<1>13. Good(0)
  BY <1>0, <1>3, <1>10
<1>14. ASSUME NEW k \in 1 .. n, Good(k - 1)  PROVE Good(k)
  <2>1. PICK d, e, y : d = g[k - 1] /\ e = row(s[k]) /\ y = RowBytes(fp)
    OBVIOUS
  <2>2. /\ d \in Dists /\ e \in Dists /\ Sum(arch, d) = (k - 1) * y /\ Sum(arch, e) = y
        /\ y \in Nat /\ k \in Nat
    BY <1>0, <1>2, <1>14, <2>1
  <2>3. AddDists(d, e) \in Dists /\ Sum(arch, AddDists(d, e)) = Sum(arch, d) + Sum(arch, e)
    BY <1>0, <2>2, SumOfSums
  <2>4. (k - 1) * y + y = k * y
    BY <2>2
  <2>5. QED
    BY <1>11, <2>1, <2>2, <2>3, <2>4
<1>15. Good(n)
  <2> HIDE DEF Good
  <2> DEFINE Bad == {k \in 0 .. n : ~Good(k)}
  <2>1. ASSUME NEW k \in Bad, \A j \in Bad : k <= j  PROVE FALSE
    <3>1. k # 0
      BY <1>13
    <3>2. k \in 1 .. n /\ k - 1 \in 0 .. n /\ ~(k <= k - 1)
      BY <1>0, <3>1
    <3>3. Good(k - 1)
      BY <2>1, <3>2
    <3>4. QED
      BY <1>14, <3>2, <3>3
  <2>2. Bad \in SUBSET Nat
    OBVIOUS
  <2> HIDE DEF Bad
  <2>3. Bad = {}
    BY <2>1, <2>2, LeastNumber
  <2>4. QED
    BY <1>0, <2>3 DEF Bad
<1>16. QED
  BY <1>12, <1>15

LEMMA FootprintCounts == MemInv => FootprintIsCounted
<1> SUFFICES ASSUME MemInv, NEW k \in Used, NEW fp \in Footprints, NEW part_of \in BOOLEAN,
                    NEW b, b = blocks[k], Fits(b, fp), b.marked => b.nodeid \in Nodes(arch)
             PROVE  Sum(arch, FootprintDist(b, fp, part_of)) = Len(RowStarts(fp)) * RowBytes(fp)
  BY DEF FootprintIsCounted
<1>1. PICK n, s, y, z : n = Len(RowStarts(fp)) /\ s = RowStarts(fp) /\ y = RowBytes(fp)
                        /\ z = Last(RowStarts(fp))
  OBVIOUS
<1>2. /\ y \in Nat \ {0} /\ n \in Nat \ {0} /\ \A r \in 1 .. n : s[r] \in Nat /\ s[r] <= z
      /\ z + y <= b.sz
  BY <1>1, RowsAre DEF Fits
<1>3. z \in Nat /\ b.sz \in Nat
  <2>1. DOMAIN s = 1 .. n /\ z = s[n]
    BY <1>1, RowsAre DEF Last
  <2>2. IsBlock(b)
    BY DEF MemInv, BlockInv
  <2>3. QED
    BY <1>2, <2>1, <2>2, SizeFacts DEF IsBlock
<1>4. ASSUME NEW r \in 1 .. n
      PROVE  /\ mir_mem_get_mem_node_dist(b, s[r], y, part_of) \in Dists
             /\ Sum(arch, mir_mem_get_mem_node_dist(b, s[r], y, part_of)) = y
  <2>1. PICK addr \in Nat : addr = s[r] /\ addr + y <= b.sz
    BY <1>2, <1>3
  <2>2. /\ mir_mem_get_mem_node_dist(b, addr, y, part_of) \in Dists
        /\ Sum(arch, mir_mem_get_mem_node_dist(b, addr, y, part_of)) = y
    <3>1. IsRangeOf(b, addr, y)
      BY <1>2, <2>1 DEF IsRangeOf
    <3>2. QED
      BY <3>1, RangeCounts
  <2>3. QED
    BY <2>1, <2>2
<1>5. QED
  BY <1>1, <1>4, RowsCount

\* The distribution of a footprint that fits in a block counts each of its bytes,
\* once, also when rows begin and end within pages: mir_mem_get_mem_node_dist neither
\* forgets the bytes after the last page nor counts one for two nodes.
THEOREM FootprintsAreCounted == Spec => []FootprintIsCounted
BY MemInvariant, FootprintCounts, PTL
-----------------------------------------------------------------------------
(* What the distribution of a block tells *)

\* The bytes at the end of a page that the header pushes to the next one.
Pushed(sz, h, p) == {i \in 0 .. sz - 1 : (i + h) \div p # i \div p}

\* As many as the header has bytes, on each page.
LEMMA PushedAre ==
    ASSUME NEW sz \in Nat \ {0}, NEW p \in Nat \ {0}, NEW h \in 1 .. p - 1,
           NEW S, IsFiniteSet(S), \A i \in 0 .. sz - 1 : i \div p \in S
    PROVE  IsFiniteSet(Pushed(sz, h, p)) /\ Cardinality(Pushed(sz, h, p)) <= h * Cardinality(S)
<1> DEFINE D == Pushed(sz, h, p)
           off(i) == p - (i - (i \div p) * p)
           f == [i \in D |-> <<i \div p, off(i)>>]
<1>1. ASSUME NEW i \in D
      PROVE  /\ i \in Nat /\ i \div p \in S /\ i \div p \in Nat /\ off(i) \in 1 .. h
             /\ i = (i \div p) * p + p - off(i)
  <2>1. i \in 0 .. sz - 1 /\ (i + h) \div p # i \div p
    BY DEF Pushed
  <2>2. PICK q, r : q = i \div p /\ r = q * p
    OBVIOUS
  <2>3. q \in Nat /\ r \in Nat /\ r <= i /\ i < r + p
    <3>1. q \in Nat /\ q * p <= i /\ i < q * p + p
      BY <2>1, <2>2, DivIs
    <3>2. q * p \in Nat
      BY <3>1
    <3>3. QED
      BY <2>2, <3>1, <3>2
  <2>4. ~(i + h < r + p)
    <3>1. SUFFICES ASSUME i + h < r + p  PROVE FALSE
      OBVIOUS
    <3>2. PICK a : a = i + h
      OBVIOUS
    <3>3. a \in Nat /\ r <= a /\ a < r + p
      BY <2>1, <2>3, <3>1, <3>2
    <3>4. q * p <= a /\ a < q * p + p
      BY <2>2, <3>3
    <3>5. a \div p = q
      BY <2>3, <3>3, <3>4, DivUnique
    <3>6. QED
      BY <2>1, <2>2, <3>2, <3>5
  <2>5. p - (i - r) \in 1 .. h /\ i = r + p - (p - (i - r))
    BY <2>1, <2>3, <2>4
  <2>6. QED
    BY <2>1, <2>2, <2>3, <2>5
<1>2. IsFiniteSet(1 .. h) /\ Cardinality(1 .. h) = h
  BY FS_Interval
<1>3. IsFiniteSet(S \X (1 .. h)) /\ Cardinality(S \X (1 .. h)) = Cardinality(S) * h
  BY <1>2, FS_Product
<1>4. f \in Injection(D, S \X (1 .. h))
  <2>1. f \in [D -> S \X (1 .. h)]
    <3> HIDE DEF D, off
    <3>1. \A i \in D : i \div p \in S /\ off(i) \in 1 .. h
      BY <1>1
    <3>2. QED
      BY <3>1
  <2>2. ASSUME NEW i \in D, NEW j \in D, f[i] = f[j]  PROVE i = j
    <3>1. i \div p = j \div p /\ off(i) = off(j)
      <4> HIDE DEF D, off
      <4>1. QED
        BY <2>2
    <3>2. PICK q, o, x : q = i \div p /\ o = off(i) /\ x = q * p
      OBVIOUS
    <3>3. i = x + p - o /\ j = x + p - o
      <4> HIDE DEF D, off
      <4>1. QED
        BY <1>1, <3>1, <3>2
    <3>4. QED
      BY <3>3
  <2> HIDE DEF f
  <2>3. DOMAIN f = D
    BY <2>1
  <2> HIDE DEF D
  <2>4. QED
    BY <2>1, <2>2, <2>3 DEF Injection, IsInjective
<1> HIDE DEF f, D
<1>5. IsFiniteSet(D) /\ Cardinality(D) <= Cardinality(S) * h
  BY <1>3, <1>4, FS_Injection
<1>6. Cardinality(S) * h = h * Cardinality(S)
  <2>1. Cardinality(S) \in Nat
    BY FS_CardinalityType
  <2>2. QED
    BY <2>1
<1>7. QED
  BY <1>5, <1>6 DEF D

\* Two sets that agree outside of D differ in size by what D has at most.
LEMMA SizesDiffer ==
    ASSUME NEW A, NEW B, NEW D, IsFiniteSet(A), IsFiniteSet(B), IsFiniteSet(D), A \ D = B \ D
    PROVE  Distance(Cardinality(A), Cardinality(B)) <= Cardinality(D)
<1>1. ASSUME NEW X, IsFiniteSet(X)
      PROVE  /\ Cardinality(X) \in Nat /\ Cardinality(X \ D) \in Nat /\ Cardinality(X) >= Cardinality(X \ D)
             /\ Cardinality(X) <= Cardinality(X \ D) + Cardinality(D)
  <2>1. PICK Y, Z : Y = X \ D /\ Z = X \cap D
    OBVIOUS
  <2>2. IsFiniteSet(Y) /\ IsFiniteSet(Z) /\ Y \cup Z = X /\ Y \cap Z = {} /\ Z \in SUBSET D
        /\ Cardinality(Y) <= Cardinality(X)
    <3>1. Y \in SUBSET X /\ Z \in SUBSET X
      BY <2>1
    <3>2. IsFiniteSet(Y) /\ IsFiniteSet(Z) /\ Cardinality(Y) <= Cardinality(X)
      BY <1>1, <3>1, FS_Subset
    <3>3. QED
      BY <2>1, <3>2
  <2>3. Cardinality(Y \cup Z) = Cardinality(Y) + Cardinality(Z) - Cardinality(Y \cap Z)
    BY <2>2, FS_Union
  <2>4. Cardinality(Y \cap Z) = 0
    BY <2>2, FS_EmptySet
  <2>5. Cardinality(Z) <= Cardinality(D)
    BY <2>2, FS_Subset
  <2>6. /\ Cardinality(X) \in Nat /\ Cardinality(Y) \in Nat /\ Cardinality(Z) \in Nat
        /\ Cardinality(D) \in Nat
    BY <1>1, <2>2, FS_CardinalityType
  <2>7. Cardinality(X) = Cardinality(Y) + Cardinality(Z)
    <3>1. Cardinality(X) = Cardinality(Y) + Cardinality(Z) - 0
      BY <2>2, <2>3, <2>4
    <3>2. QED
      BY <2>6, <3>1
  <2>8. QED
    BY <2>1, <2>2, <2>5, <2>6, <2>7
<1>2. PICK a, c, d, r : a = Cardinality(A) /\ c = Cardinality(B) /\ d = Cardinality(D)
                        /\ r = Cardinality(A \ D)
  OBVIOUS
<1>3. a \in Nat /\ r \in Nat /\ a >= r /\ a <= r + d
  BY <1>1, <1>2
<1>4. c \in Nat /\ c >= r /\ c <= r + d
  BY <1>1, <1>2
<1>5. d \in Nat
  BY <1>2, FS_CardinalityType
<1>6. Distance(a, c) <= d
  BY <1>3, <1>4, <1>5 DEF Distance
<1>7. QED
  BY <1>2, <1>6
LEMMA BlockTells == MemInv => WholeIsTold
<1> SUFFICES ASSUME MemInv, NEW k \in Used, NEW b, b = blocks[k],
                    b.marked => b.nodeid = b.home[0], NEW n \in Nodes(arch)
             PROVE  Distance(mir_mem_get_mem_node_dist(b, 0, b.sz, TRUE)[n], Lies(b)[n])
                        <= HeaderSize * Cardinality(Pages(b.sz))
  BY DEF WholeIsTold
<1>1. IsBlock(b) /\ config \in Configs
  BY DEF MemInv, PlaceInv, BlockInv
<1>2. PICK sz, P, H : sz = b.sz /\ P = PageSize /\ H = HeaderSize
  OBVIOUS
<1>3. /\ sz \in Sizes /\ sz \in Nat \ {0} /\ P \in Nat \ {0} /\ H \in 1 .. P - 1
      /\ b.home \in [Pages(sz) -> Nodes(arch)] /\ 0 \in Pages(sz)
      /\ IsFiniteSet(Pages(sz)) /\ Cardinality(Pages(sz)) \in Nat
  <2>1. sz \in Sizes /\ b.home \in [Pages(sz) -> Nodes(arch)]
    BY <1>1, <1>2 DEF IsBlock
  <2>2. 0 \in Pages(sz) /\ IsFiniteSet(Pages(sz))
    BY <2>1, PagesAre
  <2>3. QED
    BY <1>2, <2>1, <2>2, SizeFacts, FS_CardinalityType
<1>4. PICK dist : dist = mir_mem_get_mem_node_dist(b, 0, sz, TRUE)
  OBVIOUS
<1>5. PICK A : A = {i \in 0 .. sz - 1 : NodeAt(b, i) = n}
  OBVIOUS
<1>6. Lies(b)[n] = Cardinality(A) /\ IsFiniteSet(A)
  <2>1. IsFiniteSet(0 .. sz - 1)
    BY <1>3, FS_Interval
  <2>2. IsFiniteSet(A)
    BY <1>5, <2>1, FS_Subset
  <2>3. QED
    BY <1>2, <1>5, <2>2 DEF Lies
<1>7. H * Cardinality(Pages(sz)) \in Nat
  BY <1>3
<1>8. CASE b.marked
  <2>1. \A i \in 0 .. sz - 1 : NodeAt(b, i) = b.home[0]
    <3>1. OnOneNode(b)
      BY <1>1, <1>8 DEF IsBlock
    <3>2. ASSUME NEW i \in 0 .. sz - 1  PROVE NodeAt(b, i) = b.home[0]
      <4>1. (i + HeaderSize) \div PageSize \in Pages(b.sz)
        BY <1>2, NodeIn
      <4>2. QED
        BY <3>1, <4>1 DEF OnOneNode, NodeAt
    <3>3. QED
      BY <3>2
  <2>2. dist = Credit(EmptyDist(arch), b.home[0], sz)
    BY <1>4, <1>8 DEF mir_mem_get_mem_node_dist
  <2>3. dist[n] = IF n = b.home[0] THEN sz ELSE 0
    BY <1>3, <2>2 DEF Credit, EmptyDist
  <2>4. Cardinality(A) = IF n = b.home[0] THEN sz ELSE 0
    <3>1. CASE n = b.home[0]
      <4>1. A = 0 .. sz - 1
        BY <1>5, <2>1, <3>1
      <4>2. Cardinality(0 .. sz - 1) = sz
        BY <1>3, FS_Interval
      <4>3. QED
        BY <3>1, <4>1, <4>2
    <3>2. CASE n # b.home[0]
      <4>1. A = {}
        BY <1>5, <2>1, <3>2
      <4>2. QED
        BY <3>2, <4>1, FS_EmptySet
    <3>3. QED
      BY <3>1, <3>2
  <2>5. PICK x : x = dist[n] /\ x = Cardinality(A) /\ x \in Nat
    BY <1>3, <2>3, <2>4
  <2>6. Distance(x, x) = 0
    BY <2>5 DEF Distance
  <2>7. Distance(dist[n], Lies(b)[n]) = 0
    BY <1>6, <2>5, <2>6
  <2>8. Distance(dist[n], Lies(b)[n]) <= H * Cardinality(Pages(sz))
    <3>1. PICK most \in Nat : most = H * Cardinality(Pages(sz))
      BY <1>7
    <3>2. QED
      BY <2>7, <3>1
  <2>9. QED
    BY <1>2, <1>4, <2>8
<1>9. CASE ~b.marked
  <2>1. PICK node_at : node_at = [i \in 0 .. sz - 1 |-> get_node_of(b, 0 + i, TRUE)]
    OBVIOUS
  <2>2. dist = Walk(arch, node_at, sz, P)
    BY <1>2, <1>4, <1>9, <2>1 DEF mir_mem_get_mem_node_dist
  <2>3. \A i \in 0 .. sz - 1 : node_at[i] = get_node_of(b, i, TRUE) /\ node_at[i] \in Nodes(arch)
    <3>1. ASSUME NEW i \in 0 .. sz - 1
          PROVE  node_at[i] = get_node_of(b, i, TRUE) /\ node_at[i] \in Nodes(arch)
      <4>1. 0 + i = i
        OBVIOUS
      <4>2. node_at[i] = get_node_of(b, i, TRUE)
        BY <2>1, <4>1
      <4>3. get_node_of(b, i, TRUE) \in Nodes(arch)
        BY <1>2, NodeIn
      <4>4. QED
        BY <4>2, <4>3
    <3>2. QED
      BY <3>1
  <2>4. PICK tag, B, D : /\ tag = TagOf(node_at, sz, P) /\ B = OnNode(tag, n, sz)
                         /\ D = Pushed(sz, H, P)
    OBVIOUS
  <2>5. dist[n] = Cardinality(B) /\ IsFiniteSet(B)
    <3>1. Tells(Walk(arch, node_at, sz, P), TagOf(node_at, sz, P), sz)
      BY <1>1, <1>3, <2>3, WalkTells
    <3>2. IsFiniteSet(0 .. sz - 1)
      BY <1>3, FS_Interval
    <3>3. IsFiniteSet(B)
      <4>1. B \in SUBSET (0 .. sz - 1)
        BY <2>4 DEF OnNode
      <4>2. QED
        BY <3>2, <4>1, FS_Subset
    <3>4. QED
      BY <2>2, <2>4, <3>1, <3>3 DEF Tells
  <2>6. IsFiniteSet(D) /\ Cardinality(D) <= H * Cardinality(Pages(sz))
    <3>1. \A i \in 0 .. sz - 1 : i \div P \in Pages(sz)
      BY <1>2, NodeIn
    <3>2. QED
      BY <1>3, <2>4, <3>1, PushedAre
  <2>7. ASSUME NEW i \in 0 .. sz - 1, i \notin D  PROVE tag[i] = NodeAt(b, i)
    <3>1. PICK q, j : q = i \div P /\ j = q * P
      OBVIOUS
    <3>2. q \in Nat /\ j \in Nat /\ j <= i
      <4>1. q \in Nat /\ q * P <= i
        BY <1>3, <3>1, DivIs
      <4>2. q * P \in Nat
        BY <1>3, <4>1
      <4>3. QED
        BY <3>1, <4>1, <4>2
    <3>3. j \in 0 .. sz - 1 /\ (i + H) \div P = q
      <4>1. j \in 0 .. sz - 1
        BY <1>3, <3>2
      <4>2. (i + H) \div P = q
        BY <2>4, <2>7, <3>1 DEF Pushed
      <4>3. QED
        BY <4>1, <4>2
    <3>4. j \div P = q /\ (j + H) \div P = q
      <4>1. PICK l : l = j + H
        OBVIOUS
      <4>2. j \in Nat /\ l \in Nat /\ j <= l /\ j < j + P /\ l < j + P
        BY <1>3, <3>2, <4>1
      <4>3. q * P <= j /\ j < q * P + P /\ q * P <= l /\ l < q * P + P
        BY <3>1, <4>2
      <4>4. QED
        BY <1>3, <3>2, <4>1, <4>2, <4>3, DivUnique
    <3>5. tag[i] = node_at[j]
      BY <2>4, <3>1 DEF TagOf
    <3>6. node_at[j] = get_node_of(b, j, TRUE)
      BY <2>3, <3>3
    <3>7. get_node_of(b, j, TRUE) = IF b.node_cache # <<>> THEN b.home[j \div PageSize] ELSE NodeAt(b, j)
      BY <1>2, <3>3, NodeIn
    <3>8. get_node_of(b, j, TRUE) = b.home[q]
      BY <1>2, <3>4, <3>7 DEF NodeAt
    <3>9. NodeAt(b, i) = b.home[q]
      BY <1>2, <3>3 DEF NodeAt
    <3>10. QED
      BY <3>5, <3>6, <3>8, <3>9
  <2>8. A \ D = B \ D
    BY <1>5, <2>4, <2>7 DEF OnNode
  <2>9. Distance(Cardinality(B), Cardinality(A)) <= Cardinality(D)
    BY <1>6, <2>5, <2>6, <2>8, SizesDiffer
  <2>10. Distance(Cardinality(B), Cardinality(A)) \in Int /\ Cardinality(D) \in Nat
    BY <1>6, <2>5, <2>6, FS_CardinalityType DEF Distance
  <2>11. Distance(Cardinality(B), Cardinality(A)) <= H * Cardinality(Pages(sz))
    BY <1>7, <2>6, <2>9, <2>10
  <2>12. QED
    BY <1>2, <1>4, <1>6, <2>5, <2>11
<1>10. QED
  BY <1>8, <1>9

\* What mir_mem_get_mem_node_dist says of a block that one policy allocated is off
\* by at most the header's length a page, for every page size, header and size: by
\* the cache, which counts pages from the address that user code has, or by the walk,
\* which asks only where a page begins.  And every byte of a footprint counts once.
THEOREM DistributionsTell == Spec => []DistributionTells
<1>1. MemInv => DistributionTells
  BY BlockTells, FootprintCounts DEF DistributionTells
<1>2. QED
  BY <1>1, MemInvariant, PTL
=============================================================================
