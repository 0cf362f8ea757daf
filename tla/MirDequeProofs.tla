---------------------------- MODULE MirDequeProofs ----------------------------
(***************************************************************************)
(* Proofs about the deque with the locked cas and the fence, as            *)
(* x86_64_HOST_ARCH compiles it: for any number of thieves and tasks and   *)
(* any capacity, until the indices wrap.                                   *)
(*                                                                         *)
(* The owner's writes reach memory late, so the invariant speaks of three  *)
(* bottoms: the one the owner has written last, the one below which        *)
(* elements are still to be had (while the owner decides about an element  *)
(* it is still there), and the one below which memory shows every element. *)
(* A thief that has passed its look at bottom holds an index below the     *)
(* last; the owner takes without a cas only what no such thief can hold.   *)
(***************************************************************************)
EXTENDS MirDeque, SequenceTheorems, TLAPS

NoWrap == HostArch /\ MaxTasks < Word

\* What the owner has written last, whether the others see it or not.
Pending == stores[Owner]
BotOf(s, bottom) == IF s = <<>> THEN bottom ELSE s[Len(s)].val
ElemsOf(s, elements, x) ==
    IF Len(s) > 1 THEN [elements EXCEPT ![Slot(s[Len(s)].val - 1)] = x] ELSE elements
Bot == BotOf(Pending, memory.bottom)
Elems == ElemsOf(Pending, memory.elements, next - 1)

LiveBot == IF pc[Owner] \in {"pop", "pop_cas"} THEN Bot + 1 ELSE Bot
SeenBot == IF pc[Owner] = "pushed" /\ Pending # <<>> THEN Bot - 1 ELSE LiveBot
Live == memory.top .. LiveBot - 1

\* The writes on their way, and what memory holds instead.
PushWrites == <<Element(Bot - 1, next - 1), Bottom(Bot)>>
BufferInv ==
    /\ \A p \in Thieves : stores[p] = <<>>
    /\ pc[Owner] \in {"idle", "take"} =>
            Pending = <<>> \/ (Pending = <<Bottom(memory.top)>> /\ memory.bottom = memory.top - 1)
    /\ pc[Owner] = "pushed" =>
            \/ Pending = <<>>
            \/ Pending \in {PushWrites, <<Bottom(Bot)>>} /\ memory.bottom = Bot - 1
            \/ /\ Pending = <<Bottom(Bot - 1), Element(Bot - 1, next - 1), Bottom(Bot)>>
               /\ memory.bottom = Bot - 2
    /\ pc[Owner] = "pop" =>
            Bot = b /\ (Pending = <<>> \/ (Pending = <<Bottom(b)>> /\ memory.bottom = b + 1))
    /\ pc[Owner] = "pop_cas" => Bot = b /\ Pending = <<>>

IndexInv ==
    /\ topBound \in Nat /\ memory.top \in Nat /\ Bot \in Nat /\ memory.bottom \in Nat
    /\ topBound <= memory.top /\ memory.top <= SeenBot
    /\ LiveBot <= next - 1 /\ LiveBot - topBound <= moduloSize

\* The elements that are left are the tasks that nobody has been handed.
TaskInv ==
    /\ \A i \in Live : Elems[Slot(i)] \in Left
    /\ \A x \in Left : \E i \in Live : Elems[Slot(i)] = x
    /\ \A i, j \in Live : i < j => Elems[Slot(i)] < Elems[Slot(j)]
    /\ \A i \in 0 .. SeenBot - 1 : memory.elements[Slot(i)] \in Tasks
    /\ \A x \in Tasks : handed[x] <= 1
    /\ inlined \subseteq 1 .. next - 1 /\ \A x \in Tasks : x >= next => handed[x] = 0

WorkerInv ==
    /\ pc[Owner] \in {"idle", "pushed", "pop", "pop_cas", "take"}
    /\ pc[Owner] = "pop_cas" => t[Owner] = b /\ topBound = b /\ item[Owner] = Elems[Slot(b)]
    /\ \A p \in Workers : pc[p] \in {"pop_cas", "steal_cas", "take"} => item[p] \in Tasks
    /\ \A p \in Thieves :
        /\ pc[p] \in {"idle", "steal_bottom", "steal_read", "steal_cas", "take"}
        /\ pc[p] \in {"steal_bottom", "steal_read", "steal_cas"} => t[p] <= memory.top
        /\ pc[p] \in {"steal_read", "steal_cas"} => t[p] < SeenBot
        /\ pc[p] = "steal_cas" /\ t[p] = memory.top => item[p] = memory.elements[Slot(t[p])]

DequeInv == TypeOK /\ BufferInv /\ IndexInv /\ TaskInv /\ WorkerInv
-----------------------------------------------------------------------------
(* What a worker sees: FoldLeft over its writes, unfolded. *)

FoldUpTo(g, m, s, n) ==
    g = [d \in SUBSET (1 .. n) |-> IF d = {} THEN m ELSE Apply(g[d \ {Max(d)}], s[Max(d)])]

LEMMA MaxIs ==
    ASSUME NEW d, NEW x \in d, d \subseteq Nat, \A y \in d : x >= y
    PROVE  Max(d) = x
<1>1. \A y \in d : (\A z \in d : y >= z) => y = x
  OBVIOUS
<1> QED
  BY <1>1 DEF Max

LEMMA FoldEmpty ==
    ASSUME NEW m, NEW s
    PROVE  \E g : FoldUpTo(g, m, s, 0)
<1> DEFINE h == [d \in SUBSET (1 .. 0) |-> m]
<1>1. \A d \in SUBSET (1 .. 0) : d = {}
  OBVIOUS
<1>2. FoldUpTo(h, m, s, 0)
  BY <1>1 DEF FoldUpTo
<1> QED
  BY <1>2

LEMMA FoldExtends ==
    ASSUME NEW m, NEW s, NEW n \in Nat, NEW g, FoldUpTo(g, m, s, n), NEW j, j = n + 1
    PROVE  \E h : FoldUpTo(h, m, s, j)
<1> DEFINE h == [d \in SUBSET (1 .. n + 1) |->
                    IF n + 1 \in d THEN Apply(g[d \ {n + 1}], s[n + 1]) ELSE g[d]]
           f(d) == IF d = {} THEN m ELSE Apply(h[d \ {Max(d)}], s[Max(d)])
<1>1. ASSUME NEW d \in SUBSET (1 .. n + 1), n + 1 \in d  PROVE h[d] = f(d)
  <2>1. Max(d) = n + 1
    <3>1. n + 1 \in d /\ d \subseteq Nat /\ \A y \in d : n + 1 >= y
      BY <1>1
    <3> HIDE DEF h
    <3> QED
      BY <3>1, MaxIs
  <2>2. d \ {n + 1} \in SUBSET (1 .. n + 1) /\ n + 1 \notin d \ {n + 1}
    OBVIOUS
  <2>3. h[d \ {n + 1}] = g[d \ {n + 1}]
    BY <2>2
  <2>4. h[d] = Apply(g[d \ {n + 1}], s[n + 1])
    BY <1>1
  <2> HIDE DEF h
  <2> QED
    BY <1>1, <2>1, <2>3, <2>4
<1>2. ASSUME NEW d \in SUBSET (1 .. n + 1), n + 1 \notin d  PROVE h[d] = f(d)
  <2>1. d \in SUBSET (1 .. n) /\ d \ {Max(d)} \in SUBSET (1 .. n)
    <3>1. ASSUME NEW y \in d  PROVE y \in 1 .. n
      <4>1. y \in 1 .. n + 1 /\ y # n + 1
        BY <1>2, <3>1
      <4> QED
        BY <4>1
    <3> QED
      BY <3>1
  <2>2. n + 1 \notin d \ {Max(d)} /\ d \ {Max(d)} \in SUBSET (1 .. n + 1)
    BY <1>2
  <2>3. h[d] = g[d] /\ h[d \ {Max(d)}] = g[d \ {Max(d)}]
    BY <1>2, <2>2
  <2>4. g[d] = IF d = {} THEN m ELSE Apply(g[d \ {Max(d)}], s[Max(d)])
    BY <2>1 DEF FoldUpTo
  <2> HIDE DEF h
  <2> QED
    BY <2>3, <2>4
<1>3. \A d \in SUBSET (1 .. n + 1) : h[d] = f(d)
  BY <1>1, <1>2
<1>4. h = [d \in SUBSET (1 .. n + 1) |-> f(d)]
  BY <1>3
<1> QED
  BY <1>4 DEF FoldUpTo

LEMMA FoldValue ==
    ASSUME NEW m, NEW s, NEW n \in Nat, NEW g, FoldUpTo(g, m, s, n)
    PROVE  /\ g[1 .. 0] = m
           /\ n >= 1 => g[1 .. 1] = Apply(g[1 .. 0], s[1])
           /\ n >= 2 => g[1 .. 2] = Apply(g[1 .. 1], s[2])
           /\ n >= 3 => g[1 .. 3] = Apply(g[1 .. 2], s[3])
<1>1. ASSUME NEW k \in 1 .. n  PROVE g[1 .. k] = Apply(g[1 .. k - 1], s[k])
  <2>1. Max(1 .. k) = k
    <3>1. k \in 1 .. k /\ 1 .. k \subseteq Nat /\ \A y \in 1 .. k : k >= y
      OBVIOUS
    <3> QED
      BY <3>1, MaxIs
  <2>2. (1 .. k) \ {k} = 1 .. k - 1 /\ 1 .. k # {} /\ 1 .. k \in SUBSET (1 .. n)
    OBVIOUS
  <2> QED
    BY <2>1, <2>2 DEF FoldUpTo
<1>2. g[1 .. 0] = m
  <2>1. 1 .. 0 \in SUBSET (1 .. n) /\ 1 .. 0 = {}
    OBVIOUS
  <2> QED
    BY <2>1 DEF FoldUpTo
<1>3. ASSUME n >= 1  PROVE g[1 .. 1] = Apply(g[1 .. 0], s[1])
  <2>1. 1 \in 1 .. n /\ 1 - 1 = 0
    BY <1>3
  <2>2. g[1 .. 1] = Apply(g[1 .. 1 - 1], s[1])
    BY <1>1, <2>1
  <2> QED
    BY <2>1, <2>2
<1>4. ASSUME n >= 2  PROVE g[1 .. 2] = Apply(g[1 .. 1], s[2])
  <2>1. 2 \in 1 .. n /\ 2 - 1 = 1
    BY <1>4
  <2>2. g[1 .. 2] = Apply(g[1 .. 2 - 1], s[2])
    BY <1>1, <2>1
  <2> QED
    BY <2>1, <2>2
<1>5. ASSUME n >= 3  PROVE g[1 .. 3] = Apply(g[1 .. 2], s[3])
  <2>1. 3 \in 1 .. n /\ 3 - 1 = 2
    BY <1>5
  <2>2. g[1 .. 3] = Apply(g[1 .. 3 - 1], s[3])
    BY <1>1, <2>1
  <2> QED
    BY <2>1, <2>2
<1> QED
  BY <1>2, <1>3, <1>4, <1>5

LEMMA FoldLeftIs ==
    ASSUME NEW m, NEW s, NEW n \in Nat, DOMAIN s = 1 .. n, NEW h, FoldUpTo(h, m, s, n)
    PROVE  \E g : FoldUpTo(g, m, s, n) /\ FoldLeft(Apply, m, s) = g[1 .. n]
<1> DEFINE it == CHOOSE g : g = [d \in SUBSET DOMAIN s |->
                    IF d = {} THEN m ELSE Apply(g[d \ {Max(d)}], s[Max(d)])]
<1>1. FoldUpTo(it, m, s, n)
  BY DEF FoldUpTo
<1>2. FoldLeft(Apply, m, s) = it[1 .. n]
  BY DEF FoldLeft, MapThenFoldSet
<1> QED
  BY <1>1, <1>2

LEMMA FoldOf0 ==
    ASSUME NEW m
    PROVE  FoldLeft(Apply, m, <<>>) = m
<1> DEFINE s == <<>>
<1>1. PICK h : FoldUpTo(h, m, s, 0)
  BY FoldEmpty
<1>2. DOMAIN s = 1 .. 0
  OBVIOUS
<1>3. PICK g : FoldUpTo(g, m, s, 0) /\ FoldLeft(Apply, m, s) = g[1 .. 0]
  BY <1>1, <1>2, FoldLeftIs
<1>4. g[1 .. 0] = m
  BY <1>3 DEF FoldUpTo
<1> QED
  BY <1>3, <1>4

LEMMA FoldOf1 ==
    ASSUME NEW m, NEW s, DOMAIN s = 1 .. 1
    PROVE  FoldLeft(Apply, m, s) = Apply(m, s[1])
<1>1. DOMAIN s = 1 .. 1
  OBVIOUS
<1>2. \E h : FoldUpTo(h, m, s, 0)
  BY FoldEmpty
<1>3. \E h : FoldUpTo(h, m, s, 1)
  BY <1>2, FoldExtends
<1>4. PICK g : FoldUpTo(g, m, s, 1) /\ FoldLeft(Apply, m, s) = g[1 .. 1]
  BY <1>1, <1>3, FoldLeftIs
<1>5. g[1 .. 1] = Apply(g[1 .. 0], s[1]) /\ g[1 .. 0] = m
  BY <1>4, FoldValue
<1> QED
  BY <1>4, <1>5

LEMMA FoldOf2 ==
    ASSUME NEW m, NEW s, DOMAIN s = 1 .. 2
    PROVE  FoldLeft(Apply, m, s) = Apply(Apply(m, s[1]), s[2])
<1>1. DOMAIN s = 1 .. 2
  OBVIOUS
<1>2. \E h : FoldUpTo(h, m, s, 0)
  BY FoldEmpty
<1>3. \E h : FoldUpTo(h, m, s, 1)
  BY <1>2, FoldExtends
<1>4. \E h : FoldUpTo(h, m, s, 2)
  BY <1>3, FoldExtends
<1>5. PICK g : FoldUpTo(g, m, s, 2) /\ FoldLeft(Apply, m, s) = g[1 .. 2]
  BY <1>1, <1>4, FoldLeftIs
<1>6. g[1 .. 1] = Apply(g[1 .. 0], s[1]) /\ g[1 .. 0] = m
  BY <1>5, FoldValue
<1>7. g[1 .. 2] = Apply(g[1 .. 1], s[2])
  BY <1>5, FoldValue
<1> QED
  BY <1>5, <1>6, <1>7

LEMMA FoldOf3 ==
    ASSUME NEW m, NEW s, DOMAIN s = 1 .. 3
    PROVE  FoldLeft(Apply, m, s) = Apply(Apply(Apply(m, s[1]), s[2]), s[3])
<1>1. DOMAIN s = 1 .. 3
  OBVIOUS
<1>2. \E h : FoldUpTo(h, m, s, 0)
  BY FoldEmpty
<1>3. \E h : FoldUpTo(h, m, s, 1)
  BY <1>2, FoldExtends
<1>4. \E h : FoldUpTo(h, m, s, 2)
  BY <1>3, FoldExtends
<1>5. \E h : FoldUpTo(h, m, s, 3)
  BY <1>4, FoldExtends
<1>6. PICK g : FoldUpTo(g, m, s, 3) /\ FoldLeft(Apply, m, s) = g[1 .. 3]
  BY <1>1, <1>5, FoldLeftIs
<1>7. g[1 .. 1] = Apply(g[1 .. 0], s[1]) /\ g[1 .. 0] = m
  BY <1>6, FoldValue
<1>8. g[1 .. 2] = Apply(g[1 .. 1], s[2])
  BY <1>6, FoldValue
<1>9. g[1 .. 3] = Apply(g[1 .. 2], s[3])
  BY <1>6, FoldValue
<1> QED
  BY <1>6, <1>7, <1>8, <1>9
-----------------------------------------------------------------------------
(* Slots and unsigned indices. *)

LEMMA SizeFacts ==
    /\ Size \in Nat \ {0} /\ moduloSize = Size - 1 /\ moduloSize \in Nat
    /\ Word \in Nat /\ Word >= 2 * Size /\ MaxTasks \in Nat
BY SizeAssumption, WordAssumption DEF moduloSize

LEMMA SlotType ==
    ASSUME NEW i \in Int
    PROVE  Slot(i) \in 0 .. moduloSize
<1>1. ASSUME NEW n \in Nat \ {0}  PROVE i % n \in 0 .. n - 1
  OBVIOUS
<1> QED
  BY <1>1, SizeFacts DEF Slot

LEMMA Multiples ==
    ASSUME NEW k \in Int, NEW n \in Nat \ {0}, k # 0
    PROVE  n * k >= n \/ n * k <= -n
<1>1. CASE k >= 1
  BY <1>1
<1>2. CASE k <= -1
  BY <1>2
<1> QED
  BY <1>1, <1>2

LEMMA SlotsDiffer ==
    ASSUME NEW i \in Int, NEW j \in Int, i < j, j - i < Size
    PROVE  Slot(i) # Slot(j)
<1> SUFFICES ASSUME Slot(i) = Slot(j)  PROVE FALSE
  OBVIOUS
<1>1. ASSUME NEW n \in Nat \ {0}, i % n = j % n  PROVE \E k \in Int : j - i = n * k
  <2>1. i = n * (i \div n) + (i % n) /\ j = n * (j \div n) + (j % n)
    OBVIOUS
  <2>2. i \div n \in Int /\ j \div n \in Int /\ i % n \in Int
    OBVIOUS
  <2>3. ASSUME NEW x \in Int, NEW y \in Int  PROVE n * y - n * x = n * (y - x)
    OBVIOUS
  <2>4. j - i = n * (j \div n) - n * (i \div n)
    BY <1>1, <2>1, <2>2
  <2>5. j - i = n * ((j \div n) - (i \div n))
    BY <2>2, <2>3, <2>4
  <2>6. (j \div n) - (i \div n) \in Int
    BY <2>2
  <2> QED
    BY <2>5, <2>6
<1>2. PICK k \in Int : j - i = Size * k
  BY <1>1, SizeFacts DEF Slot
<1>3. k # 0
  BY <1>2, SizeFacts
<1>4. Size * k >= Size \/ Size * k <= -Size
  BY <1>3, SizeFacts, Multiples
<1> QED
  BY <1>2, <1>4, SizeFacts

LEMMA SmallMod ==
    ASSUME NEW i \in 0 .. Word - 1
    PROVE  i % Word = i
<1>1. ASSUME NEW n \in Nat, i < n  PROVE i % n = i
  BY <1>1
<1> QED
  BY <1>1, SizeFacts
-----------------------------------------------------------------------------
(* What the invariant says of a state. *)

\* The shapes of the owner's writes.
LEMMA Shapes ==
    ASSUME NEW s, NEW bottom, NEW elements, NEW n
    PROVE  /\ s = <<>> => BotOf(s, bottom) = bottom /\ ElemsOf(s, elements, n) = elements
           /\ \A x : s = <<Bottom(x)>> =>
                BotOf(s, bottom) = x /\ ElemsOf(s, elements, n) = elements
           /\ \A x, y, z : s = <<Element(x, y), Bottom(z)>> =>
                /\ BotOf(s, bottom) = z
                /\ ElemsOf(s, elements, n) = [elements EXCEPT ![Slot(z - 1)] = n]
           /\ \A u, x, y, z : s = <<Bottom(u), Element(x, y), Bottom(z)>> =>
                /\ BotOf(s, bottom) = z
                /\ ElemsOf(s, elements, n) = [elements EXCEPT ![Slot(z - 1)] = n]
<1>1. CASE s = <<>>
  BY <1>1 DEF BotOf, ElemsOf
<1>2. ASSUME NEW x, s = <<Bottom(x)>>
      PROVE  BotOf(s, bottom) = x /\ ElemsOf(s, elements, n) = elements
  <2>1. Len(s) = 1 /\ s[1].val = x /\ s # <<>>
    BY <1>2 DEF Bottom
  <2> QED
    BY <2>1 DEF BotOf, ElemsOf
<1>3. ASSUME NEW x, NEW y, NEW z, s = <<Element(x, y), Bottom(z)>>
      PROVE  /\ BotOf(s, bottom) = z
             /\ ElemsOf(s, elements, n) = [elements EXCEPT ![Slot(z - 1)] = n]
  <2>1. Len(s) = 2 /\ s[2].val = z /\ s # <<>>
    BY <1>3 DEF Bottom
  <2> QED
    BY <2>1 DEF BotOf, ElemsOf
<1>4. ASSUME NEW u, NEW x, NEW y, NEW z, s = <<Bottom(u), Element(x, y), Bottom(z)>>
      PROVE  /\ BotOf(s, bottom) = z
             /\ ElemsOf(s, elements, n) = [elements EXCEPT ![Slot(z - 1)] = n]
  <2>1. Len(s) = 3 /\ s[3].val = z /\ s # <<>>
    BY <1>4 DEF Bottom
  <2> QED
    BY <2>1 DEF BotOf, ElemsOf
<1> QED
  BY <1>1, <1>2, <1>3, <1>4

\* The owner sees its writes, the thieves see memory.
LEMMA ViewFacts ==
    ASSUME TypeOK, BufferInv, IndexInv, WorkerInv
    PROVE  /\ View(Owner).bottom = Bot /\ View(Owner).elements = Elems
           /\ View(Owner).top = memory.top
           /\ \A p \in Thieves : View(p) = memory
<1> DEFINE Slots == 0 .. moduloSize
<1>1. memory \in [top : Index, bottom : Index, elements : [Slots -> Tasks \cup {Garbage}]]
  BY DEF TypeOK
<1>2. \A p \in Thieves : View(p) = memory
  BY FoldOf0 DEF BufferInv, View
<1>3. CASE Pending = <<>>
  <2>1. View(Owner) = memory
    BY <1>3, FoldOf0 DEF View, Pending
  <2> QED
    BY <1>2, <1>3, <2>1, Shapes DEF Bot, Elems
<1>4. ASSUME NEW x, Pending = <<Bottom(x)>>
      PROVE  View(Owner).bottom = Bot /\ View(Owner).elements = Elems
                /\ View(Owner).top = memory.top
  <2>1. View(Owner) = Apply(memory, Bottom(x))
    <3>1. stores[Owner] = <<Bottom(x)>>
      BY <1>4 DEF Pending
    <3>2. DOMAIN stores[Owner] = 1 .. 1 /\ stores[Owner][1] = Bottom(x)
      BY <3>1
    <3>3. View(Owner) = Apply(memory, stores[Owner][1])
      BY <3>2, FoldOf1 DEF View
    <3> QED
      BY <3>2, <3>3
  <2>2. View(Owner) = [memory EXCEPT !.bottom = x]
    BY <2>1 DEF Apply, Bottom
  <2> QED
    BY <1>1, <1>4, <2>2, Shapes DEF Bot, Elems
<1>5. ASSUME NEW m \in [top : Index, bottom : Int, elements : [Slots -> Tasks \cup {Garbage}]],
             m.top = memory.top, m.elements = memory.elements
      PROVE  LET v == Apply(Apply(m, Element(Bot - 1, next - 1)), Bottom(Bot))
             IN  /\ v.bottom = Bot /\ v.top = memory.top
                 /\ v.elements = [memory.elements EXCEPT ![Slot(Bot - 1)] = next - 1]
  <2>1. Apply(m, Element(Bot - 1, next - 1))
            = [m EXCEPT !.elements = [@ EXCEPT ![Slot(Bot - 1)] = next - 1]]
    BY DEF Apply, Element
  <2> DEFINE m1 == [m EXCEPT !.elements = [@ EXCEPT ![Slot(Bot - 1)] = next - 1]]
  <2>2. /\ m1.top = memory.top /\ m1.bottom = m.bottom
        /\ m1.elements = [memory.elements EXCEPT ![Slot(Bot - 1)] = next - 1]
        /\ DOMAIN m1 = {"top", "bottom", "elements"}
    BY <1>5
  <2> HIDE DEF m1
  <2>3. Apply(m1, Bottom(Bot)) = [m1 EXCEPT !.bottom = Bot]
    BY DEF Apply, Bottom
  <2>4. /\ [m1 EXCEPT !.bottom = Bot].bottom = Bot
        /\ [m1 EXCEPT !.bottom = Bot].top = m1.top
        /\ [m1 EXCEPT !.bottom = Bot].elements = m1.elements
    BY <2>2
  <2> QED
    BY <2>1, <2>2, <2>3, <2>4 DEF m1
<1>6. CASE Pending = PushWrites
  <2>1. View(Owner) = Apply(Apply(memory, Element(Bot - 1, next - 1)), Bottom(Bot))
    <3>1. stores[Owner] = <<Element(Bot - 1, next - 1), Bottom(Bot)>>
      BY <1>6 DEF Pending, PushWrites
    <3>2. /\ DOMAIN stores[Owner] = 1 .. 2
          /\ stores[Owner][1] = Element(Bot - 1, next - 1) /\ stores[Owner][2] = Bottom(Bot)
      BY <3>1
    <3>3. View(Owner) = Apply(Apply(memory, stores[Owner][1]), stores[Owner][2])
      BY <3>2, FoldOf2 DEF View
    <3> QED
      BY <3>2, <3>3
  <2>2. memory \in [top : Index, bottom : Int, elements : [Slots -> Tasks \cup {Garbage}]]
    BY <1>1, SizeFacts DEF Index
  <2>3. Elems = [memory.elements EXCEPT ![Slot(Bot - 1)] = next - 1]
    BY <1>6, Shapes DEF PushWrites, Bot, Elems
  <2> QED
    BY <1>2, <1>5, <2>1, <2>2, <2>3
<1>7. CASE Pending = <<Bottom(Bot - 1), Element(Bot - 1, next - 1), Bottom(Bot)>>
  <2> DEFINE m == [memory EXCEPT !.bottom = Bot - 1]
  <2>1. Apply(memory, Bottom(Bot - 1)) = m
    BY DEF Apply, Bottom
  <2>2. View(Owner) = Apply(Apply(m, Element(Bot - 1, next - 1)), Bottom(Bot))
    <3>1. stores[Owner] = <<Bottom(Bot - 1), Element(Bot - 1, next - 1), Bottom(Bot)>>
      BY <1>7 DEF Pending
    <3>2. /\ DOMAIN stores[Owner] = 1 .. 3 /\ stores[Owner][1] = Bottom(Bot - 1)
          /\ stores[Owner][2] = Element(Bot - 1, next - 1) /\ stores[Owner][3] = Bottom(Bot)
      BY <3>1
    <3>3. View(Owner) = Apply(Apply(Apply(memory, stores[Owner][1]), stores[Owner][2]),
                              stores[Owner][3])
      BY <3>2, FoldOf3 DEF View
    <3> QED
      BY <2>1, <3>2, <3>3
  <2>3. /\ m \in [top : Index, bottom : Int, elements : [Slots -> Tasks \cup {Garbage}]]
        /\ m.top = memory.top /\ m.elements = memory.elements
    BY <1>1 DEF IndexInv
  <2>4. Elems = [memory.elements EXCEPT ![Slot(Bot - 1)] = next - 1]
    BY <1>7, Shapes DEF Bot, Elems
  <2> HIDE DEF m
  <2> QED
    BY <1>2, <1>5, <2>2, <2>3, <2>4
<1>8. \/ Pending = <<>>
      \/ \E x : Pending = <<Bottom(x)>>
      \/ Pending = PushWrites
      \/ Pending = <<Bottom(Bot - 1), Element(Bot - 1, next - 1), Bottom(Bot)>>
  BY DEF BufferInv, WorkerInv
<1> QED
  BY <1>2, <1>3, <1>4, <1>6, <1>7, <1>8

\* The three bottoms, and the elements that memory shows.
LEMMA BottomFacts ==
    ASSUME NoWrap, DequeInv
    PROVE  /\ Bot \in Nat /\ SeenBot \in Nat /\ LiveBot \in Nat
           /\ memory.top \in Nat /\ memory.bottom \in Nat /\ topBound \in Nat
           /\ Bot <= LiveBot /\ SeenBot <= LiveBot /\ memory.bottom <= SeenBot
           /\ topBound <= memory.top /\ memory.top <= SeenBot
           /\ next \in 1 .. MaxTasks + 1 /\ LiveBot <= next - 1 /\ LiveBot < Word
           /\ LiveBot - memory.top <= moduloSize
<1>1. /\ topBound \in Nat /\ memory.top \in Nat /\ Bot \in Nat /\ memory.bottom \in Nat
      /\ topBound <= memory.top /\ memory.top <= SeenBot
      /\ LiveBot <= next - 1 /\ LiveBot - topBound <= moduloSize
      /\ next \in 1 .. MaxTasks + 1 /\ MaxTasks < Word
  BY DEF DequeInv, IndexInv, TypeOK, NoWrap
<1>2. memory.bottom <= SeenBot /\ SeenBot \in Int /\ LiveBot \in Nat /\ SeenBot <= LiveBot
      /\ Bot <= LiveBot
  <2>1. CASE pc[Owner] \in {"idle", "take"}
    <3>1. LiveBot = Bot /\ SeenBot = Bot
      BY <2>1 DEF LiveBot, SeenBot
    <3>2. Pending = <<>> => memory.bottom = Bot
      BY Shapes DEF Bot
    <3> QED
      BY <1>1, <2>1, <3>1, <3>2 DEF DequeInv, BufferInv
  <2>2. CASE pc[Owner] = "pushed"
    <3>1. LiveBot = Bot /\ SeenBot = IF Pending # <<>> THEN Bot - 1 ELSE Bot
      BY <2>2 DEF LiveBot, SeenBot
    <3>2. Pending = <<>> => memory.bottom = Bot
      BY Shapes DEF Bot
    <3> QED
      BY <1>1, <2>2, <3>1, <3>2 DEF DequeInv, BufferInv
  <2>3. CASE pc[Owner] \in {"pop", "pop_cas"}
    <3>1. LiveBot = Bot + 1 /\ SeenBot = Bot + 1
      BY <2>3 DEF LiveBot, SeenBot
    <3>2. Pending = <<>> => memory.bottom = Bot
      BY Shapes DEF Bot
    <3> QED
      BY <1>1, <2>3, <3>1, <3>2 DEF DequeInv, BufferInv
  <2> QED
    BY <2>1, <2>2, <2>3 DEF DequeInv, WorkerInv
<1> QED
  BY <1>1, <1>2, SizeFacts

LEMMA ElementFacts ==
    ASSUME NoWrap, DequeInv
    PROVE  /\ Left \subseteq 1 .. next - 1 /\ Left \subseteq Tasks
           /\ \A i \in Live : Elems[Slot(i)] \in Left
           /\ \A i \in Live : i < SeenBot => Elems[Slot(i)] = memory.elements[Slot(i)]
           /\ \A i \in Nat : Slot(i) \in 0 .. moduloSize
           /\ Elems \in [0 .. moduloSize -> Tasks \cup {Garbage}]
           /\ memory.elements \in [0 .. moduloSize -> Tasks \cup {Garbage}]
<1>1. Left \subseteq 1 .. next - 1 /\ Left \subseteq Tasks
  BY SizeFacts DEF Left, Pushed, Tasks, DequeInv, TypeOK
<1>2. \A i \in Live : Elems[Slot(i)] \in Left
  BY DEF DequeInv, TaskInv
<1>3. \A i \in Nat : Slot(i) \in 0 .. moduloSize
  BY SlotType
<1>4. memory.elements \in [0 .. moduloSize -> Tasks \cup {Garbage}]
  BY DEF DequeInv, TypeOK
<1>5. CASE Elems = memory.elements
  BY <1>1, <1>2, <1>3, <1>4, <1>5
<1>6. CASE /\ pc[Owner] = "pushed" /\ Pending # <<>> /\ Bot >= 1
           /\ Elems = [memory.elements EXCEPT ![Slot(Bot - 1)] = next - 1]
  <2>1. SeenBot = Bot - 1 /\ LiveBot = Bot
    BY <1>6 DEF SeenBot, LiveBot
  <2>2. next - 1 \in Tasks
    BY <1>6, <2>1, BottomFacts, SizeFacts DEF Tasks
  <2>3. ASSUME NEW i \in Live, i < SeenBot  PROVE Slot(i) # Slot(Bot - 1)
    BY <2>1, <2>3, BottomFacts, SizeFacts, SlotsDiffer DEF Live
  <2>4. \A i \in Live : i \in Nat
    BY BottomFacts DEF Live
  <2> QED
    BY <1>1, <1>2, <1>3, <1>4, <1>6, <2>2, <2>3, <2>4
<1>7. \/ Elems = memory.elements
      \/ /\ pc[Owner] = "pushed" /\ Pending # <<>> /\ Bot >= 1
         /\ Elems = [memory.elements EXCEPT ![Slot(Bot - 1)] = next - 1]
  <2>1. \/ Pending = <<>> \/ (\E x : Pending = <<Bottom(x)>>)
        \/ /\ pc[Owner] = "pushed" /\ Bot >= 1
           /\ \/ Pending = <<Element(Bot - 1, next - 1), Bottom(Bot)>>
              \/ Pending = <<Bottom(Bot - 1), Element(Bot - 1, next - 1), Bottom(Bot)>>
    BY BottomFacts DEF DequeInv, BufferInv, WorkerInv, PushWrites
  <2>2. CASE Pending = <<>> \/ (\E x : Pending = <<Bottom(x)>>)
    BY <2>2, Shapes DEF Elems
  <2>3. CASE Pending = <<Element(Bot - 1, next - 1), Bottom(Bot)>>
    BY <2>1, <2>3, Shapes DEF Elems
  <2>4. CASE Pending = <<Bottom(Bot - 1), Element(Bot - 1, next - 1), Bottom(Bot)>>
    BY <2>1, <2>4, Shapes DEF Elems
  <2> QED
    BY <2>1, <2>2, <2>3, <2>4
<1> QED
  BY <1>5, <1>6, <1>7

\* A step that leaves memory, the writes and the owner's position alone.
LEMMA Frame ==
    ASSUME NoWrap, DequeInv,
           UNCHANGED <<memory, stores, topBound, b, next, inlined, handed>>,
           \/ pc'[Owner] = pc[Owner]
           \/ pc[Owner] = "take" /\ pc'[Owner] = "idle"
           \/ pc[Owner] = "pushed" /\ Pending = <<>> /\ pc'[Owner] = "idle"
    PROVE  /\ BufferInv' /\ IndexInv' /\ TaskInv'
           /\ Bot' = Bot /\ Elems' = Elems /\ SeenBot' = SeenBot /\ LiveBot' = LiveBot
<1>1. Pending' = Pending /\ Bot' = Bot /\ Elems' = Elems
  BY DEF Pending, Bot, Elems, BotOf, ElemsOf
<1>2. SeenBot' = SeenBot /\ LiveBot' = LiveBot
  BY <1>1 DEF SeenBot, LiveBot
<1>3. Left' = Left /\ Live' = Live
  BY <1>2 DEF Left, Pushed, Live
<1>4. BufferInv'
  <2>1. PushWrites' = PushWrites
    BY <1>1 DEF PushWrites, Element, Bottom, Slot
  <2>2. CASE pc'[Owner] = pc[Owner]
    BY <1>1, <2>1, <2>2 DEF DequeInv, BufferInv, Element, Bottom, Slot
  <2>3. CASE pc'[Owner] = "idle" /\ (pc[Owner] = "take" \/ Pending = <<>>)
    BY <1>1, <2>1, <2>3 DEF DequeInv, BufferInv, Element, Bottom, Slot
  <2> QED
    BY <2>2, <2>3
<1>5. IndexInv'
  BY <1>1, <1>2 DEF DequeInv, IndexInv
<1>6. TaskInv'
  BY <1>1, <1>2, <1>3 DEF DequeInv, TaskInv, Slot
<1> QED
  BY <1>1, <1>2, <1>4, <1>5, <1>6
-----------------------------------------------------------------------------
(* The steps of the thieves. *)

LEMMA StealTopKeeps ==
    ASSUME NoWrap, DequeInv, NEW p \in Thieves, StealTop(p)
    PROVE  DequeInv'
<1>1. p # Owner /\ p \in Workers /\ Owner \in Workers
  BY OwnerAssumption DEF Workers
<1>2. /\ pc[p] = "idle" /\ t' = [t EXCEPT ![p] = memory.top]
      /\ pc' = [pc EXCEPT ![p] = "steal_bottom"]
      /\ UNCHANGED <<memory, stores, topBound, b, item, next, taken, inlined, handed>>
  BY ViewFacts DEF StealTop, Goto, historyVars, DequeInv
<1>3. /\ BufferInv' /\ IndexInv' /\ TaskInv'
      /\ Bot' = Bot /\ Elems' = Elems /\ SeenBot' = SeenBot
  BY <1>1, <1>2, Frame DEF DequeInv, TypeOK
<1>4. TypeOK'
  BY <1>2 DEF DequeInv, TypeOK
<1>5. WorkerInv'
  <2>1. pc'[Owner] = pc[Owner] /\ t'[Owner] = t[Owner]
    BY <1>1, <1>2 DEF DequeInv, TypeOK
  <2>2. ASSUME NEW q \in Workers, pc'[q] \in {"pop_cas", "steal_cas", "take"}  PROVE item'[q] \in Tasks
    BY <1>1, <1>2, <2>2 DEF DequeInv, TypeOK, WorkerInv
  <2>3. ASSUME NEW q \in Thieves
        PROVE  /\ pc'[q] \in {"idle", "steal_bottom", "steal_read", "steal_cas", "take"}
               /\ pc'[q] \in {"steal_bottom", "steal_read", "steal_cas"} => t'[q] <= memory.top
               /\ pc'[q] \in {"steal_read", "steal_cas"} => t'[q] < SeenBot
               /\ pc'[q] = "steal_cas" /\ t'[q] = memory.top =>
                        item'[q] = memory.elements[Slot(t'[q])]
    <3>1. q \in Workers
      BY DEF Workers
    <3>2. CASE q = p
      BY <1>1, <1>2, <3>2, BottomFacts DEF DequeInv, TypeOK
    <3>3. CASE q # p
      BY <1>1, <1>2, <3>1, <3>3 DEF DequeInv, TypeOK, WorkerInv
    <3> QED
      BY <3>2, <3>3
  <2> QED
    BY <1>2, <1>3, <2>1, <2>2, <2>3 DEF DequeInv, WorkerInv, Slot
<1> QED
  BY <1>3, <1>4, <1>5 DEF DequeInv

LEMMA StealBottomKeeps ==
    ASSUME NoWrap, DequeInv, NEW p \in Thieves, StealBottom(p)
    PROVE  DequeInv'
<1>1. p # Owner /\ p \in Workers /\ Owner \in Workers
  BY OwnerAssumption DEF Workers
<1>2. /\ pc[p] = "steal_bottom"
      /\ \/ /\ pc' = [pc EXCEPT ![p] = "idle"] /\ t' = [t EXCEPT ![p] = 0]
            /\ item' = [item EXCEPT ![p] = NULL]
         \/ /\ memory.bottom - t[p] > 0
            /\ pc' = [pc EXCEPT ![p] = "steal_read"] /\ UNCHANGED <<t, item>>
      /\ UNCHANGED <<memory, stores, topBound, b, next, taken, inlined, handed>>
  <2>1. View(p) = memory
    BY ViewFacts DEF DequeInv
  <2>2. memory.bottom \in Int /\ t[p] \in Int
    BY <1>1, BottomFacts, SizeFacts DEF DequeInv, TypeOK, Index
  <2> QED
    BY <2>1, <2>2 DEF StealBottom, Goto, Return, historyVars
<1>3. /\ BufferInv' /\ IndexInv' /\ TaskInv'
      /\ Bot' = Bot /\ Elems' = Elems /\ SeenBot' = SeenBot
  BY <1>1, <1>2, Frame DEF DequeInv, TypeOK
<1>4. TypeOK'
  <2>1. 0 \in Index
    BY SizeFacts DEF Index
  <2> QED
    BY <1>2, <2>1 DEF DequeInv, TypeOK
<1>5. WorkerInv'
  <2>1. pc'[Owner] = pc[Owner] /\ t'[Owner] = t[Owner] /\ item'[Owner] = item[Owner]
    BY <1>1, <1>2 DEF DequeInv, TypeOK
  <2>2. ASSUME NEW q \in Workers, pc'[q] \in {"pop_cas", "steal_cas", "take"}  PROVE item'[q] \in Tasks
    <3>1. q # p
      BY <1>1, <1>2, <2>2 DEF DequeInv, TypeOK
    <3> QED
      BY <1>1, <1>2, <2>2, <3>1 DEF DequeInv, TypeOK, WorkerInv
  <2>3. ASSUME NEW q \in Thieves
        PROVE  /\ pc'[q] \in {"idle", "steal_bottom", "steal_read", "steal_cas", "take"}
               /\ pc'[q] \in {"steal_bottom", "steal_read", "steal_cas"} => t'[q] <= memory.top
               /\ pc'[q] \in {"steal_read", "steal_cas"} => t'[q] < SeenBot
               /\ pc'[q] = "steal_cas" /\ t'[q] = memory.top =>
                        item'[q] = memory.elements[Slot(t'[q])]
    <3>1. q \in Workers
      BY DEF Workers
    <3>2. CASE q = p /\ pc'[p] = "idle"
      BY <3>2
    <3>3. CASE q = p /\ pc'[p] # "idle"
      <4>1. /\ memory.bottom - t[p] > 0 /\ UNCHANGED <<t, item>> /\ pc'[p] = "steal_read"
        BY <1>1, <1>2, <3>3 DEF DequeInv, TypeOK
      <4>2. t[p] <= memory.top /\ t[p] \in Int
        BY <1>1, <1>2, SizeFacts DEF DequeInv, TypeOK, WorkerInv, Index
      <4>3. t[p] < SeenBot
        BY <4>1, <4>2, BottomFacts
      <4> QED
        BY <3>3, <4>1, <4>2, <4>3
    <3>4. CASE q # p
      BY <1>1, <1>2, <3>1, <3>4 DEF DequeInv, TypeOK, WorkerInv
    <3> QED
      BY <3>2, <3>3, <3>4
  <2> QED
    BY <1>2, <1>3, <2>1, <2>2, <2>3 DEF DequeInv, WorkerInv, Slot
<1> QED
  BY <1>3, <1>4, <1>5 DEF DequeInv

LEMMA StealReadKeeps ==
    ASSUME NoWrap, DequeInv, NEW p \in Thieves, StealRead(p)
    PROVE  DequeInv'
<1>1. p # Owner /\ p \in Workers /\ Owner \in Workers
  BY OwnerAssumption DEF Workers
<1>2. /\ pc[p] = "steal_read" /\ pc' = [pc EXCEPT ![p] = "steal_cas"]
      /\ item' = [item EXCEPT ![p] = memory.elements[Slot(t[p])]]
      /\ UNCHANGED <<memory, stores, topBound, t, b, next, taken, inlined, handed>>
  BY ViewFacts DEF StealRead, Goto, historyVars, DequeInv
<1>3. /\ BufferInv' /\ IndexInv' /\ TaskInv'
      /\ Bot' = Bot /\ Elems' = Elems /\ SeenBot' = SeenBot
  BY <1>1, <1>2, Frame DEF DequeInv, TypeOK
<1>4. memory.elements[Slot(t[p])] \in Tasks
  <2>1. t[p] < SeenBot /\ t[p] \in Nat
    BY <1>1, <1>2, SizeFacts DEF DequeInv, TypeOK, WorkerInv, Index
  <2>2. t[p] \in 0 .. SeenBot - 1
    BY <2>1, BottomFacts
  <2> QED
    BY <2>2 DEF DequeInv, TaskInv
<1>5. TypeOK'
  BY <1>2, <1>4 DEF DequeInv, TypeOK, Writes
<1>6. WorkerInv'
  <2>1. pc'[Owner] = pc[Owner] /\ item'[Owner] = item[Owner]
    BY <1>1, <1>2 DEF DequeInv, TypeOK
  <2>2. ASSUME NEW q \in Workers, pc'[q] \in {"pop_cas", "steal_cas", "take"}  PROVE item'[q] \in Tasks
    <3>1. CASE q = p
      BY <1>1, <1>2, <1>4, <3>1 DEF DequeInv, TypeOK
    <3>2. CASE q # p
      BY <1>1, <1>2, <2>2, <3>2 DEF DequeInv, TypeOK, WorkerInv
    <3> QED
      BY <3>1, <3>2
  <2>3. ASSUME NEW q \in Thieves
        PROVE  /\ pc'[q] \in {"idle", "steal_bottom", "steal_read", "steal_cas", "take"}
               /\ pc'[q] \in {"steal_bottom", "steal_read", "steal_cas"} => t'[q] <= memory.top
               /\ pc'[q] \in {"steal_read", "steal_cas"} => t'[q] < SeenBot
               /\ pc'[q] = "steal_cas" /\ t'[q] = memory.top =>
                        item'[q] = memory.elements[Slot(t'[q])]
    <3>1. q \in Workers
      BY DEF Workers
    <3>2. CASE q = p
      BY <1>1, <1>2, <3>2 DEF DequeInv, TypeOK, WorkerInv
    <3>3. CASE q # p
      BY <1>1, <1>2, <3>1, <3>3 DEF DequeInv, TypeOK, WorkerInv
    <3> QED
      BY <3>2, <3>3
  <2> QED
    BY <1>2, <1>3, <2>1, <2>2, <2>3 DEF DequeInv, WorkerInv, Slot
<1> QED
  BY <1>3, <1>5, <1>6 DEF DequeInv

\* A thief whose cas fails gives up: another reader was faster.
LEMMA StealCasLosesKeeps ==
    ASSUME NoWrap, DequeInv, NEW p \in Thieves, StealCas(p), memory.top # t[p]
    PROVE  DequeInv'
<1>1. p # Owner /\ p \in Workers /\ Owner \in Workers
  BY OwnerAssumption DEF Workers
<1>2. /\ pc[p] = "steal_cas" /\ pc' = [pc EXCEPT ![p] = "idle"]
      /\ t' = [t EXCEPT ![p] = 0] /\ item' = [item EXCEPT ![p] = NULL]
      /\ UNCHANGED <<memory, stores, topBound, b, next, taken, inlined, handed>>
  <2>1. View(p) = memory
    BY ViewFacts DEF DequeInv
  <2>2. ~CasWins(p)
    BY <2>1 DEF CasWins
  <2>3. UNCHANGED memory
    BY <2>2 DEF StealCas, Cas, DequeInv, TypeOK
  <2>4. UNCHANGED stores
    <3>1. stores[p] = <<>> /\ stores' = [stores EXCEPT ![p] = stores[p] \o <<>>]
      BY DEF StealCas, Cas, Store, Fenced, NoWrap
    <3>2. stores' = [stores EXCEPT ![p] = <<>>]
      BY <3>1
    <3> QED
      BY <1>1, <3>1, <3>2 DEF DequeInv, TypeOK
  <2> QED
    BY <2>2, <2>3, <2>4 DEF StealCas, Settle, Return, Goto
<1>3. /\ BufferInv' /\ IndexInv' /\ TaskInv'
      /\ Bot' = Bot /\ Elems' = Elems /\ SeenBot' = SeenBot
  BY <1>1, <1>2, Frame DEF DequeInv, TypeOK
<1>4. TypeOK'
  <2>1. 0 \in Index
    BY SizeFacts DEF Index
  <2> QED
    BY <1>2, <2>1 DEF DequeInv, TypeOK, Writes
<1>5. WorkerInv'
  <2>1. pc'[Owner] = pc[Owner] /\ t'[Owner] = t[Owner] /\ item'[Owner] = item[Owner]
    BY <1>1, <1>2 DEF DequeInv, TypeOK
  <2>2. ASSUME NEW q \in Workers, pc'[q] \in {"pop_cas", "steal_cas", "take"}  PROVE item'[q] \in Tasks
    <3>1. q # p
      BY <1>1, <1>2, <2>2 DEF DequeInv, TypeOK
    <3> QED
      BY <1>1, <1>2, <2>2, <3>1 DEF DequeInv, TypeOK, WorkerInv
  <2>3. ASSUME NEW q \in Thieves
        PROVE  /\ pc'[q] \in {"idle", "steal_bottom", "steal_read", "steal_cas", "take"}
               /\ pc'[q] \in {"steal_bottom", "steal_read", "steal_cas"} => t'[q] <= memory.top
               /\ pc'[q] \in {"steal_read", "steal_cas"} => t'[q] < SeenBot
               /\ pc'[q] = "steal_cas" /\ t'[q] = memory.top =>
                        item'[q] = memory.elements[Slot(t'[q])]
    <3>1. q \in Workers
      BY DEF Workers
    <3>2. CASE q = p
      BY <1>1, <1>2, <3>2 DEF DequeInv, TypeOK
    <3>3. CASE q # p
      BY <1>1, <1>2, <3>1, <3>3 DEF DequeInv, TypeOK, WorkerInv
    <3> QED
      BY <3>2, <3>3
  <2> QED
    BY <1>2, <1>3, <2>1, <2>2, <2>3 DEF DequeInv, WorkerInv, Slot
<1> QED
  BY <1>3, <1>4, <1>5 DEF DequeInv

\* Handing out a task that nobody has been handed.
LEMMA Handing ==
    ASSUME NoWrap, DequeInv, NEW x \in Left, Hand(x), UNCHANGED <<next, inlined>>
    PROVE  /\ Left' = Left \ {x} /\ handed' \in [Tasks -> 0 .. 2]
           /\ \A y \in Tasks : handed'[y] <= 1
           /\ \A y \in Tasks : y >= next => handed'[y] = 0
<1>1. x \in Tasks /\ x \in 1 .. next - 1 /\ handed[x] = 0
  BY ElementFacts DEF Left
<1>2. handed' = [handed EXCEPT ![x] = 1]
  BY <1>1 DEF Hand, Twice
<1>3. handed \in [Tasks -> 0 .. 2] /\ \A y \in Tasks : handed[y] <= 1
  BY DEF DequeInv, TypeOK, TaskInv
<1>4. \A y \in Tasks : handed'[y] = IF y = x THEN 1 ELSE handed[y]
  BY <1>2, <1>3
<1>5. Left' = Left \ {x}
  <2>1. Pushed' = Pushed /\ Pushed \subseteq Tasks
    BY SizeFacts DEF Pushed, Tasks, DequeInv, TypeOK
  <2>2. ASSUME NEW y \in Pushed  PROVE handed'[y] = 0 <=> (handed[y] = 0 /\ y # x)
    BY <1>1, <1>4, <2>1, <2>2
  <2> QED
    BY <2>1, <2>2 DEF Left
<1>6. ASSUME NEW y \in Tasks, y >= next  PROVE handed'[y] = 0
  <2>1. y # x
    BY <1>1, <1>6 DEF DequeInv, TypeOK
  <2> QED
    BY <1>4, <1>6, <2>1 DEF DequeInv, TaskInv
<1>7. handed' \in [Tasks -> 0 .. 2]
  BY <1>1, <1>2, <1>3
<1> QED
  BY <1>3, <1>4, <1>5, <1>6, <1>7

\* The winner of the race for top takes the oldest element.
LEMMA StealCasWinsKeeps ==
    ASSUME NoWrap, DequeInv, NEW p \in Thieves, StealCas(p), memory.top = t[p]
    PROVE  DequeInv'
<1> DEFINE top == memory.top
<1>1. p # Owner /\ p \in Workers /\ Owner \in Workers
  BY OwnerAssumption DEF Workers
<1>2. /\ top < SeenBot /\ top \in Live /\ top \in Nat /\ SeenBot \in Nat /\ LiveBot \in Nat
      /\ SeenBot <= LiveBot /\ LiveBot < Word /\ topBound <= top /\ Inc(top) = top + 1
      /\ LiveBot - top <= moduloSize
  <2>1. top < SeenBot
    BY DEF StealCas, DequeInv, WorkerInv
  <2>2. top + 1 \in 0 .. Word - 1
    BY <2>1, BottomFacts, SizeFacts
  <2> QED
    BY <2>1, <2>2, BottomFacts, SmallMod DEF Live, Inc
<1>3. item[p] = Elems[Slot(top)] /\ item[p] \in Left
  <2>1. item[p] = memory.elements[Slot(top)]
    BY DEF StealCas, DequeInv, WorkerInv
  <2> QED
    BY <1>2, <2>1, ElementFacts
<1>4. /\ pc[p] = "steal_cas" /\ pc' = [pc EXCEPT ![p] = "take"] /\ Hand(item[p])
      /\ memory' = [memory EXCEPT !.top = top + 1]
      /\ UNCHANGED <<stores, topBound, b, t, item, next, taken, inlined>>
  <2>1. View(p) = memory
    BY ViewFacts DEF DequeInv
  <2>2. CasWins(p)
    BY <2>1 DEF CasWins
  <2>3. memory' = [memory EXCEPT !.top = top + 1]
    BY <1>2, <2>2 DEF StealCas, Cas, NoWrap
  <2>4. UNCHANGED stores
    <3>1. stores[p] = <<>> /\ stores' = [stores EXCEPT ![p] = stores[p] \o <<>>]
      BY DEF StealCas, Cas, Store, Fenced, NoWrap
    <3>2. stores' = [stores EXCEPT ![p] = <<>>]
      BY <3>1
    <3> QED
      BY <1>1, <3>1, <3>2 DEF DequeInv, TypeOK
  <2> QED
    BY <2>2, <2>3, <2>4 DEF StealCas, Settle, Goto
<1>5. /\ memory'.top = top + 1 /\ memory'.bottom = memory.bottom
      /\ memory'.elements = memory.elements /\ pc'[Owner] = pc[Owner]
  BY <1>1, <1>4 DEF DequeInv, TypeOK
<1>6. Pending' = Pending /\ Bot' = Bot /\ Elems' = Elems
  BY <1>4, <1>5 DEF Pending, Bot, Elems, BotOf, ElemsOf, Slot
<1>7. SeenBot' = SeenBot /\ LiveBot' = LiveBot
  BY <1>5, <1>6 DEF SeenBot, LiveBot
<1>8. Live' = Live \ {top}
  <2>1. Live' = top + 1 .. LiveBot - 1
    BY <1>5, <1>7 DEF Live
  <2>2. \A x, y \in Nat : (x + 1) .. y - 1 = (x .. y - 1) \ {x}
    OBVIOUS
  <2> QED
    BY <1>2, <2>1, <2>2 DEF Live
<1>9. BufferInv'
  <2>1. PushWrites' = PushWrites
    BY <1>4, <1>6 DEF PushWrites, Element, Bottom, Slot
  <2>2. pc[Owner] \in {"idle", "take"} => Pending = <<>>
    <3> SUFFICES ASSUME pc[Owner] \in {"idle", "take"}, Pending # <<>>  PROVE FALSE
      OBVIOUS
    <3>1. Pending = <<Bottom(top)>>
      BY DEF DequeInv, BufferInv
    <3>2. SeenBot = top
      BY <3>1, Shapes DEF SeenBot, LiveBot, Bot
    <3> QED
      BY <1>2, <3>2
  <2> QED
    BY <1>4, <1>5, <1>6, <2>1, <2>2 DEF DequeInv, BufferInv, Element, Bottom, Slot
<1>10. IndexInv'
  <2>1. top + 1 \in Nat /\ top + 1 <= SeenBot /\ topBound <= top + 1
    BY <1>2, BottomFacts
  <2> QED
    BY <1>4, <1>5, <1>6, <1>7, <2>1 DEF DequeInv, IndexInv
<1>11. TaskInv'
  <2>1. /\ Left' = Left \ {item[p]} /\ \A y \in Tasks : handed'[y] <= 1
        /\ \A y \in Tasks : y >= next => handed'[y] = 0
    BY <1>3, <1>4, Handing
  <2>2. ASSUME NEW i \in Live'  PROVE Elems[Slot(i)] \in Left'
    <3>1. i \in Live /\ top < i
      BY <1>2, <1>8 DEF Live
    <3>2. Elems[Slot(top)] < Elems[Slot(i)] /\ Elems[Slot(i)] \in Left
      BY <1>2, <3>1 DEF DequeInv, TaskInv
    <3>3. Elems[Slot(i)] # Elems[Slot(top)]
      BY <1>3, <3>2, ElementFacts DEF Tasks
    <3> QED
      BY <1>3, <2>1, <3>2, <3>3
  <2>3. ASSUME NEW x \in Left'  PROVE \E i \in Live' : Elems[Slot(i)] = x
    <3>1. x \in Left /\ x # Elems[Slot(top)]
      BY <1>3, <2>1
    <3>2. PICK i \in Live : Elems[Slot(i)] = x
      BY <3>1 DEF DequeInv, TaskInv
    <3> QED
      BY <1>8, <3>1, <3>2
  <2>4. \A i, j \in Live' : i < j => Elems[Slot(i)] < Elems[Slot(j)]
    BY <1>8 DEF DequeInv, TaskInv
  <2>5. \A i \in 0 .. SeenBot - 1 : memory.elements[Slot(i)] \in Tasks
    BY DEF DequeInv, TaskInv
  <2>6. inlined \subseteq 1 .. next - 1
    BY DEF DequeInv, TaskInv
  <2> QED
    BY <1>4, <1>5, <1>6, <1>7, <2>1, <2>2, <2>3, <2>4, <2>5, <2>6 DEF TaskInv, Slot
<1>12. TypeOK'
  <2>1. memory' \in [top : Index, bottom : Index,
                     elements : [0 .. moduloSize -> Tasks \cup {Garbage}]]
    <3>1. PICK n : n = top + 1
      OBVIOUS
    <3>2. n \in Index
      BY <1>2, <3>1, SizeFacts DEF Index
    <3> QED
      BY <1>4, <3>1, <3>2 DEF DequeInv, TypeOK
  <2>2. handed' \in [Tasks -> 0 .. 2]
    BY <1>3, <1>4, Handing
  <2> QED
    BY <1>4, <2>1, <2>2 DEF DequeInv, TypeOK, Writes
<1>13. WorkerInv'
  <2>2. ASSUME NEW q \in Workers, pc'[q] \in {"pop_cas", "steal_cas", "take"}  PROVE item'[q] \in Tasks
    <3>1. CASE q = p
      BY <1>3, <1>4, <3>1, ElementFacts
    <3>2. CASE q # p
      BY <1>1, <1>4, <2>2, <3>2 DEF DequeInv, TypeOK, WorkerInv
    <3> QED
      BY <3>1, <3>2
  <2>3. ASSUME NEW q \in Thieves
        PROVE  /\ pc'[q] \in {"idle", "steal_bottom", "steal_read", "steal_cas", "take"}
               /\ pc'[q] \in {"steal_bottom", "steal_read", "steal_cas"} => t'[q] <= top + 1
               /\ pc'[q] \in {"steal_read", "steal_cas"} => t'[q] < SeenBot
               /\ pc'[q] # "steal_cas" \/ t'[q] # top + 1
    <3>1. q \in Workers
      BY DEF Workers
    <3>2. CASE q = p
      BY <1>1, <1>4, <3>2 DEF DequeInv, TypeOK
    <3>3. CASE q # p
      <4>1. pc'[q] = pc[q] /\ t'[q] = t[q] /\ t[q] \in Int
        BY <1>1, <1>4, <3>1, <3>3, SizeFacts DEF DequeInv, TypeOK, Index
      <4>2. /\ pc[q] \in {"idle", "steal_bottom", "steal_read", "steal_cas", "take"}
            /\ pc[q] \in {"steal_bottom", "steal_read", "steal_cas"} => t[q] <= top
            /\ pc[q] \in {"steal_read", "steal_cas"} => t[q] < SeenBot
        BY DEF DequeInv, WorkerInv
      <4> QED
        BY <1>2, <4>1, <4>2
    <3> QED
      BY <3>2, <3>3
  <2>4. pc'[Owner] = "pop_cas" => t'[Owner] = b' /\ topBound' = b' /\ item'[Owner] = Elems'[Slot(b')]
    BY <1>4, <1>5, <1>6 DEF DequeInv, WorkerInv
  <2>5. pc'[Owner] \in {"idle", "pushed", "pop", "pop_cas", "take"}
    BY <1>5 DEF DequeInv, WorkerInv
  <2> QED
    BY <1>5, <1>7, <2>2, <2>3, <2>4, <2>5 DEF WorkerInv, Slot
<1> QED
  BY <1>9, <1>10, <1>11, <1>12, <1>13 DEF DequeInv

LEMMA TakeKeeps ==
    ASSUME NoWrap, DequeInv, NEW p \in Workers, Take(p)
    PROVE  DequeInv'
<1>1. /\ pc[p] = "take" /\ pc' = [pc EXCEPT ![p] = "idle"] /\ t' = [t EXCEPT ![p] = 0]
      /\ item' = [item EXCEPT ![p] = NULL] /\ taken' = taken \cup {item[p]}
      /\ UNCHANGED <<memory, stores, topBound, b, next, inlined, handed>>
  BY DEF Take, Return, Goto, historyVars
<1>2. pc'[Owner] = pc[Owner] \/ (pc[Owner] = "take" /\ pc'[Owner] = "idle")
  BY <1>1 DEF DequeInv, TypeOK, Workers
<1>3. /\ BufferInv' /\ IndexInv' /\ TaskInv'
      /\ Bot' = Bot /\ Elems' = Elems /\ SeenBot' = SeenBot
  BY <1>1, <1>2, Frame
<1>4. item[p] \in Tasks
  BY <1>1 DEF DequeInv, WorkerInv
<1>5. TypeOK'
  <2>1. 0 \in Index
    BY SizeFacts DEF Index
  <2> QED
    BY <1>1, <1>4, <2>1 DEF DequeInv, TypeOK, Writes
<1>6. ASSUME NEW q \in Workers
      PROVE  \/ pc'[q] = "idle"
             \/ pc'[q] = pc[q] /\ t'[q] = t[q] /\ item'[q] = item[q]
  BY <1>1 DEF DequeInv, TypeOK
<1>7. WorkerInv'
  <2>1. Owner \in Workers /\ \A q \in Thieves : q \in Workers
    BY DEF Workers
  <2>2. /\ pc'[Owner] \in {"idle", "pushed", "pop", "pop_cas", "take"}
        /\ pc'[Owner] = "pop_cas" =>
                t'[Owner] = b /\ topBound = b /\ item'[Owner] = Elems[Slot(b)]
    BY <1>6, <2>1 DEF DequeInv, WorkerInv
  <2>3. \A q \in Workers : pc'[q] \in {"pop_cas", "steal_cas", "take"} => item'[q] \in Tasks
    BY <1>6 DEF DequeInv, WorkerInv
  <2>4. ASSUME NEW q \in Thieves
        PROVE  /\ pc'[q] \in {"idle", "steal_bottom", "steal_read", "steal_cas", "take"}
               /\ pc'[q] \in {"steal_bottom", "steal_read", "steal_cas"} => t'[q] <= memory.top
               /\ pc'[q] \in {"steal_read", "steal_cas"} => t'[q] < SeenBot
               /\ pc'[q] = "steal_cas" /\ t'[q] = memory.top =>
                        item'[q] = memory.elements[Slot(t'[q])]
    <3>1. CASE pc'[q] = "idle"
      BY <3>1
    <3>2. CASE pc'[q] = pc[q] /\ t'[q] = t[q] /\ item'[q] = item[q]
      BY <3>2 DEF DequeInv, WorkerInv
    <3> QED
      BY <1>6, <2>1, <3>1, <3>2
  <2> QED
    BY <1>1, <1>3, <2>2, <2>3, <2>4 DEF WorkerInv, Slot
<1> QED
  BY <1>3, <1>5, <1>7 DEF DequeInv
-----------------------------------------------------------------------------
(* The steps of the owner. *)

\* A step of the owner leaves what WorkerInv says of the thieves true when it
\* leaves top alone, hides no element from the thieves and does not overwrite
\* the one at top.
LEMMA ThievesKeep ==
    ASSUME NoWrap, DequeInv,
           pc' = [pc EXCEPT ![Owner] = pc'[Owner]], t' = [t EXCEPT ![Owner] = t'[Owner]],
           item' = [item EXCEPT ![Owner] = item'[Owner]], memory'.top = memory.top,
           SeenBot' \in Nat, SeenBot <= SeenBot' \/ memory.top < SeenBot',
           memory.top < SeenBot => memory'.elements[Slot(memory.top)] = memory.elements[Slot(memory.top)],
           pc'[Owner] \in {"idle", "pushed", "pop", "pop_cas", "take"},
           pc'[Owner] \in {"pop_cas", "take"} => item'[Owner] \in Tasks,
           pc'[Owner] = "pop_cas" =>
                t'[Owner] = b' /\ topBound' = b' /\ item'[Owner] = Elems'[Slot(b')]
    PROVE  WorkerInv'
<1>1. /\ Owner \in Workers /\ \A q \in Thieves : q \in Workers /\ q # Owner
      /\ \A q \in Workers : q = Owner \/ q \in Thieves
  BY OwnerAssumption DEF Workers
<1>2. ASSUME NEW q \in Thieves  PROVE pc'[q] = pc[q] /\ t'[q] = t[q] /\ item'[q] = item[q]
  BY <1>1 DEF DequeInv, TypeOK
<1>3. ASSUME NEW q \in Workers, pc'[q] \in {"pop_cas", "steal_cas", "take"}  PROVE item'[q] \in Tasks
  <2>1. CASE q = Owner
    BY <1>3, <2>1
  <2>2. CASE q \in Thieves
    BY <1>2, <1>3, <2>2 DEF DequeInv, WorkerInv
  <2> QED
    BY <1>1, <2>1, <2>2
<1>4. ASSUME NEW q \in Thieves
      PROVE  /\ pc'[q] \in {"idle", "steal_bottom", "steal_read", "steal_cas", "take"}
             /\ pc'[q] \in {"steal_bottom", "steal_read", "steal_cas"} => t'[q] <= memory.top
             /\ pc'[q] \in {"steal_read", "steal_cas"} => t'[q] < SeenBot'
             /\ pc'[q] = "steal_cas" /\ t'[q] = memory.top =>
                      item'[q] = memory'.elements[Slot(t'[q])]
  <2>1. /\ pc[q] \in {"idle", "steal_bottom", "steal_read", "steal_cas", "take"}
        /\ pc[q] \in {"steal_bottom", "steal_read", "steal_cas"} => t[q] <= memory.top
        /\ pc[q] \in {"steal_read", "steal_cas"} => t[q] < SeenBot
        /\ pc[q] = "steal_cas" /\ t[q] = memory.top => item[q] = memory.elements[Slot(t[q])]
    BY DEF DequeInv, WorkerInv
  <2>2. t[q] \in Int
    BY <1>1, SizeFacts DEF DequeInv, TypeOK, Index
  <2>3. PICK seen \in Nat : seen = SeenBot'
    OBVIOUS
  <2>4. pc[q] \in {"steal_read", "steal_cas"} => t[q] < seen
    BY <2>1, <2>2, <2>3, BottomFacts
  <2> QED
    BY <1>2, <2>1, <2>3, <2>4
<1> QED
  BY <1>3, <1>4 DEF WorkerInv, Slot

LEMMA PushAnnounceKeeps ==
    ASSUME NoWrap, DequeInv, PushAnnounce
    PROVE  DequeInv'
<1>1. /\ pc[Owner] = "pushed" /\ pc' = [pc EXCEPT ![Owner] = "idle"] /\ pc'[Owner] = "idle"
      /\ Pending = <<>>
      /\ UNCHANGED <<memory, stores, topBound, t, b, item, next, taken, inlined, handed>>
  BY DEF PushAnnounce, Goto, Fenced, historyVars, Pending, DequeInv, TypeOK, Workers
<1>2. /\ BufferInv' /\ IndexInv' /\ TaskInv' /\ SeenBot' = SeenBot
  BY <1>1, Frame
<1>3. TypeOK'
  BY <1>1 DEF DequeInv, TypeOK, Writes
<1>4. WorkerInv'
  <2>1. /\ pc' = [pc EXCEPT ![Owner] = pc'[Owner]] /\ t' = [t EXCEPT ![Owner] = t'[Owner]]
        /\ item' = [item EXCEPT ![Owner] = item'[Owner]]
    BY <1>1 DEF DequeInv, TypeOK
  <2>2. SeenBot' \in Nat /\ SeenBot <= SeenBot'
    BY <1>2, BottomFacts
  <2>3. memory'.top = memory.top /\ memory'.elements = memory.elements
    BY <1>1
  <2> QED
    BY <1>1, <2>1, <2>2, <2>3, ThievesKeep
<1> QED
  BY <1>2, <1>3, <1>4 DEF DequeInv

\* The write of bottom that makes the last push, or its undoing, visible.
LEMMA DrainLastKeeps ==
    ASSUME NoWrap, DequeInv, Drain(Owner), NEW x, Pending = <<Bottom(x)>>
    PROVE  DequeInv'
<1>1. Bot = x /\ Elems = memory.elements /\ x \in Index
  <2>1. Bot = x /\ Elems = memory.elements
    BY Shapes DEF Bot, Elems
  <2> QED
    BY <2>1, BottomFacts, SizeFacts DEF Index
<1>2. /\ memory' = [memory EXCEPT !.bottom = x] /\ stores' = [stores EXCEPT ![Owner] = Tail(@)]
      /\ UNCHANGED <<topBound, pc, t, b, item, next, taken, inlined, handed>>
  <2>1. Head(stores[Owner]) = Bottom(x)
    BY DEF Pending
  <2> QED
    BY <2>1 DEF Drain, historyVars, Apply, Bottom
<1>3. Owner \in Workers /\ \A q \in Thieves : q \in Workers /\ q # Owner
  BY OwnerAssumption DEF Workers
<1>4. Pending' = <<>> /\ \A q \in Thieves : stores'[q] = <<>>
  <2>1. Tail(Pending) = <<>>
    OBVIOUS
  <2>2. stores'[Owner] = Tail(Pending)
    BY <1>2, <1>3 DEF DequeInv, TypeOK, Pending
  <2>3. \A q \in Thieves : stores'[q] = stores[q]
    BY <1>2, <1>3 DEF DequeInv, TypeOK
  <2> QED
    BY <2>1, <2>2, <2>3 DEF Pending, DequeInv, BufferInv
<1>5. /\ memory'.top = memory.top /\ memory'.bottom = x /\ memory'.elements = memory.elements
  BY <1>2 DEF DequeInv, TypeOK
<1>6. Bot' = Bot /\ Elems' = Elems
  BY <1>1, <1>4, <1>5, Shapes DEF Bot, Elems
<1>7. LiveBot' = LiveBot /\ SeenBot' = LiveBot
  BY <1>2, <1>4, <1>6 DEF LiveBot, SeenBot
<1>8. Live' = Live /\ Left' = Left
  BY <1>2, <1>5, <1>7 DEF Live, Left, Pushed
<1>9. BufferInv'
  BY <1>1, <1>2, <1>4, <1>6 DEF DequeInv, BufferInv
<1>10. IndexInv'
  BY <1>1, <1>2, <1>5, <1>6, <1>7, BottomFacts DEF DequeInv, IndexInv
<1>11. TaskInv'
  <2>1. ASSUME NEW i \in 0 .. LiveBot - 1  PROVE memory.elements[Slot(i)] \in Tasks
    <3>1. CASE i < SeenBot
      <4>1. i \in 0 .. SeenBot - 1
        BY <3>1, BottomFacts
      <4> QED
        BY <4>1 DEF DequeInv, TaskInv
    <3>2. CASE i >= SeenBot
      <4>1. i \in Live
        BY <3>2, BottomFacts DEF Live
      <4> QED
        BY <1>1, <4>1, ElementFacts
    <3> QED
      BY <3>1, <3>2, BottomFacts
  <2> QED
    BY <1>2, <1>5, <1>6, <1>7, <1>8, <2>1 DEF DequeInv, TaskInv, Slot
<1>12. TypeOK'
  <2>1. memory' \in [top : Index, bottom : Index,
                     elements : [0 .. moduloSize -> Tasks \cup {Garbage}]]
    BY <1>1, <1>2 DEF DequeInv, TypeOK
  <2>2. stores' \in [Workers -> Seq(Writes)]
    <3>1. stores[Owner] # <<>> /\ stores[Owner] \in Seq(Writes)
      BY <1>3 DEF Drain, DequeInv, TypeOK
    <3>2. Tail(stores[Owner]) \in Seq(Writes)
      BY <3>1
    <3> QED
      BY <1>2, <3>2 DEF DequeInv, TypeOK
  <2> QED
    BY <1>2, <2>1, <2>2 DEF DequeInv, TypeOK, Writes
<1>13. WorkerInv'
  <2>1. /\ pc' = [pc EXCEPT ![Owner] = pc'[Owner]] /\ t' = [t EXCEPT ![Owner] = t'[Owner]]
        /\ item' = [item EXCEPT ![Owner] = item'[Owner]]
    BY <1>2 DEF DequeInv, TypeOK
  <2>2. SeenBot' \in Nat /\ SeenBot <= SeenBot'
    BY <1>7, BottomFacts
  <2>3. /\ pc'[Owner] \in {"idle", "pushed", "pop", "pop_cas", "take"}
        /\ pc'[Owner] \in {"pop_cas", "take"} => item'[Owner] \in Tasks
        /\ pc'[Owner] = "pop_cas" =>
                t'[Owner] = b' /\ topBound' = b' /\ item'[Owner] = Elems'[Slot(b')]
    BY <1>2, <1>3, <1>6 DEF DequeInv, WorkerInv
  <2> QED
    BY <1>5, <2>1, <2>2, <2>3, ThievesKeep
<1> QED
  BY <1>9, <1>10, <1>11, <1>12, <1>13 DEF DequeInv

\* The write of the new element: below the bottom that the others see.
LEMMA DrainElementKeeps ==
    ASSUME NoWrap, DequeInv, Drain(Owner), pc[Owner] = "pushed", Pending = PushWrites
    PROVE  DequeInv'
<1> DEFINE new == [memory.elements EXCEPT ![Slot(Bot - 1)] = next - 1]
<1>1. /\ Elems = new /\ SeenBot = Bot - 1 /\ LiveBot = Bot /\ next - 1 \in Tasks
      /\ memory.bottom = Bot - 1
  <2>1. Elems = new
    BY Shapes DEF Elems, PushWrites
  <2>2. Pending # <<>> /\ Len(Pending) = 2
    BY DEF PushWrites
  <2>3. SeenBot = Bot - 1 /\ LiveBot = Bot
    BY <2>2 DEF SeenBot, LiveBot
  <2>4. memory.bottom = Bot - 1
    <3>1. \A y : Len(<<Bottom(y)>>) = 1
      OBVIOUS
    <3>2. \A x, y, z : Len(<<x, y, z>>) = 3
      OBVIOUS
    <3> QED
      BY <2>2, <3>1, <3>2 DEF DequeInv, BufferInv
  <2> QED
    BY <2>1, <2>3, <2>4, BottomFacts, SizeFacts DEF Tasks
<1>2. /\ memory' = [memory EXCEPT !.elements = new] /\ stores' = [stores EXCEPT ![Owner] = Tail(@)]
      /\ UNCHANGED <<topBound, pc, t, b, item, next, taken, inlined, handed>>
  <2>1. Head(stores[Owner]) = Element(Bot - 1, next - 1)
    BY DEF Pending, PushWrites
  <2> QED
    BY <2>1 DEF Drain, historyVars, Apply, Element
<1>3. Owner \in Workers /\ \A q \in Thieves : q \in Workers /\ q # Owner
  BY OwnerAssumption DEF Workers
<1>4. Pending' = <<Bottom(Bot)>> /\ \A q \in Thieves : stores'[q] = <<>>
  <2>1. Tail(Pending) = <<Bottom(Bot)>>
    BY DEF PushWrites
  <2>2. stores'[Owner] = Tail(Pending)
    BY <1>2, <1>3 DEF DequeInv, TypeOK, Pending
  <2>3. \A q \in Thieves : stores'[q] = stores[q]
    BY <1>2, <1>3 DEF DequeInv, TypeOK
  <2> QED
    BY <2>1, <2>2, <2>3 DEF Pending, DequeInv, BufferInv
<1>5. /\ memory'.top = memory.top /\ memory'.bottom = memory.bottom /\ memory'.elements = new
  BY <1>2 DEF DequeInv, TypeOK
<1> HIDE DEF new
<1>6. Bot' = Bot /\ Elems' = new
  BY <1>4, <1>5, Shapes DEF Bot, Elems
<1>7. LiveBot' = LiveBot /\ SeenBot' = SeenBot
  BY <1>1, <1>2, <1>4, <1>6 DEF LiveBot, SeenBot
<1>8. Live' = Live /\ Left' = Left
  BY <1>2, <1>5, <1>7 DEF Live, Left, Pushed
<1>9. BufferInv'
  BY <1>1, <1>2, <1>4, <1>5, <1>6 DEF DequeInv, BufferInv, Bottom
<1>10. IndexInv'
  BY <1>2, <1>5, <1>6, <1>7 DEF DequeInv, IndexInv
<1>11. TaskInv'
  <2>1. ASSUME NEW i \in 0 .. SeenBot - 1  PROVE new[Slot(i)] \in Tasks
    <3>1. memory.elements[Slot(i)] \in Tasks
      BY DEF DequeInv, TaskInv
    <3> QED
      BY <1>1, <3>1, ElementFacts DEF new
  <2> QED
    BY <1>1, <1>2, <1>5, <1>6, <1>7, <1>8, <2>1 DEF DequeInv, TaskInv, Slot
<1>12. TypeOK'
  <2>1. memory' \in [top : Index, bottom : Index,
                     elements : [0 .. moduloSize -> Tasks \cup {Garbage}]]
    BY <1>1, <1>2, ElementFacts DEF DequeInv, TypeOK
  <2>2. stores' \in [Workers -> Seq(Writes)]
    <3>1. stores[Owner] # <<>> /\ stores[Owner] \in Seq(Writes)
      BY <1>3 DEF Drain, DequeInv, TypeOK
    <3>2. Tail(stores[Owner]) \in Seq(Writes)
      BY <3>1
    <3> QED
      BY <1>2, <3>2 DEF DequeInv, TypeOK
  <2> QED
    BY <1>2, <2>1, <2>2 DEF DequeInv, TypeOK, Writes
<1>13. WorkerInv'
  <2>1. /\ pc' = [pc EXCEPT ![Owner] = pc'[Owner]] /\ t' = [t EXCEPT ![Owner] = t'[Owner]]
        /\ item' = [item EXCEPT ![Owner] = item'[Owner]]
    BY <1>2 DEF DequeInv, TypeOK
  <2>2. SeenBot' \in Nat /\ SeenBot <= SeenBot'
    BY <1>7, BottomFacts
  <2>3. /\ pc'[Owner] \in {"idle", "pushed", "pop", "pop_cas", "take"}
        /\ pc'[Owner] \in {"pop_cas", "take"} => item'[Owner] \in Tasks
        /\ pc'[Owner] = "pop_cas" =>
                t'[Owner] = b' /\ topBound' = b' /\ item'[Owner] = Elems'[Slot(b')]
    BY <1>2, <1>3, <1>6 DEF DequeInv, WorkerInv
  <2>4. ASSUME memory.top < SeenBot
        PROVE  memory'.elements[Slot(memory.top)] = memory.elements[Slot(memory.top)]
    <3>1. Slot(memory.top) # Slot(Bot - 1)
      BY <1>1, <2>4, BottomFacts, SizeFacts, SlotsDiffer
    <3> QED
      BY <1>5, <3>1, ElementFacts, BottomFacts DEF new
  <2> QED
    BY <1>5, <2>1, <2>2, <2>3, <2>4, ThievesKeep
<1> QED
  BY <1>9, <1>10, <1>11, <1>12, <1>13 DEF DequeInv

\* The write of bottom that undid the last pop, before those of the next push.
LEMMA DrainFirstKeeps ==
    ASSUME NoWrap, DequeInv, Drain(Owner), pc[Owner] = "pushed", memory.bottom = Bot - 2,
           Pending = <<Bottom(Bot - 1), Element(Bot - 1, next - 1), Bottom(Bot)>>
    PROVE  DequeInv'
<1>1. /\ Elems = [memory.elements EXCEPT ![Slot(Bot - 1)] = next - 1]
      /\ SeenBot = Bot - 1 /\ LiveBot = Bot /\ Bot - 1 \in Index
  <2>1. Elems = [memory.elements EXCEPT ![Slot(Bot - 1)] = next - 1]
    BY Shapes DEF Elems
  <2>2. Pending # <<>>
    BY DEF Drain, Pending
  <2>3. SeenBot = Bot - 1 /\ LiveBot = Bot
    BY <2>2 DEF SeenBot, LiveBot
  <2> QED
    BY <2>1, <2>3, BottomFacts, SizeFacts DEF Index
<1>2. /\ memory' = [memory EXCEPT !.bottom = Bot - 1] /\ stores' = [stores EXCEPT ![Owner] = Tail(@)]
      /\ UNCHANGED <<topBound, pc, t, b, item, next, taken, inlined, handed>>
  <2>1. Head(stores[Owner]) = Bottom(Bot - 1)
    BY DEF Pending
  <2> QED
    BY <2>1 DEF Drain, historyVars, Apply, Bottom
<1>3. Owner \in Workers /\ \A q \in Thieves : q \in Workers /\ q # Owner
  BY OwnerAssumption DEF Workers
<1>4. Pending' = PushWrites /\ \A q \in Thieves : stores'[q] = <<>>
  <2>1. Tail(Pending) = PushWrites
    BY DEF PushWrites
  <2>2. stores'[Owner] = Tail(Pending)
    BY <1>2, <1>3 DEF DequeInv, TypeOK, Pending
  <2>3. \A q \in Thieves : stores'[q] = stores[q]
    BY <1>2, <1>3 DEF DequeInv, TypeOK
  <2> QED
    BY <2>1, <2>2, <2>3 DEF Pending, DequeInv, BufferInv
<1>5. /\ memory'.top = memory.top /\ memory'.bottom = Bot - 1
      /\ memory'.elements = memory.elements
  BY <1>2 DEF DequeInv, TypeOK
<1>6. Bot' = Bot /\ Elems' = Elems
  <2>1. PICK x, y, bot : bot = Bot /\ Pending' = <<Element(x, y), Bottom(bot)>>
    BY <1>4 DEF PushWrites
  <2>2. Bot' = bot /\ Elems' = [memory.elements EXCEPT ![Slot(bot - 1)] = next - 1]
    BY <1>2, <1>5, <2>1, Shapes DEF Bot, Elems
  <2> QED
    BY <1>1, <2>1, <2>2
<1>7. LiveBot' = LiveBot /\ SeenBot' = SeenBot
  <2>1. Pending' # <<>>
    BY <1>4 DEF PushWrites
  <2> QED
    BY <1>1, <1>2, <1>6, <2>1 DEF LiveBot, SeenBot
<1>8. Live' = Live /\ Left' = Left
  BY <1>2, <1>5, <1>7 DEF Live, Left, Pushed
<1>9. BufferInv'
  <2>1. PushWrites' = PushWrites
    BY <1>2, <1>6 DEF PushWrites, Element, Bottom, Slot
  <2> QED
    BY <1>2, <1>4, <1>5, <1>6, <2>1 DEF DequeInv, BufferInv
<1>10. IndexInv'
  <2>1. Bot - 1 \in Nat
    BY <1>1, SizeFacts DEF Index
  <2> QED
    BY <1>2, <1>5, <1>6, <1>7, <2>1 DEF DequeInv, IndexInv
<1>11. TaskInv'
  BY <1>2, <1>5, <1>6, <1>7, <1>8 DEF DequeInv, TaskInv, Slot
<1>12. TypeOK'
  <2>1. memory' \in [top : Index, bottom : Index,
                     elements : [0 .. moduloSize -> Tasks \cup {Garbage}]]
    <3>1. PICK n \in Index : n = Bot - 1
      BY <1>1
    <3> QED
      BY <1>2, <3>1 DEF DequeInv, TypeOK
  <2>2. stores' \in [Workers -> Seq(Writes)]
    <3>1. stores[Owner] # <<>> /\ stores[Owner] \in Seq(Writes)
      BY <1>3 DEF Drain, DequeInv, TypeOK
    <3>2. Tail(stores[Owner]) \in Seq(Writes)
      BY <3>1
    <3> QED
      BY <1>2, <3>2 DEF DequeInv, TypeOK
  <2> QED
    BY <1>2, <2>1, <2>2 DEF DequeInv, TypeOK, Writes
<1>13. WorkerInv'
  <2>1. /\ pc' = [pc EXCEPT ![Owner] = pc'[Owner]] /\ t' = [t EXCEPT ![Owner] = t'[Owner]]
        /\ item' = [item EXCEPT ![Owner] = item'[Owner]]
    BY <1>2 DEF DequeInv, TypeOK
  <2>2. SeenBot' \in Nat /\ SeenBot <= SeenBot'
    BY <1>7, BottomFacts
  <2>3. /\ pc'[Owner] \in {"idle", "pushed", "pop", "pop_cas", "take"}
        /\ pc'[Owner] \in {"pop_cas", "take"} => item'[Owner] \in Tasks
        /\ pc'[Owner] = "pop_cas" =>
                t'[Owner] = b' /\ topBound' = b' /\ item'[Owner] = Elems'[Slot(b')]
    BY <1>2, <1>3, <1>6 DEF DequeInv, WorkerInv
  <2> QED
    BY <1>5, <2>1, <2>2, <2>3, ThievesKeep
<1> QED
  BY <1>9, <1>10, <1>11, <1>12, <1>13 DEF DequeInv

LEMMA DrainKeeps ==
    ASSUME NoWrap, DequeInv, NEW p \in Workers, Drain(p)
    PROVE  DequeInv'
<1>1. p = Owner
  BY DEF Drain, Workers, DequeInv, BufferInv
<1>2. Pending # <<>>
  BY <1>1 DEF Drain, Pending
<1>3. \/ \E x : Pending = <<Bottom(x)>>
      \/ pc[Owner] = "pushed" /\ Pending = PushWrites
      \/ /\ pc[Owner] = "pushed" /\ memory.bottom = Bot - 2
         /\ Pending = <<Bottom(Bot - 1), Element(Bot - 1, next - 1), Bottom(Bot)>>
  BY <1>2 DEF DequeInv, BufferInv, WorkerInv
<1> QED
  BY <1>1, <1>3, DrainLastKeeps, DrainElementKeeps, DrainFirstKeeps

\* When the owner is idle all its elements are seen and the bound tells how
\* many there can be; no difference of the indices overflows.
LEMMA IdleFacts ==
    ASSUME NoWrap, DequeInv, pc[Owner] = "idle", next \in Tasks
    PROVE  /\ LiveBot = Bot /\ SeenBot = Bot
           /\ Inc(Bot) = Bot + 1 /\ Bot + 1 \in Index
           /\ SeemsFull <=> Bot - topBound >= moduloSize
           /\ IsFull <=> Bot - memory.top >= moduloSize
<1>1. LiveBot = Bot /\ SeenBot = Bot
  BY DEF LiveBot, SeenBot
<1>2. /\ Bot \in Nat /\ memory.top \in Nat /\ topBound \in Nat /\ topBound <= memory.top
      /\ memory.top <= Bot /\ Bot - topBound <= moduloSize /\ Bot + 1 <= next
      /\ next <= MaxTasks /\ MaxTasks < Word /\ next \in Nat
  BY <1>1, BottomFacts, SizeFacts DEF DequeInv, IndexInv, Tasks, NoWrap
<1>3. Bot + 1 \in 0 .. Word - 1
  BY <1>2, SizeFacts
<1>4. Inc(Bot) = Bot + 1
  BY <1>3, SmallMod DEF Inc
<1>5. View(Owner).bottom = Bot /\ View(Owner).top = memory.top
  BY ViewFacts DEF DequeInv
<1>6. ASSUME NEW x \in 0 .. moduloSize  PROVE x % Word = x /\ Signed(x) = x
  <2>1. x \in 0 .. Word - 1 /\ 2 * x < Word
    BY SizeFacts
  <2> QED
    BY <2>1, SmallMod DEF Signed
<1>7. Bot - topBound \in 0 .. moduloSize /\ Bot - memory.top \in 0 .. moduloSize
  BY <1>2, SizeFacts
<1> QED
  BY <1>1, <1>3, <1>4, <1>5, <1>6, <1>7 DEF SeemsFull, IsFull, Index

LEMMA PushFullKeeps ==
    ASSUME NoWrap, DequeInv, PushFull
    PROVE  DequeInv'
<1>1. /\ pc[Owner] = "idle" /\ next \in Tasks /\ topBound' = memory.top
      /\ inlined' = inlined \cup {next} /\ next' = next + 1
      /\ UNCHANGED <<memory, stores, pc, t, b, item, taken, handed>>
  BY ViewFacts DEF PushFull, DequeInv
<1>2. LiveBot = Bot /\ SeenBot = Bot
  BY <1>1, IdleFacts
<1>3. Pending = <<>> \/ (Pending = <<Bottom(memory.top)>> /\ memory.bottom = memory.top - 1)
  BY <1>1 DEF DequeInv, BufferInv
<1>4. Pending' = Pending
  BY <1>1 DEF Pending
<1>5. Bot' = Bot /\ Elems' = Elems
  <2>1. CASE Pending = <<>>
    <3>1. Bot = memory.bottom /\ Elems = memory.elements
      BY <2>1, Shapes DEF Bot, Elems
    <3>2. Bot' = memory.bottom /\ Elems' = memory.elements
      BY <1>1, <1>4, <2>1, Shapes DEF Bot, Elems
    <3> QED
      BY <3>1, <3>2
  <2>2. ASSUME NEW x, Pending = <<Bottom(x)>>  PROVE Bot' = Bot /\ Elems' = Elems
    <3>1. Bot = x /\ Elems = memory.elements
      BY <2>2, Shapes DEF Bot, Elems
    <3>2. Bot' = x /\ Elems' = memory.elements
      BY <1>1, <1>4, <2>2, Shapes DEF Bot, Elems
    <3> QED
      BY <3>1, <3>2
  <2> QED
    BY <1>3, <2>1, <2>2
<1>6. LiveBot' = LiveBot /\ SeenBot' = SeenBot
  BY <1>1, <1>2, <1>5 DEF LiveBot, SeenBot
<1>7. Left' = Left
  <2>1. next \in Nat \ {0}
    BY SizeFacts DEF DequeInv, TypeOK
  <2>2. Pushed' = Pushed
    <3>1. PICK n : n = next + 1
      OBVIOUS
    <3>2. Pushed' = (1 .. n - 1) \ (inlined \cup {next})
      BY <1>1, <3>1 DEF Pushed
    <3>3. 1 .. n - 1 = (1 .. next - 1) \cup {next} /\ next \notin 1 .. next - 1
      BY <2>1, <3>1
    <3> QED
      BY <3>2, <3>3 DEF Pushed
  <2> QED
    BY <1>1, <2>2 DEF Left
<1>8. Live' = Live
  BY <1>1, <1>6 DEF Live
<1>9. BufferInv'
  BY <1>1, <1>3, <1>4 DEF DequeInv, BufferInv, Bottom
<1>10. IndexInv'
  BY <1>1, <1>5, <1>6, BottomFacts DEF DequeInv, IndexInv
<1>11. TaskInv'
  <2>1. inlined' \subseteq 1 .. next' - 1
    <3>1. inlined \subseteq 1 .. next - 1 /\ next \in Nat \ {0}
      BY SizeFacts DEF DequeInv, TypeOK, TaskInv
    <3> QED
      BY <1>1, <3>1
  <2>2. \A x \in Tasks : x >= next' => handed'[x] = 0
    <3>1. \A x \in Tasks : x >= next + 1 => x >= next
      BY SizeFacts DEF Tasks, DequeInv, TypeOK
    <3> QED
      BY <1>1, <3>1 DEF DequeInv, TaskInv
  <2> QED
    BY <1>1, <1>5, <1>6, <1>7, <1>8, <2>1, <2>2 DEF DequeInv, TaskInv, Slot
<1>12. TypeOK'
  <2>1. next' \in 1 .. MaxTasks + 1
    BY <1>1, SizeFacts DEF Tasks
  <2> QED
    BY <1>1, <2>1 DEF DequeInv, TypeOK, Writes
<1>13. WorkerInv'
  <2>1. /\ pc' = [pc EXCEPT ![Owner] = pc'[Owner]] /\ t' = [t EXCEPT ![Owner] = t'[Owner]]
        /\ item' = [item EXCEPT ![Owner] = item'[Owner]]
    BY <1>1 DEF DequeInv, TypeOK
  <2>2. SeenBot' \in Nat /\ SeenBot <= SeenBot'
    BY <1>6, BottomFacts
  <2> QED
    BY <1>1, <2>1, <2>2, ThievesKeep
<1> QED
  BY <1>9, <1>10, <1>11, <1>12, <1>13 DEF DequeInv

LEMMA AfterOne ==
    ASSUME NEW x, NEW y, NEW z
    PROVE  <<x>> \o <<y, z>> = <<x, y, z>>
<1> DEFINE all == {x, y, z}
<1>1. <<x>> \in Seq(all) /\ <<y, z>> \in Seq(all) /\ <<x, y, z>> \in Seq(all)
  OBVIOUS
<1>2. Len(<<x>> \o <<y, z>>) = 3 /\ <<x>> \o <<y, z>> \in Seq(all)
  BY <1>1
<1>3. \A i \in 1 .. 3 : (<<x>> \o <<y, z>>)[i] = <<x, y, z>>[i]
  BY <1>1
<1> QED
  BY <1>1, <1>2, <1>3, SeqEqual

LEMMA PushKeeps ==
    ASSUME NoWrap, DequeInv, Push
    PROVE  DequeInv'
<1>1. PICK bot, n, up, m : bot = Bot /\ n = next /\ up = Bot + 1 /\ m = next + 1
  OBVIOUS
<1>2. /\ pc[Owner] = "idle" /\ n \in Tasks /\ next' = m
      /\ pc' = [pc EXCEPT ![Owner] = "pushed"]
      /\ stores' = [stores EXCEPT ![Owner] = @ \o <<Element(bot, n), Bottom(up)>>]
      /\ UNCHANGED <<memory, t, b, item, taken, inlined, handed>>
  <2>1. View(Owner).bottom = bot
    BY <1>1, ViewFacts DEF DequeInv
  <2>2. Inc(bot) = up
    BY <1>1, IdleFacts DEF Push
  <2> QED
    BY <1>1, <2>1, <2>2 DEF Push, Store, Goto, historyVars
<1>3. /\ LiveBot = bot /\ SeenBot = bot /\ bot \in Nat /\ up \in Index /\ up = bot + 1 /\ up <= n
      /\ memory.top \in Nat /\ memory.top <= bot /\ bot - memory.top < Size
      /\ n \in Nat /\ n <= MaxTasks /\ m = n + 1 /\ m - 1 = n /\ up - 1 = bot /\ up - 2 = bot - 1
  <2>1. LiveBot = Bot /\ SeenBot = Bot /\ Bot + 1 \in Index
    BY <1>1, <1>2, IdleFacts
  <2> QED
    BY <1>1, <1>2, <2>1, BottomFacts, SizeFacts DEF Tasks
<1>4. /\ topBound' \in Nat /\ topBound' <= memory.top /\ up - topBound' <= moduloSize
      /\ topBound' \in Index
  <2>1. CASE SeemsFull
    <3>1. topBound' = memory.top
      BY <2>1, ViewFacts DEF Push, DequeInv
    <3>2. ~IsFull
      BY <2>1 DEF Push
    <3>3. ~(bot - memory.top >= moduloSize)
      BY <1>1, <1>2, <3>2, IdleFacts
    <3> QED
      BY <1>3, <3>1, <3>3, SizeFacts DEF DequeInv, TypeOK, Index
  <2>2. CASE ~SeemsFull
    <3>1. topBound' = topBound
      BY <2>2 DEF Push
    <3>2. ~(bot - topBound >= moduloSize)
      BY <1>1, <1>2, <2>2, IdleFacts
    <3> QED
      BY <1>3, <3>1, <3>2, SizeFacts, BottomFacts DEF DequeInv, TypeOK
  <2> QED
    BY <2>1, <2>2
<1>5. Owner \in Workers /\ \A q \in Thieves : q \in Workers /\ q # Owner
  BY OwnerAssumption DEF Workers
<1>6. /\ \/ /\ Pending = <<>> /\ memory.bottom = bot
            /\ Pending' = <<Element(bot, n), Bottom(up)>>
         \/ /\ memory.bottom = bot - 1
            /\ Pending' = <<Bottom(bot), Element(bot, n), Bottom(up)>>
      /\ Elems = memory.elements
  <2>1. Pending' = Pending \o <<Element(bot, n), Bottom(up)>>
    BY <1>2, <1>5 DEF Pending, DequeInv, TypeOK
  <2>2. CASE Pending = <<>>
    <3>1. Bot = memory.bottom /\ Elems = memory.elements
      BY <2>2, Shapes DEF Bot, Elems
    <3>2. <<>> \o <<Element(bot, n), Bottom(up)>> = <<Element(bot, n), Bottom(up)>>
      OBVIOUS
    <3> QED
      BY <1>1, <2>1, <2>2, <3>1, <3>2
  <2>3. CASE Pending = <<Bottom(memory.top)>> /\ memory.bottom = memory.top - 1
    <3>1. Bot = memory.top /\ Elems = memory.elements
      BY <2>3, Shapes DEF Bot, Elems
    <3>2. \A x, y, z : <<x>> \o <<y, z>> = <<x, y, z>>
      BY AfterOne
    <3>3. Pending' = <<Bottom(bot)>> \o <<Element(bot, n), Bottom(up)>>
      BY <1>1, <2>1, <2>3, <3>1
    <3>4. Pending' = <<Bottom(bot), Element(bot, n), Bottom(up)>>
      BY <3>2, <3>3
    <3> QED
      BY <1>1, <2>3, <3>1, <3>4
  <2> QED
    BY <1>2, <2>2, <2>3 DEF DequeInv, BufferInv
<1> DEFINE new == [memory.elements EXCEPT ![Slot(bot)] = n]
<1>7. Bot' = up /\ Elems' = new
  <2>1. next' - 1 = n /\ up - 1 = bot
    BY <1>2, <1>3
  <2>2. CASE Pending' = <<Element(bot, n), Bottom(up)>>
    BY <1>2, <2>1, <2>2, Shapes DEF Bot, Elems
  <2>3. CASE Pending' = <<Bottom(bot), Element(bot, n), Bottom(up)>>
    <3>1. PICK x, y, z : x = bot /\ y = n /\ z = up /\ Pending' = <<Bottom(x), Element(x, y), Bottom(z)>>
      BY <2>3
    <3>2. Bot' = z /\ Elems' = [memory'.elements EXCEPT ![Slot(z - 1)] = next' - 1]
      BY <3>1, Shapes DEF Bot, Elems
    <3> QED
      BY <1>2, <2>1, <3>1, <3>2
  <2> QED
    BY <1>6, <2>2, <2>3
<1> HIDE DEF new
<1>8. pc'[Owner] = "pushed" /\ \A q \in Thieves : stores'[q] = <<>>
  BY <1>2, <1>5 DEF DequeInv, TypeOK, BufferInv
<1>9. LiveBot' = up /\ SeenBot' = bot
  <2>1. Pending' # <<>>
    <3>1. \A x, y, z : <<x, y>> # <<>> /\ <<x, y, z>> # <<>>
      OBVIOUS
    <3> QED
      BY <1>6, <3>1
  <2> QED
    BY <1>3, <1>7, <1>8, <2>1 DEF LiveBot, SeenBot
<1>10. Live' = Live \cup {bot}
  <2>1. PICK top \in Nat : top = memory.top
    BY <1>3
  <2>2. Live' = top .. (up) - 1
    BY <1>2, <1>9, <2>1 DEF Live
  <2>3. Live = top .. bot - 1
    BY <1>3, <2>1 DEF Live
  <2>4. top .. (up) - 1 = (top .. bot - 1) \cup {bot}
    BY <1>3, <2>1
  <2> QED
    BY <2>2, <2>3, <2>4
<1>11. Left' = Left \cup {n}
  <2>1. Pushed' = Pushed \cup {n}
    <3>1. n \notin inlined
      BY <1>1, <1>3 DEF DequeInv, TaskInv
    <3>2. Pushed' = (1 .. m - 1) \ inlined
      BY <1>2 DEF Pushed
    <3>3. 1 .. m - 1 = (1 .. n - 1) \cup {n}
      BY <1>2, <1>3 DEF Tasks
    <3> QED
      BY <1>1, <3>1, <3>2, <3>3 DEF Pushed
  <2>2. handed[n] = 0
    BY <1>1, <1>2, <1>3 DEF DequeInv, TaskInv
  <2> QED
    BY <1>2, <2>1, <2>2 DEF Left
<1>12. ASSUME NEW i \in Live
       PROVE  new[Slot(i)] = Elems[Slot(i)] /\ new[Slot(i)] \in Left /\ new[Slot(i)] < n
                /\ new[Slot(i)] \in Nat
  <2>1. i \in Nat /\ i < bot /\ bot - i < Size
    BY <1>3, SizeFacts DEF Live
  <2>2. Slot(i) # Slot(bot)
    BY <1>3, <2>1, SlotsDiffer
  <2>3. new[Slot(i)] = Elems[Slot(i)]
    BY <1>6, <2>1, <2>2, ElementFacts DEF new
  <2>4. Elems[Slot(i)] \in Left /\ Elems[Slot(i)] \in 1 .. n - 1
    BY <1>1, ElementFacts
  <2> QED
    BY <1>3, <2>3, <2>4
<1>13. new[Slot(bot)] = n
  BY <1>3, ElementFacts DEF new
<1>14. BufferInv'
  <2>1. PushWrites' = <<Element(bot, n), Bottom(up)>>
    <3>1. next' - 1 = n /\ up - 1 = bot
      BY <1>2, <1>3
    <3> QED
      BY <1>7, <3>1 DEF PushWrites, Element, Bottom, Slot
  <2>2. up - 1 = bot /\ up - 2 = bot - 1
    BY <1>3
  <2>3. CASE Pending' = <<Element(bot, n), Bottom(up)>> /\ memory.bottom = bot
    BY <1>2, <1>7, <1>8, <2>1, <2>2, <2>3 DEF BufferInv
  <2>4. CASE Pending' = <<Bottom(bot), Element(bot, n), Bottom(up)>> /\ memory.bottom = bot - 1
    <3>1. next' - 1 = n
      BY <1>2, <1>3
    <3>2. /\ Pending' = <<Bottom(Bot' - 1), Element(Bot' - 1, next' - 1), Bottom(Bot')>>
          /\ memory'.bottom = Bot' - 2
      BY <1>2, <1>7, <2>2, <2>4, <3>1
    <3> QED
      BY <1>8, <3>2 DEF BufferInv, Element, Bottom, Slot
  <2> QED
    BY <1>6, <2>3, <2>4
<1>15. IndexInv'
  <2>1. up \in Nat /\ up <= m - 1
    BY <1>3
  <2> QED
    BY <1>2, <1>3, <1>4, <1>7, <1>9, <2>1 DEF DequeInv, IndexInv
<1>16. TaskInv'
  <2>1. \A i \in Live' : new[Slot(i)] \in Left'
    BY <1>10, <1>11, <1>12, <1>13
  <2>2. ASSUME NEW x \in Left'  PROVE \E i \in Live' : new[Slot(i)] = x
    <3>1. CASE x = n
      BY <1>10, <1>13, <3>1
    <3>2. CASE x \in Left
      <4>1. PICK i \in Live : Elems[Slot(i)] = x
        BY <3>2 DEF DequeInv, TaskInv
      <4> QED
        BY <1>10, <1>12, <4>1
    <3> QED
      BY <1>11, <3>1, <3>2
  <2>3. ASSUME NEW i \in Live', NEW j \in Live', i < j  PROVE new[Slot(i)] < new[Slot(j)]
    <3>1. \A k \in Live : k < bot /\ k \in Nat
      BY <1>3 DEF Live
    <3>2. i \in Live
      BY <1>3, <1>10, <2>3, <3>1
    <3>3. CASE j = bot
      BY <1>12, <1>13, <3>2, <3>3
    <3>4. CASE j \in Live
      BY <1>12, <2>3, <3>2, <3>4 DEF DequeInv, TaskInv
    <3> QED
      BY <1>10, <3>3, <3>4
  <2>4. \A i \in 0 .. bot - 1 : memory.elements[Slot(i)] \in Tasks
    BY <1>3 DEF DequeInv, TaskInv
  <2>5. inlined \subseteq 1 .. n
    BY <1>1, <1>3 DEF DequeInv, TaskInv
  <2>6. \A x \in Tasks : x >= m => handed[x] = 0
    <3>1. \A x \in Tasks : x >= m => x >= n
      BY <1>3 DEF Tasks
    <3> QED
      BY <1>1, <3>1 DEF DequeInv, TaskInv
  <2>7. \A x \in Tasks : handed[x] <= 1
    BY DEF DequeInv, TaskInv
  <2>8. next' - 1 = n
    BY <1>2, <1>3
  <2> QED
    BY <1>2, <1>7, <1>9, <2>1, <2>2, <2>3, <2>4, <2>5, <2>6, <2>7, <2>8 DEF TaskInv, Slot
<1>17. TypeOK'
  <2>1. stores' \in [Workers -> Seq(Writes)]
    <3>1. stores[Owner] \in Seq(Writes)
      BY <1>5 DEF DequeInv, TypeOK
    <3>2. Element(bot, n) \in Writes
      BY <1>2, <1>3, ElementFacts DEF Writes, Element
    <3>3. Bottom(up) \in Writes
      BY <1>3 DEF Writes, Bottom
    <3>4. stores[Owner] \o <<Element(bot, n), Bottom(up)>> \in Seq(Writes)
      BY <3>1, <3>2, <3>3
    <3> QED
      BY <1>2, <3>4 DEF DequeInv, TypeOK
  <2>2. m \in 1 .. MaxTasks + 1
    BY <1>3, SizeFacts
  <2> QED
    BY <1>2, <1>4, <2>1, <2>2 DEF DequeInv, TypeOK, Writes
<1>18. WorkerInv'
  <2>1. /\ pc' = [pc EXCEPT ![Owner] = pc'[Owner]] /\ t' = [t EXCEPT ![Owner] = t'[Owner]]
        /\ item' = [item EXCEPT ![Owner] = item'[Owner]]
    BY <1>2, <1>8 DEF DequeInv, TypeOK
  <2>2. SeenBot' \in Nat /\ SeenBot <= SeenBot'
    BY <1>3, <1>9
  <2>3. memory'.top = memory.top /\ memory'.elements = memory.elements
    BY <1>2
  <2> QED
    BY <1>8, <2>1, <2>2, <2>3, ThievesKeep
<1> QED
  BY <1>14, <1>15, <1>16, <1>17, <1>18 DEF DequeInv

\* The owner appends one write to none.
LEMMA FirstWrite ==
    ASSUME NoWrap, DequeInv, Pending = <<>>, NEW x \in Index, Store(Owner, <<Bottom(x)>>)
    PROVE  /\ Pending' = <<Bottom(x)>> /\ stores' \in [Workers -> Seq(Writes)]
           /\ \A q \in Thieves : stores'[q] = <<>>
<1>1. Owner \in Workers /\ \A q \in Thieves : q \in Workers /\ q # Owner
  BY OwnerAssumption DEF Workers
<1>2. stores[Owner] \o <<Bottom(x)>> = <<Bottom(x)>>
  <2>1. <<>> \o <<Bottom(x)>> = <<Bottom(x)>>
    OBVIOUS
  <2> QED
    BY <2>1 DEF Pending
<1>3. stores' = [stores EXCEPT ![Owner] = <<Bottom(x)>>]
  BY <1>2 DEF Store
<1>4. <<Bottom(x)>> \in Seq(Writes)
  BY DEF Writes, Bottom
<1> QED
  BY <1>1, <1>3, <1>4 DEF DequeInv, TypeOK, Pending, BufferInv

LEMMA PopKeeps ==
    ASSUME NoWrap, DequeInv, Pop
    PROVE  DequeInv'
<1>1. PICK bot, low : bot = Bot /\ low = bot - 1
  OBVIOUS
<1>2. /\ pc[Owner] = "idle" /\ bot > memory.top /\ bot \in Nat /\ low \in Index /\ bot = low + 1
      /\ LiveBot = bot /\ SeenBot = bot /\ low \in Nat /\ memory.top \in Nat
  <2>1. pc[Owner] = "idle" /\ ~(Bot - memory.top <= 0)
    BY ViewFacts DEF Pop, LooksEmpty, DequeInv
  <2>2. LiveBot = Bot /\ SeenBot = Bot
    BY <2>1 DEF LiveBot, SeenBot
  <2> QED
    BY <1>1, <2>1, <2>2, BottomFacts, SizeFacts DEF Index
<1>3. Pending = <<>> /\ memory.bottom = bot /\ Elems = memory.elements
  <2>1. CASE Pending = <<Bottom(memory.top)>>
    <3>1. Bot = memory.top /\ Elems = memory.elements
      BY <2>1, Shapes DEF Bot, Elems
    <3> QED
      BY <1>1, <1>2, <3>1
  <2>2. CASE Pending = <<>>
    BY <1>1, <2>2, Shapes DEF Bot, Elems
  <2> QED
    BY <1>2, <2>1, <2>2 DEF DequeInv, BufferInv
<1>4. /\ b' = low /\ pc' = [pc EXCEPT ![Owner] = "pop"] /\ Store(Owner, <<Bottom(low)>>)
      /\ UNCHANGED <<memory, topBound, t, item, next, taken, inlined, handed>>
  <2>1. View(Owner).bottom = bot
    BY <1>1, ViewFacts DEF DequeInv
  <2>2. low \in 0 .. Word - 1
    BY <1>2 DEF Index
  <2>3. Dec(bot) = low
    BY <1>1, <2>2, SmallMod DEF Dec
  <2> QED
    BY <2>1, <2>3 DEF Pop, Goto, historyVars
<1>5. /\ Pending' = <<Bottom(low)>> /\ stores' \in [Workers -> Seq(Writes)]
      /\ \A q \in Thieves : stores'[q] = <<>>
  BY <1>2, <1>3, <1>4, FirstWrite
<1>6. pc'[Owner] = "pop"
  BY <1>4 DEF DequeInv, TypeOK, Workers
<1>7. Bot' = low /\ Elems' = memory.elements
  <2>1. Bot' = low /\ Elems' = memory'.elements
    BY <1>5, Shapes DEF Bot, Elems
  <2> QED
    BY <1>4, <2>1
<1>8. LiveBot' = bot /\ SeenBot' = bot
  BY <1>2, <1>6, <1>7 DEF LiveBot, SeenBot
<1>9. Live' = Live /\ Left' = Left
  BY <1>2, <1>4, <1>8 DEF Live, Left, Pushed
<1>10. BufferInv'
  BY <1>2, <1>3, <1>4, <1>5, <1>6, <1>7 DEF BufferInv, Bottom
<1>11. IndexInv'
  BY <1>2, <1>4, <1>7, <1>8 DEF DequeInv, IndexInv
<1>12. TaskInv'
  BY <1>2, <1>3, <1>4, <1>7, <1>8, <1>9 DEF DequeInv, TaskInv, Slot
<1>13. TypeOK'
  BY <1>2, <1>4, <1>5 DEF DequeInv, TypeOK, Writes
<1>14. WorkerInv'
  <2>1. /\ pc' = [pc EXCEPT ![Owner] = pc'[Owner]] /\ t' = [t EXCEPT ![Owner] = t'[Owner]]
        /\ item' = [item EXCEPT ![Owner] = item'[Owner]]
    BY <1>4, <1>6 DEF DequeInv, TypeOK
  <2>2. SeenBot' \in Nat /\ SeenBot <= SeenBot'
    BY <1>2, <1>8
  <2>3. memory'.top = memory.top /\ memory'.elements = memory.elements
    BY <1>4
  <2> QED
    BY <1>6, <2>1, <2>2, <2>3, ThievesKeep
<1> QED
  BY <1>10, <1>11, <1>12, <1>13, <1>14 DEF DequeInv

\* After the fence: the owner's bottom and the real top.
LEMMA FencedFacts ==
    ASSUME NoWrap, DequeInv, pc[Owner] \in {"pop", "pop_cas"}, Pending = <<>>
    PROVE  /\ Bot = b /\ memory.bottom = b /\ Elems = memory.elements
           /\ LiveBot = b + 1 /\ SeenBot = b + 1 /\ b \in Nat /\ b + 1 \in Index /\ b \in Index
           /\ memory.top \in Nat /\ memory.top <= b + 1 /\ memory.top \in Index
           /\ View(Owner).top = memory.top /\ View(Owner).elements = memory.elements
<1>1. Bot = b
  BY DEF DequeInv, BufferInv
<1>2. Bot = memory.bottom /\ Elems = memory.elements
  BY Shapes DEF Bot, Elems
<1>3. LiveBot = b + 1 /\ SeenBot = b + 1
  BY <1>1 DEF LiveBot, SeenBot
<1>4. View(Owner).top = memory.top /\ View(Owner).elements = Elems
  BY ViewFacts DEF DequeInv
<1>5. b \in Nat /\ memory.top \in Nat /\ memory.top <= b + 1 /\ b + 1 < Word /\ Word \in Nat
  BY <1>1, <1>3, BottomFacts, SizeFacts
<1>6. b \in Index /\ b + 1 \in Index /\ memory.top \in Index
  BY <1>5 DEF Index
<1> QED
  BY <1>1, <1>2, <1>3, <1>4, <1>5, <1>6

\* The thieves have taken everything: bottom goes back to top.
LEMMA PopReadEmptyKeeps ==
    ASSUME NoWrap, DequeInv, PopRead, b - memory.top < 0
    PROVE  DequeInv'
<1>1. pc[Owner] = "pop" /\ Pending = <<>>
  BY DEF PopRead, PopReads, Fenced, NoWrap, Pending
<1>2. PICK top \in Index : top = memory.top /\ top \in Nat /\ top = b + 1 /\ b \in Nat
  <2>1. memory.top <= b + 1 /\ memory.top \in Nat /\ b \in Nat /\ memory.top \in Index
    BY <1>1, FencedFacts
  <2> QED
    BY <2>1
<1>3. /\ topBound' = top /\ Store(Owner, <<Bottom(top)>>) /\ pc' = [pc EXCEPT ![Owner] = "idle"]
      /\ t' = [t EXCEPT ![Owner] = 0] /\ item' = [item EXCEPT ![Owner] = NULL]
      /\ UNCHANGED <<memory, b, next, taken, inlined, handed>>
  <2>1. View(Owner).top = top
    BY <1>1, <1>2, FencedFacts
  <2>2. b - top < 0 /\ ~(b - top >= 0)
    BY <1>2
  <2> QED
    BY <2>1, <2>2 DEF PopRead, PopReads, Return, Goto
<1>4. /\ memory.bottom = b /\ Elems = memory.elements /\ LiveBot = top /\ SeenBot = top
  BY <1>1, <1>2, FencedFacts
<1>5. /\ Pending' = <<Bottom(top)>> /\ stores' \in [Workers -> Seq(Writes)]
      /\ \A q \in Thieves : stores'[q] = <<>>
  BY <1>1, <1>2, <1>3, FirstWrite
<1>6. pc'[Owner] = "idle"
  BY <1>3 DEF DequeInv, TypeOK, Workers
<1>7. Bot' = top /\ Elems' = memory.elements
  <2>1. Bot' = top /\ Elems' = memory'.elements
    BY <1>5, Shapes DEF Bot, Elems
  <2> QED
    BY <1>3, <2>1
<1>8. LiveBot' = top /\ SeenBot' = top
  BY <1>6, <1>7 DEF LiveBot, SeenBot
<1>9. Live' = Live /\ Left' = Left
  BY <1>3, <1>4, <1>8 DEF Live, Left, Pushed
<1>10. BufferInv'
  <2>1. b = top - 1
    BY <1>2
  <2> QED
    BY <1>2, <1>3, <1>4, <1>5, <1>6, <1>7, <2>1 DEF BufferInv, Bottom
<1>11. IndexInv'
  <2>1. top <= next - 1
    BY <1>4, BottomFacts
  <2>2. LiveBot' - topBound' <= moduloSize /\ LiveBot' <= next' - 1
    BY <1>2, <1>3, <1>8, <2>1, SizeFacts
  <2>3. /\ topBound' \in Nat /\ memory'.top \in Nat /\ Bot' \in Nat /\ memory'.bottom \in Nat
        /\ topBound' <= memory'.top /\ memory'.top <= SeenBot'
    <3>1. memory'.top = top /\ memory'.bottom = b /\ topBound' = top
      BY <1>2, <1>3, <1>4
    <3>2. top <= top
      BY <1>2
    <3> QED
      BY <1>2, <1>7, <1>8, <3>1, <3>2
  <2> QED
    BY <2>2, <2>3 DEF IndexInv
<1>12. TaskInv'
  BY <1>3, <1>4, <1>7, <1>8, <1>9 DEF DequeInv, TaskInv, Slot
<1>13. TypeOK'
  <2>1. 0 \in Index
    BY SizeFacts DEF Index
  <2> QED
    BY <1>2, <1>3, <1>5, <2>1 DEF DequeInv, TypeOK, Writes
<1>14. WorkerInv'
  <2>1. /\ pc' = [pc EXCEPT ![Owner] = pc'[Owner]] /\ t' = [t EXCEPT ![Owner] = t'[Owner]]
        /\ item' = [item EXCEPT ![Owner] = item'[Owner]]
    BY <1>3, <1>6 DEF DequeInv, TypeOK, Workers
  <2>2. SeenBot' \in Nat /\ SeenBot <= SeenBot'
    BY <1>2, <1>4, <1>8
  <2>3. memory'.top = memory.top /\ memory'.elements = memory.elements
    BY <1>3
  <2> QED
    BY <1>6, <2>1, <2>2, <2>3, ThievesKeep
<1> QED
  BY <1>10, <1>11, <1>12, <1>13, <1>14 DEF DequeInv

\* More than one element is left: the last is the owner's, and no thief can
\* still win it, for it would have to pass the others first.
LEMMA PopReadTakesKeeps ==
    ASSUME NoWrap, DequeInv, PopRead, b - memory.top > 0
    PROVE  DequeInv'
<1>1. pc[Owner] = "pop" /\ Pending = <<>>
  BY DEF PopRead, PopReads, Fenced, NoWrap, Pending
<1>2. PICK top \in Index : top = memory.top /\ top \in Nat /\ top < b /\ b \in Nat
  BY <1>1, FencedFacts
<1>3. /\ memory.bottom = b /\ Elems = memory.elements /\ LiveBot = b + 1 /\ SeenBot = b + 1
      /\ Bot = b
  BY <1>1, FencedFacts
<1> DEFINE x == Elems[Slot(b)]
<1>4. b \in Live /\ x \in Left /\ x \in Tasks
  <2>1. b \in Live
    BY <1>2, <1>3 DEF Live
  <2> QED
    BY <2>1, ElementFacts
<1>5. /\ topBound' = top /\ pc' = [pc EXCEPT ![Owner] = "take"] /\ Hand(x)
      /\ t' = [t EXCEPT ![Owner] = top] /\ item' = [item EXCEPT ![Owner] = x]
      /\ UNCHANGED <<memory, stores, b, next, taken, inlined>>
  <2>1. View(Owner).top = top /\ View(Owner).elements[Slot(b)] = x
    BY <1>1, <1>2, <1>3, FencedFacts
  <2>2. b - top > 0 /\ b - top >= 0 /\ ~(b - top < 0)
    BY <1>2
  <2> QED
    BY <2>1, <2>2 DEF PopRead, PopReads, Goto
<1>6. pc'[Owner] = "take" /\ item'[Owner] = x
  BY <1>5 DEF DequeInv, TypeOK, Workers
<1> HIDE DEF x
<1>7. Pending' = <<>> /\ Bot' = b /\ Elems' = memory.elements
  <2>1. Pending' = <<>>
    BY <1>1, <1>5 DEF Pending
  <2>2. Bot' = memory'.bottom /\ Elems' = memory'.elements
    BY <2>1, Shapes DEF Bot, Elems
  <2> QED
    BY <1>3, <1>5, <2>1, <2>2
<1>8. LiveBot' = b /\ SeenBot' = b
  BY <1>6, <1>7 DEF LiveBot, SeenBot
<1>9. Live' = Live \ {b}
  <2>1. Live' = top .. b - 1 /\ Live = top .. b
    <3>1. b + 1 - 1 = b
      BY <1>2
    <3> QED
      BY <1>2, <1>3, <1>5, <1>8, <3>1 DEF Live
  <2> QED
    BY <1>2, <2>1
<1>10. /\ Left' = Left \ {x} /\ handed' \in [Tasks -> 0 .. 2]
       /\ \A y \in Tasks : handed'[y] <= 1
       /\ \A y \in Tasks : y >= next => handed'[y] = 0
  BY <1>4, <1>5, Handing
<1>11. BufferInv'
  BY <1>5, <1>6, <1>7 DEF DequeInv, BufferInv
<1>12. IndexInv'
  <2>1. b - top <= moduloSize /\ b <= next - 1
    BY <1>2, <1>3, SizeFacts, BottomFacts
  <2> QED
    BY <1>2, <1>3, <1>5, <1>7, <1>8, <2>1 DEF DequeInv, IndexInv
<1>13. TaskInv'
  <2>1. ASSUME NEW i \in Live'  PROVE Elems[Slot(i)] \in Left'
    <3>1. i \in Live /\ i < b
      BY <1>2, <1>3, <1>9 DEF Live
    <3>2. Elems[Slot(i)] < x /\ Elems[Slot(i)] \in Left
      BY <1>4, <3>1 DEF DequeInv, TaskInv, x
    <3>3. Elems[Slot(i)] # x
      BY <1>4, <3>2, ElementFacts DEF Tasks
    <3> QED
      BY <1>10, <3>2, <3>3
  <2>2. ASSUME NEW y \in Left'  PROVE \E i \in Live' : Elems[Slot(i)] = y
    <3>1. y \in Left /\ y # x
      BY <1>10
    <3>2. PICK i \in Live : Elems[Slot(i)] = y
      BY <3>1 DEF DequeInv, TaskInv
    <3> QED
      BY <1>9, <3>1, <3>2 DEF x
  <2>3. \A i, j \in Live' : i < j => Elems[Slot(i)] < Elems[Slot(j)]
    BY <1>9 DEF DequeInv, TaskInv
  <2>4. ASSUME NEW i \in 0 .. b - 1  PROVE memory.elements[Slot(i)] \in Tasks
    <3>1. i \in 0 .. SeenBot - 1
      BY <1>2, <1>3
    <3> QED
      BY <3>1 DEF DequeInv, TaskInv
  <2>5. inlined \subseteq 1 .. next - 1
    BY DEF DequeInv, TaskInv
  <2> QED
    BY <1>3, <1>5, <1>7, <1>8, <1>10, <2>1, <2>2, <2>3, <2>4, <2>5 DEF TaskInv, Slot
<1>14. TypeOK'
  BY <1>2, <1>4, <1>5, <1>10 DEF DequeInv, TypeOK, Writes
<1>15. WorkerInv'
  <2>1. /\ pc' = [pc EXCEPT ![Owner] = pc'[Owner]] /\ t' = [t EXCEPT ![Owner] = t'[Owner]]
        /\ item' = [item EXCEPT ![Owner] = item'[Owner]]
    BY <1>5, <1>6 DEF DequeInv, TypeOK, Workers
  <2>2. SeenBot' \in Nat /\ memory.top < SeenBot'
    BY <1>2, <1>8
  <2>3. memory'.top = memory.top /\ memory'.elements = memory.elements
    BY <1>5
  <2> QED
    BY <1>4, <1>6, <2>1, <2>2, <2>3, ThievesKeep
<1> QED
  BY <1>11, <1>12, <1>13, <1>14, <1>15 DEF DequeInv

\* One element is left: the owner must race for it.
LEMMA PopReadRacesKeeps ==
    ASSUME NoWrap, DequeInv, PopRead, b - memory.top = 0
    PROVE  DequeInv'
<1>1. pc[Owner] = "pop" /\ Pending = <<>>
  BY DEF PopRead, PopReads, Fenced, NoWrap, Pending
<1>2. /\ b = memory.top /\ b \in Nat /\ b \in Index /\ b + 1 \in Nat
  <2>1. b \in Nat /\ memory.top \in Nat /\ b \in Index
    BY <1>1, FencedFacts
  <2> QED
    BY <2>1
<1>3. /\ memory.bottom = b /\ Elems = memory.elements /\ LiveBot = b + 1 /\ SeenBot = b + 1
      /\ Bot = b
  BY <1>1, FencedFacts
<1> DEFINE x == Elems[Slot(b)]
<1>4. x \in Tasks
  <2>1. b \in Live
    BY <1>2, <1>3 DEF Live
  <2> QED
    BY <2>1, ElementFacts
<1>5. /\ topBound' = b /\ pc' = [pc EXCEPT ![Owner] = "pop_cas"]
      /\ t' = [t EXCEPT ![Owner] = b] /\ item' = [item EXCEPT ![Owner] = x]
      /\ UNCHANGED <<memory, stores, b, next, taken, inlined, handed>>
  <2>1. View(Owner).top = b /\ View(Owner).elements[Slot(b)] = x
    BY <1>1, <1>2, <1>3, FencedFacts
  <2>2. ~(b - b > 0) /\ b - b >= 0 /\ ~(b - b < 0)
    BY <1>2
  <2> QED
    BY <2>1, <2>2 DEF PopRead, PopReads, Goto
<1>6. pc'[Owner] = "pop_cas" /\ item'[Owner] = x /\ t'[Owner] = b
  BY <1>5 DEF DequeInv, TypeOK, Workers
<1> HIDE DEF x
<1>7. Pending' = <<>> /\ Bot' = b /\ Elems' = memory.elements
  <2>1. Pending' = <<>>
    BY <1>1, <1>5 DEF Pending
  <2>2. Bot' = memory'.bottom /\ Elems' = memory'.elements
    BY <2>1, Shapes DEF Bot, Elems
  <2> QED
    BY <1>3, <1>5, <2>1, <2>2
<1>8. LiveBot' = LiveBot /\ SeenBot' = SeenBot
  BY <1>3, <1>6, <1>7 DEF LiveBot, SeenBot
<1>9. Live' = Live /\ Left' = Left
  BY <1>5, <1>8 DEF Live, Left, Pushed
<1>10. BufferInv'
  BY <1>5, <1>6, <1>7 DEF DequeInv, BufferInv
<1>11. IndexInv'
  <2>1. b <= b /\ b + 1 - b <= moduloSize
    <3>1. LiveBot - memory.top <= moduloSize
      BY BottomFacts
    <3> QED
      BY <1>2, <1>3, <3>1
  <2>2. memory'.top = b /\ memory'.bottom = b /\ topBound' = b
    BY <1>2, <1>3, <1>5
  <2>3. LiveBot' - topBound' <= moduloSize /\ LiveBot' <= next' - 1
    BY <1>3, <1>5, <1>8, <2>1, BottomFacts
  <2>4. memory'.top <= SeenBot'
    BY <1>2, <1>3, <1>8, <2>2
  <2> QED
    BY <1>2, <1>7, <2>1, <2>2, <2>3, <2>4 DEF IndexInv
<1>12. TaskInv'
  BY <1>3, <1>5, <1>7, <1>8, <1>9 DEF DequeInv, TaskInv, Slot
<1>13. TypeOK'
  BY <1>2, <1>4, <1>5 DEF DequeInv, TypeOK, Writes
<1>14. WorkerInv'
  <2>1. /\ pc' = [pc EXCEPT ![Owner] = pc'[Owner]] /\ t' = [t EXCEPT ![Owner] = t'[Owner]]
        /\ item' = [item EXCEPT ![Owner] = item'[Owner]]
    BY <1>5, <1>6 DEF DequeInv, TypeOK, Workers
  <2>2. SeenBot' \in Nat /\ SeenBot <= SeenBot'
    BY <1>8, BottomFacts
  <2>3. memory'.top = memory.top /\ memory'.elements = memory.elements
    BY <1>5
  <2>4. t'[Owner] = b' /\ topBound' = b' /\ item'[Owner] = Elems'[Slot(b')]
    BY <1>3, <1>5, <1>6, <1>7 DEF x
  <2> QED
    BY <1>4, <1>6, <2>1, <2>2, <2>3, <2>4, ThievesKeep
<1> QED
  BY <1>10, <1>11, <1>12, <1>13, <1>14 DEF DequeInv

\* A thief was faster: nothing is left, bottom goes back to top.
LEMMA PopCasLosesKeeps ==
    ASSUME NoWrap, DequeInv, PopCas, memory.top # b
    PROVE  DequeInv'
<1>1. pc[Owner] = "pop_cas" /\ Pending = <<>> /\ t[Owner] = b /\ topBound = b
  BY DEF PopCas, Cas, Fenced, NoWrap, Pending, DequeInv, WorkerInv
<1>2. PICK top \in Index : top = memory.top /\ top \in Nat /\ top = b + 1 /\ b \in Nat
  <2>1. memory.top <= b + 1 /\ memory.top \in Nat /\ b \in Nat /\ memory.top \in Index
    BY <1>1, FencedFacts
  <2>2. b <= memory.top
    BY <1>1, BottomFacts
  <2> QED
    BY <2>1, <2>2
<1>3. /\ topBound' = top /\ Store(Owner, <<Bottom(top)>>) /\ pc' = [pc EXCEPT ![Owner] = "idle"]
      /\ t' = [t EXCEPT ![Owner] = 0] /\ item' = [item EXCEPT ![Owner] = NULL]
      /\ UNCHANGED <<memory, b, next, taken, inlined, handed>>
  <2>1. ~CasWins(Owner)
    BY <1>1, FencedFacts DEF CasWins
  <2>2. Inc(b) = top
    <3>1. top \in 0 .. Word - 1
      BY <1>2 DEF Index
    <3> QED
      BY <1>2, <3>1, SmallMod DEF Inc
  <2>3. UNCHANGED memory
    BY <2>1 DEF PopCas, Cas, NoWrap, DequeInv, TypeOK
  <2> QED
    BY <1>1, <2>1, <2>2, <2>3 DEF PopCas, Cas, NoWrap, Settle, Return, Goto
<1>4. /\ memory.bottom = b /\ Elems = memory.elements /\ LiveBot = top /\ SeenBot = top
  BY <1>1, <1>2, FencedFacts
<1>5. /\ Pending' = <<Bottom(top)>> /\ stores' \in [Workers -> Seq(Writes)]
      /\ \A q \in Thieves : stores'[q] = <<>>
  BY <1>1, <1>2, <1>3, FirstWrite
<1>6. pc'[Owner] = "idle"
  BY <1>3 DEF DequeInv, TypeOK, Workers
<1>7. Bot' = top /\ Elems' = memory.elements
  <2>1. Bot' = top /\ Elems' = memory'.elements
    BY <1>5, Shapes DEF Bot, Elems
  <2> QED
    BY <1>3, <2>1
<1>8. LiveBot' = top /\ SeenBot' = top
  BY <1>6, <1>7 DEF LiveBot, SeenBot
<1>9. Live' = Live /\ Left' = Left
  BY <1>3, <1>4, <1>8 DEF Live, Left, Pushed
<1>10. BufferInv'
  <2>1. b = top - 1
    BY <1>2
  <2> QED
    BY <1>2, <1>3, <1>4, <1>5, <1>6, <1>7, <2>1 DEF BufferInv, Bottom
<1>11. IndexInv'
  <2>1. top <= next - 1
    BY <1>4, BottomFacts
  <2>2. LiveBot' - topBound' <= moduloSize /\ LiveBot' <= next' - 1
    BY <1>2, <1>3, <1>8, <2>1, SizeFacts
  <2>3. /\ topBound' \in Nat /\ memory'.top \in Nat /\ Bot' \in Nat /\ memory'.bottom \in Nat
        /\ topBound' <= memory'.top /\ memory'.top <= SeenBot'
    <3>1. memory'.top = top /\ memory'.bottom = b /\ topBound' = top
      BY <1>2, <1>3, <1>4
    <3>2. top <= top
      BY <1>2
    <3> QED
      BY <1>2, <1>7, <1>8, <3>1, <3>2
  <2> QED
    BY <2>2, <2>3 DEF IndexInv
<1>12. TaskInv'
  BY <1>3, <1>4, <1>7, <1>8, <1>9 DEF DequeInv, TaskInv, Slot
<1>13. TypeOK'
  <2>1. 0 \in Index
    BY SizeFacts DEF Index
  <2> QED
    BY <1>2, <1>3, <1>5, <2>1 DEF DequeInv, TypeOK, Writes
<1>14. WorkerInv'
  <2>1. /\ pc' = [pc EXCEPT ![Owner] = pc'[Owner]] /\ t' = [t EXCEPT ![Owner] = t'[Owner]]
        /\ item' = [item EXCEPT ![Owner] = item'[Owner]]
    BY <1>3, <1>6 DEF DequeInv, TypeOK, Workers
  <2>2. SeenBot' \in Nat /\ SeenBot <= SeenBot'
    BY <1>2, <1>4, <1>8
  <2>3. memory'.top = memory.top /\ memory'.elements = memory.elements
    BY <1>3
  <2> QED
    BY <1>6, <2>1, <2>2, <2>3, ThievesKeep
<1> QED
  BY <1>10, <1>11, <1>12, <1>13, <1>14 DEF DequeInv

\* The owner has won the last element: nothing is left.
LEMMA PopCasWinsKeeps ==
    ASSUME NoWrap, DequeInv, PopCas, memory.top = b
    PROVE  DequeInv'
<1>1. pc[Owner] = "pop_cas" /\ Pending = <<>> /\ t[Owner] = b /\ topBound = b
  BY DEF PopCas, Cas, Fenced, NoWrap, Pending, DequeInv, WorkerInv
<1>2. PICK up \in Index : up = b + 1 /\ up \in Nat /\ b \in Nat /\ b = up - 1 /\ up - 1 # up
  <2>1. b + 1 \in Index /\ b \in Nat
    BY <1>1, FencedFacts
  <2> QED
    BY <2>1
<1>3. /\ memory.bottom = b /\ Elems = memory.elements /\ LiveBot = up /\ SeenBot = up
  BY <1>1, <1>2, FencedFacts
<1> DEFINE x == Elems[Slot(b)]
<1>4. item[Owner] = x /\ Live = {b} /\ Left = {x} /\ x \in Tasks
  <2>1. item[Owner] = x
    BY <1>1 DEF DequeInv, WorkerInv
  <2>2. Live = {b}
    <3>1. Live = b .. b
      BY <1>2, <1>3 DEF Live
    <3> QED
      BY <1>2, <3>1
  <2>3. Left = {x}
    BY <2>2 DEF DequeInv, TaskInv
  <2> QED
    BY <2>1, <2>2, <2>3, ElementFacts
<1>5. /\ topBound' = up /\ Store(Owner, <<Bottom(up)>>) /\ pc' = [pc EXCEPT ![Owner] = "take"]
      /\ Hand(x) /\ memory' = [memory EXCEPT !.top = up]
      /\ UNCHANGED <<t, item, b, next, taken, inlined>>
  <2>1. CasWins(Owner)
    BY <1>1, FencedFacts DEF CasWins
  <2>2. Inc(b) = up
    <3>1. up \in 0 .. Word - 1
      BY <1>2 DEF Index
    <3> QED
      BY <1>2, <3>1, SmallMod DEF Inc
  <2> QED
    BY <1>1, <1>4, <2>1, <2>2 DEF PopCas, Cas, NoWrap, Settle, Goto
<1>6. /\ memory'.top = up /\ memory'.bottom = b /\ memory'.elements = memory.elements
      /\ pc'[Owner] = "take"
  BY <1>3, <1>5 DEF DequeInv, TypeOK, Workers
<1> HIDE DEF x
<1>7. /\ Pending' = <<Bottom(up)>> /\ stores' \in [Workers -> Seq(Writes)]
      /\ \A q \in Thieves : stores'[q] = <<>>
  BY <1>1, <1>2, <1>5, FirstWrite
<1>8. Bot' = up /\ Elems' = memory.elements
  <2>1. Bot' = up /\ Elems' = memory'.elements
    BY <1>7, Shapes DEF Bot, Elems
  <2> QED
    BY <1>6, <2>1
<1>9. LiveBot' = up /\ SeenBot' = up
  BY <1>6, <1>8 DEF LiveBot, SeenBot
<1>10. Live' = {}
  <2>1. Live' = up .. up - 1
    BY <1>6, <1>9 DEF Live
  <2>2. \A i \in Nat : i .. i - 1 = {}
    OBVIOUS
  <2> QED
    BY <1>2, <2>1, <2>2
<1>11. /\ Left' = {} /\ handed' \in [Tasks -> 0 .. 2]
       /\ \A y \in Tasks : handed'[y] <= 1
       /\ \A y \in Tasks : y >= next => handed'[y] = 0
  <2>1. x \in Left
    BY <1>4
  <2> QED
    BY <1>4, <1>5, <2>1, Handing
<1>12. BufferInv'
  BY <1>2, <1>6, <1>7 DEF BufferInv, Bottom
<1>13. IndexInv'
  <2>1. up <= next - 1
    BY <1>3, BottomFacts
  <2>2. LiveBot' - topBound' <= moduloSize /\ LiveBot' <= next' - 1
    <3>1. up - up <= moduloSize
      BY <1>2, SizeFacts
    <3> QED
      BY <1>5, <1>9, <2>1, <3>1
  <2>3. /\ topBound' \in Nat /\ memory'.top \in Nat /\ Bot' \in Nat /\ memory'.bottom \in Nat
        /\ topBound' <= memory'.top /\ memory'.top <= SeenBot'
    <3>1. up <= up
      BY <1>2
    <3> QED
      BY <1>2, <1>5, <1>6, <1>8, <1>9, <3>1
  <2> QED
    BY <2>2, <2>3 DEF IndexInv
<1>14. TaskInv'
  <2>1. \A i \in 0 .. up - 1 : memory.elements[Slot(i)] \in Tasks
    BY <1>3 DEF DequeInv, TaskInv
  <2>2. inlined \subseteq 1 .. next - 1
    BY DEF DequeInv, TaskInv
  <2> QED
    BY <1>5, <1>6, <1>8, <1>9, <1>10, <1>11, <2>1, <2>2 DEF TaskInv, Slot
<1>15. TypeOK'
  <2>1. memory' \in [top : Index, bottom : Index,
                     elements : [0 .. moduloSize -> Tasks \cup {Garbage}]]
    BY <1>2, <1>5 DEF DequeInv, TypeOK
  <2> QED
    BY <1>2, <1>5, <1>7, <1>11, <2>1 DEF DequeInv, TypeOK, Writes
<1>16. WorkerInv'
  <2>1. ASSUME NEW q \in Thieves
        PROVE  /\ pc'[q] \in {"idle", "steal_bottom", "steal_read", "steal_cas", "take"}
               /\ pc'[q] \in {"steal_bottom", "steal_read", "steal_cas"} => t'[q] <= up
               /\ pc'[q] \in {"steal_read", "steal_cas"} => t'[q] < up
               /\ pc'[q] = "steal_cas" => t'[q] # up
               /\ pc'[q] = "take" => item'[q] \in Tasks
               /\ pc'[q] = "steal_cas" => item'[q] \in Tasks
    <3>1. q \in Workers /\ q # Owner
      BY OwnerAssumption DEF Workers
    <3>2. pc'[q] = pc[q] /\ t'[q] = t[q] /\ item'[q] = item[q] /\ t[q] \in Int
      BY <1>5, <3>1, SizeFacts DEF DequeInv, TypeOK, Index
    <3>3. /\ pc[q] \in {"idle", "steal_bottom", "steal_read", "steal_cas", "take"}
          /\ pc[q] \in {"steal_bottom", "steal_read", "steal_cas"} => t[q] <= b
          /\ pc[q] \in {"steal_read", "steal_cas"} => t[q] < up
          /\ pc[q] \in {"pop_cas", "steal_cas", "take"} => item[q] \in Tasks
      BY <1>3, <3>1 DEF DequeInv, WorkerInv
    <3> QED
      BY <1>2, <3>2, <3>3
  <2>2. \A q \in Workers : pc'[q] \in {"pop_cas", "steal_cas", "take"} => item'[q] \in Tasks
    <3>1. item'[Owner] \in Tasks
      BY <1>4, <1>5
    <3> QED
      BY <2>1, <3>1 DEF Workers
  <2> QED
    BY <1>6, <1>9, <2>1, <2>2 DEF WorkerInv
<1> QED
  BY <1>12, <1>13, <1>14, <1>15, <1>16 DEF DequeInv
-----------------------------------------------------------------------------
(* The theorems. *)

LEMMA InitHolds == NoWrap /\ Init => DequeInv
<1> SUFFICES ASSUME NoWrap, Init  PROVE DequeInv
  OBVIOUS
<1>1. Owner \in Workers /\ \A q \in Thieves : q \in Workers
  BY DEF Workers
<1>2. Pending = <<>> /\ pc[Owner] = "idle" /\ memory.top = 0 /\ memory.bottom = 0
  BY <1>1 DEF Init, Pending
<1>3. Bot = 0 /\ Elems = memory.elements
  BY <1>2, Shapes DEF Bot, Elems
<1>4. LiveBot = 0 /\ SeenBot = 0
  BY <1>2, <1>3 DEF LiveBot, SeenBot
<1>5. Live = {} /\ Left = {}
  BY <1>2, <1>4 DEF Live, Left, Pushed, Init
<1>6. TypeOK
  <2>1. 0 \in Index
    BY SizeFacts DEF Index
  <2>2. memory \in [top : Index, bottom : Index,
                    elements : [0 .. moduloSize -> Tasks \cup {Garbage}]]
    BY <2>1 DEF Init
  <2>3. stores \in [Workers -> Seq(Writes)]
    <3>1. <<>> \in Seq(Writes)
      OBVIOUS
    <3> QED
      BY <3>1 DEF Init
  <2>4. next \in 1 .. MaxTasks + 1
    BY SizeFacts DEF Init
  <2> QED
    BY <2>1, <2>2, <2>3, <2>4 DEF TypeOK, Init
<1>7. BufferInv
  BY <1>1, <1>2 DEF BufferInv, Init
<1>8. IndexInv
  BY <1>2, <1>3, <1>4, SizeFacts DEF IndexInv, Init
<1>9. TaskInv
  BY <1>4, <1>5 DEF TaskInv, Init
<1>10. WorkerInv
  BY <1>1, <1>2 DEF WorkerInv, Init
<1> QED
  BY <1>6, <1>7, <1>8, <1>9, <1>10 DEF DequeInv

LEMMA StepKeeps == NoWrap /\ DequeInv /\ [Next]_vars => DequeInv'
<1> SUFFICES ASSUME NoWrap, DequeInv, [Next]_vars  PROVE DequeInv'
  OBVIOUS
<1>1. CASE Push
  BY <1>1, PushKeeps
<1>2. CASE PushFull
  BY <1>2, PushFullKeeps
<1>3. CASE PushAnnounce
  BY <1>3, PushAnnounceKeeps
<1>4. CASE Pop
  BY <1>4, PopKeeps
<1>5. CASE PopRead
  <2>1. b \in Int /\ memory.top \in Int
    BY SizeFacts, BottomFacts DEF DequeInv, TypeOK, Index
  <2>2. b - memory.top < 0 \/ b - memory.top > 0 \/ b - memory.top = 0
    BY <2>1
  <2> QED
    BY <1>5, <2>2, PopReadEmptyKeeps, PopReadTakesKeeps, PopReadRacesKeeps
<1>6. CASE PopCas
  BY <1>6, PopCasLosesKeeps, PopCasWinsKeeps
<1>7. CASE \E p \in Workers : Take(p)
  BY <1>7, TakeKeeps
<1>8. CASE \E p \in Thieves : StealTop(p)
  BY <1>8, StealTopKeeps
<1>9. CASE \E p \in Thieves : StealBottom(p)
  BY <1>9, StealBottomKeeps
<1>10. CASE \E p \in Thieves : StealRead(p)
  BY <1>10, StealReadKeeps
<1>11. CASE \E p \in Thieves : StealCas(p)
  BY <1>11, StealCasLosesKeeps, StealCasWinsKeeps
<1>12. CASE \E p \in Workers : Drain(p)
  BY <1>12, DrainKeeps
<1>13. CASE UNCHANGED vars
  <2>1. UNCHANGED <<memory, stores, topBound, pc, t, b, item, next, taken, inlined, handed>>
    BY <1>13 DEF vars
  <2>2. /\ BufferInv' /\ IndexInv' /\ TaskInv' /\ Elems' = Elems /\ SeenBot' = SeenBot
    BY <2>1, Frame
  <2>3. TypeOK'
    BY <2>1 DEF DequeInv, TypeOK, Writes
  <2>4. WorkerInv'
    BY <2>1, <2>2 DEF DequeInv, WorkerInv, Slot
  <2> QED
    BY <2>2, <2>3, <2>4 DEF DequeInv
<1>14. Workers = {Owner} \cup Thieves
  BY DEF Workers
<1> QED
  BY <1>1, <1>2, <1>3, <1>4, <1>5, <1>6, <1>7, <1>8, <1>9, <1>10, <1>11, <1>12, <1>13, <1>14
     DEF Next, OwnerStep, ThiefStep

\* The deque keeps its inductive invariant: mir_dequeue.c with the locked cas
\* and the fence of mir_dequeue.h, for any thieves, any capacity and any number
\* of tasks that the indices can count.
THEOREM DequeInvariant == NoWrap => (Spec => []DequeInv)
<1> SUFFICES ASSUME NoWrap  PROVE Spec => []DequeInv
  OBVIOUS
<1>1. Init => DequeInv
  BY InitHolds
<1>2. DequeInv /\ [Next]_vars => DequeInv'
  BY StepKeeps
<1> QED
  BY <1>1, <1>2, PTL DEF Spec

\* Elements, indices and writes stay in their types; nobody is handed garbage:
\* a reader that wins has read a task (popWSDeque, stealWSDeque).
THEOREM DequeTypes == NoWrap => (Spec => []TypeOK)
<1> SUFFICES ASSUME NoWrap  PROVE Spec => []TypeOK
  OBVIOUS
<1>1. Spec => []DequeInv
  BY DequeInvariant
<1>2. DequeInv => TypeOK
  BY DEF DequeInv
<1> QED
  BY <1>1, <1>2, PTL

\* "One reader wins, the others return NULL" (stealWSDeque, popWSDeque): a task
\* pushed once is handed out at most once.
THEOREM OneWinner == NoWrap => (Spec => []OneReaderWins)
<1> SUFFICES ASSUME NoWrap  PROVE Spec => []OneReaderWins
  OBVIOUS
<1>1. Spec => []DequeInv
  BY DequeInvariant
<1>2. DequeInv => OneReaderWins
  BY DEF DequeInv, TaskInv, OneReaderWins
<1> QED
  BY <1>1, <1>2, PTL

\* Between two calls of the owner the elements from top to bottom are the tasks
\* that nobody has been handed, oldest first: pushWSDeque loses and overwrites
\* none, popWSDeque gives bottom back.
THEOREM NothingLost == NoWrap => (Spec => []HoldsTheRest)
<1> SUFFICES ASSUME NoWrap  PROVE Spec => []HoldsTheRest
  OBVIOUS
<1>1. Spec => []DequeInv
  BY DequeInvariant
<1>2. ASSUME DequeInv, OwnerQuiet
      PROVE  LET inside == {i \in Index : memory.top <= i /\ i < memory.bottom}
             IN  /\ Left = {memory.elements[Slot(i)] : i \in inside}
                 /\ \A i, j \in inside :
                        i < j => memory.elements[Slot(i)] < memory.elements[Slot(j)]
  <2> DEFINE inside == {i \in Index : memory.top <= i /\ i < memory.bottom}
  <2>1. Pending = <<>> /\ pc[Owner] = "idle"
    BY <1>2 DEF OwnerQuiet, Fenced, Pending
  <2>2. Bot = memory.bottom /\ Elems = memory.elements
    BY <2>1, Shapes DEF Bot, Elems
  <2>3. LiveBot = memory.bottom
    BY <2>1, <2>2 DEF LiveBot
  <2>4. /\ memory.bottom \in Nat /\ memory.top \in Nat /\ memory.bottom < Word /\ Word \in Nat
    BY <1>2, <2>3, BottomFacts, SizeFacts
  <2>5. inside = Live
    BY <2>3, <2>4 DEF Index, Live
  <2> HIDE DEF inside
  <2>6. Left = {memory.elements[Slot(i)] : i \in inside}
    BY <1>2, <2>2, <2>5 DEF DequeInv, TaskInv
  <2>7. \A i, j \in inside : i < j => memory.elements[Slot(i)] < memory.elements[Slot(j)]
    BY <1>2, <2>2, <2>5 DEF DequeInv, TaskInv
  <2> QED
    BY <2>6, <2>7 DEF inside
<1>3. DequeInv => HoldsTheRest
  BY <1>2 DEF HoldsTheRest
<1> QED
  BY <1>1, <1>3, PTL

\* A thief whose cas will succeed holds the task that is at top now: stealWSDeque
\* may read the element before it owns it.
THEOREM CurrentWinner == NoWrap => (Spec => []WinnerIsCurrent)
<1> SUFFICES ASSUME NoWrap  PROVE Spec => []WinnerIsCurrent
  OBVIOUS
<1>1. Spec => []DequeInv
  BY DequeInvariant
<1>2. ASSUME DequeInv, NEW p \in Thieves, pc[p] = "steal_cas", memory.top = t[p]
      PROVE  item[p] = memory.elements[Slot(t[p])] /\ item[p] \in Left
  <2>1. item[p] = memory.elements[Slot(t[p])] /\ memory.top < SeenBot
    BY <1>2 DEF DequeInv, WorkerInv
  <2>2. memory.top \in Live
    BY <1>2, <2>1, BottomFacts DEF Live
  <2> QED
    BY <1>2, <2>1, <2>2, ElementFacts
<1>3. DequeInv => WinnerIsCurrent
  BY <1>2 DEF WinnerIsCurrent
<1> QED
  BY <1>1, <1>3, PTL

\* The assertions of mir_dequeue.c hold: the owner's bound on top is below it
\* ("topBound consistent"), and bottom is not below top when a pop ends.
THEOREM DequeAsserts == NoWrap => (Spec => []AssertsHold)
<1> SUFFICES ASSUME NoWrap  PROVE Spec => []AssertsHold
  OBVIOUS
<1>1. Spec => []DequeInv
  BY DequeInvariant
<1>2. ASSUME DequeInv  PROVE AssertsHold
  <2>1. View(Owner).top = memory.top /\ View(Owner).bottom = Bot
    BY <1>2, ViewFacts DEF DequeInv
  <2>2. topBound <= memory.top
    BY <1>2 DEF DequeInv, IndexInv
  <2>3. ASSUME pc[Owner] \notin {"pop", "pop_cas"}  PROVE Bot >= memory.top
    <3>1. LiveBot = Bot
      BY <2>3 DEF LiveBot
    <3> QED
      BY <1>2, <3>1, BottomFacts
  <2> QED
    BY <2>1, <2>2, <2>3 DEF AssertsHold
<1> QED
  BY <1>1, <1>2, PTL
=============================================================================
