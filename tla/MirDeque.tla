------------------------------ MODULE MirDeque ------------------------------
(***************************************************************************)
(* The work-stealing deque of the policies ws-de and ws-de-node:           *)
(* mir_dequeue.c and mir_dequeue.h, with the calls of push_ws_de and       *)
(* pop_ws_de around it.  One worker owns the deque, pushes and pops at     *)
(* `bottom`; the others, the thieves, steal at `top`.                      *)
(*                                                                         *)
(* Memory is that of an x86 machine: every worker sees its own writes at   *)
(* once and the others see them later, in order.  mir_dequeue.h compiles   *)
(* cas and store_load_barrier in two ways.  With x86_64_HOST_ARCH they are *)
(* a locked instruction and a fence (HostArch = TRUE); without it and      *)
(* without WITHSMP, which is what the SConstruct builds, cas is a read     *)
(* followed by a write and the fence is empty (HostArch = FALSE).          *)
(***************************************************************************)
EXTENDS Integers, Sequences, FiniteSets, SequencesExt

CONSTANTS
    Owner,      \* the worker that owns the deque
    Thieves,    \* the workers that steal from it
    MaxTasks,   \* bound: tasks that the owner pushes
    Capacity,   \* runtime->sched_pol->queue_capacity
    Word,       \* values of an StgWord (2^32)
    HostArch,   \* is x86_64_HOST_ARCH defined?
    Garbage     \* what an element holds before it is written

Workers == {Owner} \cup Thieves
Tasks == 1 .. MaxTasks
NULL == 0

\* roundUp2: the next power of two above n.
RoundUp2(n) == CHOOSE s \in {2 ^ k : k \in 1 .. n} : n < s /\ s <= 2 * n
Size == RoundUp2(Capacity)
moduloSize == Size - 1

ASSUME OwnerAssumption == Owner \notin Thieves
ASSUME SizeAssumption == Size \in Nat \ {0}   \* the provers know nothing of 2 ^ k
ASSUME WordAssumption ==
    /\ Capacity \in Nat \ {0} /\ MaxTasks \in Nat \ {0}
    /\ Word \in Nat /\ Word % Size = 0 /\ Word >= 2 * Size
    /\ HostArch \in BOOLEAN

VARIABLES
    memory,     \* top, bottom and elements as memory holds them
    stores,     \* the writes of each worker that the others do not see yet
    topBound,   \* read and written by the owner only
    pc, t,      \* where each worker stands, and the top it has read
    b,          \* the bottom that the owner's pop has decremented to
    item,       \* removed, stolen: what it has in hand
    next,       \* the next task to push
    taken,      \* tasks whose `taken` flag is set
    inlined,    \* history: tasks that found the deque full
    handed      \* history: how often each task was handed out; 2 is "twice or more"

vars == <<memory, stores, topBound, pc, t, b, item, next, taken, inlined, handed>>
historyVars == <<inlined, handed>>

Index == 0 .. Word - 1
Slot(i) == i % Size                   \* i & moduloSize
Inc(i) == (i + 1) % Word
Dec(i) == (i - 1) % Word
Signed(i) == IF 2 * i < Word THEN i ELSE i - Word   \* (StgInt)

\* A write applied to a memory, and the memory as worker p sees it.
Apply(m, s) ==
    IF s.loc = "element" THEN [m EXCEPT !.elements[s.at] = s.val]
    ELSE IF s.loc = "top" THEN [m EXCEPT !.top = s.val]
    ELSE [m EXCEPT !.bottom = s.val]
View(p) == FoldLeft(Apply, memory, stores[p])
Top(n) == [loc |-> "top", at |-> 0, val |-> n]
Bottom(n) == [loc |-> "bottom", at |-> 0, val |-> n]
Element(i, x) == [loc |-> "element", at |-> Slot(i), val |-> x]

Store(p, writes) == stores' = [stores EXCEPT ![p] = @ \o writes]
Goto(p, label) == pc' = [pc EXCEPT ![p] = label]
\* The call of p is over and its locals with it.
Return(p) ==
    /\ Goto(p, "idle")
    /\ t' = [t EXCEPT ![p] = 0]
    /\ item' = [item EXCEPT ![p] = NULL]
Twice(n) == IF n < 2 THEN n + 1 ELSE 2
Hand(x) == handed' = IF x \in Tasks THEN [handed EXCEPT ![x] = Twice(@)] ELSE handed

\* dequeElements <= 0.  The indices are unsigned and narrower than a long.
LooksEmpty(m) == m.bottom - m.top <= 0

\* newWSDeque
Init ==
    /\ memory = [top |-> 0, bottom |-> 0, elements |-> [i \in 0 .. moduloSize |-> Garbage]]
    /\ stores = [p \in Workers |-> <<>>]
    /\ topBound = 0
    /\ pc = [p \in Workers |-> "idle"]
    /\ t = [p \in Workers |-> 0] /\ b = 0
    /\ item = [p \in Workers |-> NULL]
    /\ next = 1 /\ taken = {} /\ inlined = {}
    /\ handed = [x \in Tasks |-> 0]

\* The oldest write of p reaches memory.
Drain(p) ==
    /\ stores[p] # <<>>
    /\ memory' = Apply(memory, Head(stores[p]))
    /\ stores' = [stores EXCEPT ![p] = Tail(@)]
    /\ UNCHANGED <<topBound, pc, t, b, item, next, taken, historyVars>>

\* A locked instruction or a fence waits for the writes before it.
Fenced(p) == stores[p] = <<>>
-----------------------------------------------------------------------------
(* pushWSDeque, called by push_ws_de *)

\* The owner looks at the real top only when its bound says full.
SeemsFull == Signed((View(Owner).bottom - topBound) % Word) >= moduloSize
IsFull == (View(Owner).bottom - View(Owner).top) % Word >= moduloSize

\* Bug variant: the bound on top is not checked against the array.
PushUnbounded ==
    /\ pc[Owner] = "idle" /\ next \in Tasks
    /\ LET bot == View(Owner).bottom
       IN  Store(Owner, <<Element(bot, next), Bottom(Inc(bot))>>)
    /\ next' = next + 1
    /\ Goto(Owner, "pushed")
    /\ UNCHANGED <<memory, topBound, t, b, item, taken, historyVars>>

Push ==
    /\ pc[Owner] = "idle" /\ next \in Tasks
    /\ SeemsFull => ~IsFull
    /\ topBound' = IF SeemsFull THEN View(Owner).top ELSE topBound
    /\ LET bot == View(Owner).bottom
       IN  Store(Owner, <<Element(bot, next), Bottom(Inc(bot))>>)
    /\ next' = next + 1
    /\ Goto(Owner, "pushed")
    /\ UNCHANGED <<memory, t, b, item, taken, historyVars>>

\* The task is executed on the spot.
PushFull ==
    /\ pc[Owner] = "idle" /\ next \in Tasks
    /\ SeemsFull /\ IsFull
    /\ topBound' = View(Owner).top
    /\ inlined' = inlined \cup {next}
    /\ next' = next + 1
    /\ UNCHANGED <<memory, stores, pc, t, b, item, taken, handed>>

\* __sync_fetch_and_add(&g_num_tasks_waiting, 1) is a locked instruction.
PushAnnounce ==
    /\ pc[Owner] = "pushed" /\ Fenced(Owner)
    /\ Goto(Owner, "idle")
    /\ UNCHANGED <<memory, stores, topBound, t, b, item, next, taken, historyVars>>
-----------------------------------------------------------------------------
(* CASTOP *)

\* cas(&top, t[p], t[p] + 1) by p, which then keeps x and makes `writes`.
CasWins(p) == View(p).top = t[p]
Cas(p, writes) ==
    IF HostArch
    THEN /\ Fenced(p)
         /\ memory' = [memory EXCEPT !.top = IF CasWins(p) THEN Inc(t[p]) ELSE @]
         /\ Store(p, writes)
    ELSE /\ UNCHANGED memory
         /\ Store(p, IF CasWins(p) THEN <<Top(Inc(t[p]))>> \o writes ELSE writes)

\* What p has after the race: the element it read, or NULL.
Settle(p) ==
    IF CasWins(p)
    THEN Goto(p, "take") /\ Hand(item[p]) /\ UNCHANGED <<t, item>>
    ELSE Return(p) /\ UNCHANGED handed
-----------------------------------------------------------------------------
(* popWSDeque, called by pop_ws_de for the own deque *)

\* Bug variant: the owner pops without looking whether the deque is empty.
PopBlind ==
    /\ pc[Owner] = "idle"
    /\ LET bot == Dec(View(Owner).bottom)
       IN  /\ Store(Owner, <<Bottom(bot)>>)
           /\ b' = bot
    /\ Goto(Owner, "pop")
    /\ UNCHANGED <<memory, topBound, t, item, next, taken, historyVars>>

Pop ==
    /\ pc[Owner] = "idle" /\ ~LooksEmpty(View(Owner))
    /\ LET bot == Dec(View(Owner).bottom)
       IN  /\ Store(Owner, <<Bottom(bot)>>)
           /\ b' = bot
    /\ Goto(Owner, "pop")
    /\ UNCHANGED <<memory, topBound, t, item, next, taken, historyVars>>

\* The read of top after store_load_barrier, and what it decides.
PopReads(top) ==
    /\ pc[Owner] = "pop"
    /\ topBound' = top
    /\ LET size == b - top
           removed == View(Owner).elements[Slot(b)]
       IN  \/ /\ size < 0
              /\ Store(Owner, <<Bottom(top)>>)
              /\ Return(Owner)
              /\ UNCHANGED handed
           \/ /\ size >= 0
              /\ t' = [t EXCEPT ![Owner] = top]
              /\ item' = [item EXCEPT ![Owner] = removed]
              /\ IF size > 0 THEN Goto(Owner, "take") /\ Hand(removed)
                 ELSE Goto(Owner, "pop_cas") /\ UNCHANGED handed
              /\ UNCHANGED stores
    /\ UNCHANGED <<memory, b, next, taken, inlined>>

\* Bug variant: no barrier between the write of bottom and the read of top.
PopReadUnfenced == PopReads(View(Owner).top)

\* Bug variant: the cached bound stands in for top.
PopReadBound == (HostArch => Fenced(Owner)) /\ PopReads(topBound)

PopRead == (HostArch => Fenced(Owner)) /\ PopReads(View(Owner).top)

\* Bug variant: bottom stays decremented after the race for the last element.
PopCasKeepsBottom ==
    /\ pc[Owner] = "pop_cas"
    /\ Cas(Owner, <<>>)
    /\ topBound' = Inc(t[Owner])
    /\ Settle(Owner)
    /\ UNCHANGED <<b, next, taken, inlined>>

\* The last element: race for it with the thieves.
PopCas ==
    /\ pc[Owner] = "pop_cas"
    /\ Cas(Owner, <<Bottom(Inc(t[Owner]))>>)
    /\ topBound' = Inc(t[Owner])
    /\ Settle(Owner)
    /\ UNCHANGED <<b, next, taken, inlined>>
-----------------------------------------------------------------------------
(* stealWSDeque, called by pop_ws_de for the deque of another worker.  The   *)
(* look of pop_ws_de before it, and those of its loop between two attempts,  *)
(* change nothing and only decide whether there is an attempt.               *)

StealTop(p) ==
    /\ pc[p] = "idle"
    /\ ~LooksEmpty(View(p))
    /\ t' = [t EXCEPT ![p] = View(p).top]
    /\ Goto(p, "steal_bottom")
    /\ UNCHANGED <<memory, stores, topBound, b, item, next, taken, historyVars>>

StealBottom(p) ==
    /\ pc[p] = "steal_bottom"
    /\ IF View(p).bottom - t[p] <= 0 THEN Return(p)
       ELSE Goto(p, "steal_read") /\ UNCHANGED <<t, item>>
    /\ UNCHANGED <<memory, stores, topBound, b, next, taken, historyVars>>

StealRead(p) ==
    /\ pc[p] = "steal_read"
    /\ item' = [item EXCEPT ![p] = View(p).elements[Slot(t[p])]]
    /\ Goto(p, "steal_cas")
    /\ UNCHANGED <<memory, stores, topBound, t, b, next, taken, historyVars>>

StealCas(p) ==
    /\ pc[p] = "steal_cas"
    /\ Cas(p, <<>>)
    /\ Settle(p)
    /\ UNCHANGED <<topBound, b, next, taken, inlined>>

\* __sync_bool_compare_and_swap(&task->taken, 0, 1), a locked instruction: the
\* worker executes the task if it is the first to set the flag.
Take(p) ==
    /\ pc[p] = "take" /\ Fenced(p)
    /\ taken' = taken \cup {item[p]}
    /\ Return(p)
    /\ UNCHANGED <<memory, stores, topBound, b, next, historyVars>>
-----------------------------------------------------------------------------
OwnerStep == Push \/ PushFull \/ PushAnnounce \/ Pop \/ PopRead \/ PopCas \/ Take(Owner)
ThiefStep(p) == StealTop(p) \/ StealBottom(p) \/ StealRead(p) \/ StealCas(p) \/ Take(p)

Next ==
    \/ OwnerStep
    \/ \E p \in Thieves : ThiefStep(p)
    \/ \E p \in Workers : Drain(p)

\* The owner comes back for more work and writes reach memory.  Nothing is
\* assumed of the thieves.
Fairness == WF_vars(OwnerStep) /\ \A p \in Workers : WF_vars(Drain(p))

Spec == Init /\ [][Next]_vars
FairSpec == Spec /\ Fairness
-----------------------------------------------------------------------------
(* Properties *)

Writes == [loc : {"top", "bottom"}, at : {0}, val : Index]
            \cup [loc : {"element"}, at : 0 .. moduloSize, val : Tasks]

TypeOK ==
    /\ memory \in [top : Index, bottom : Index,
                   elements : [0 .. moduloSize -> Tasks \cup {Garbage}]]
    /\ stores \in [Workers -> Seq(Writes)]
    /\ topBound \in Index
    /\ pc \in [Workers -> {"idle", "pushed", "pop", "pop_cas", "steal_bottom",
                           "steal_read", "steal_cas", "take"}]
    /\ t \in [Workers -> Index] /\ b \in Index
    /\ item \in [Workers -> Tasks \cup {NULL}]   \* never Garbage
    /\ next \in 1 .. MaxTasks + 1
    /\ taken \subseteq Tasks /\ inlined \subseteq Tasks
    /\ handed \in [Tasks -> 0 .. 2]

Pushed == (1 .. next - 1) \ inlined
Left == {x \in Pushed : handed[x] = 0}
OwnerQuiet == pc[Owner] = "idle" /\ Fenced(Owner)

\* "One reader wins, the others return NULL": a task pushed once is handed out
\* at most once, by the owner's pop or by one steal.
OneReaderWins == \A x \in Tasks : handed[x] <= 1

\* No task is lost or duplicated in the array: between two calls of the owner,
\* whatever the thieves are doing, the elements from top to bottom are the
\* tasks that nobody has been handed, oldest first.
HoldsTheRest ==
    OwnerQuiet =>
        LET inside == {i \in Index : memory.top <= i /\ i < memory.bottom}
        IN  /\ Left = {memory.elements[Slot(i)] : i \in inside}
            /\ \A i, j \in inside :
                   i < j => memory.elements[Slot(i)] < memory.elements[Slot(j)]

\* A thief about to win the race for top holds the element that is there now:
\* it has not been overwritten, and the index has not come back, since it was
\* read.
WinnerIsCurrent ==
    \A p \in Thieves :
        (pc[p] = "steal_cas" /\ memory.top = t[p]) =>
            item[p] = memory.elements[Slot(t[p])] /\ item[p] \in Left

\* ASSERT_WSDEQUE_INVARIANTS, "topBound consistent", wherever the owner
\* evaluates it, and ASSERT(q->bottom >= q->top) at the end of a pop that
\* raced for the last element.
AssertsHold ==
    /\ topBound <= View(Owner).top
    /\ pc[Owner] \notin {"pop", "pop_cas"} => View(Owner).bottom >= View(Owner).top

\* Every task pushed is handed to a worker in the end, though the owner must
\* race for the last one and may lose to a thief that then stops.
EveryTaskHanded == \A x \in Tasks : x \in Pushed ~> handed[x] > 0
=============================================================================
