---------------------------- MODULE MirTaskQueue ----------------------------
(***************************************************************************)
(* The two-lock ring of mir_task_queue.c (and its twin mir_queue.c).       *)
(*                                                                         *)
(* Producers serialise on enq_lock and consumers on deq_lock, but the two  *)
(* sides only meet in the atomic counter `size`: the producer publishes a  *)
(* filled slot by incrementing it, the consumer frees a slot by            *)
(* decrementing it BEFORE it advances `out`.  Every statement that another *)
(* worker can observe is a step of its own.                                *)
(***************************************************************************)
EXTENDS Naturals, Sequences, FiniteSets

CONSTANTS
    Pushers,   \* the workers that push into this queue
    Poppers,   \* the workers that may pop from it
    Tasks,     \* task pointers
    Capacity,  \* slots of the ring
    NULL,      \* no task
    NoWorker   \* holder of a lock that nobody holds

Workers == Pushers \cup Poppers

ASSUME CapacityAssumption == Capacity \in Nat \ {0}
ASSUME NullAssumption == NULL \notin Tasks
ASSUME NoWorkerAssumption == NoWorker \notin Workers

VARIABLES
    buffer, size, in, out,   \* struct mir_task_queue_t
    enq_lock, deq_lock,      \* the worker inside each critical section
    pc,                      \* where each worker's call stands
    data,                    \* push's argument, pop's local `task`
    outside,                 \* the tasks that no call and no slot holds
    consumers                \* who may pop from this queue: see Init

ringVars == <<buffer, size, in, out>>
lockVars == <<enq_lock, deq_lock>>
vars == <<buffer, size, in, out, enq_lock, deq_lock, pc, data, outside,
          consumers>>

Slots == 0 .. Capacity - 1

PushPcs == {"push_lock", "push_check", "push_write", "push_advance",
            "push_count", "push_done", "push_full"}
PopPcs == {"pop_lock", "pop_check", "pop_read", "pop_count", "pop_advance",
           "pop_done", "pop_empty"}

\* Every worker of a policy pops from its queues; a private queue is popped
\* from by its owner alone.  Which of them this queue is never changes.
Init ==
    /\ consumers \in SUBSET Poppers \ {{}}
    /\ buffer = [s \in Slots |-> NULL]
    /\ size = 0 /\ in = 0 /\ out = 0
    /\ enq_lock = NoWorker /\ deq_lock = NoWorker
    /\ pc = [w \in Workers |-> "idle"]
    /\ data = [w \in Workers |-> NULL]
    /\ outside = Tasks

Goto(w, from, to) == pc[w] = from /\ pc' = [pc EXCEPT ![w] = to]

\* Bug variant: the index is brought back one slot too late.
WrapLate(i) == IF i > Capacity THEN i - Capacity ELSE i

\* in++ (out++) and the subtraction that brings it back into the ring.
Wrap(i) == IF i >= Capacity THEN i - Capacity ELSE i

\* Bug variant: one task too many is let in.
FULLOffByOne == size > Capacity

FULL == size = Capacity
EMPTY == size = 0
-----------------------------------------------------------------------------
(* mir_task_queue_push *)

\* A task is handed to the queue by the one worker that created it.
PushCall(w, t) ==
    /\ w \in Pushers /\ t \in outside
    /\ Goto(w, "idle", "push_lock")
    /\ data' = [data EXCEPT ![w] = t]
    /\ outside' = outside \ {t}
    /\ UNCHANGED <<consumers, ringVars, lockVars>>

PushLock(w) ==
    /\ Goto(w, "push_lock", "push_check")
    /\ enq_lock = NoWorker
    /\ enq_lock' = w
    /\ UNCHANGED <<consumers, ringVars, deq_lock, data, outside>>

PushCheck(w) ==
    /\ Goto(w, "push_check", IF FULL THEN "push_full" ELSE "push_write")
    /\ UNCHANGED <<consumers, ringVars, lockVars, data, outside>>

PushWrite(w) ==
    /\ Goto(w, "push_write", "push_advance")
    /\ buffer' = [buffer EXCEPT ![in] = data[w]]
    /\ UNCHANGED <<consumers, size, in, out, lockVars, data, outside>>

PushAdvance(w) ==
    /\ Goto(w, "push_advance", "push_count")
    /\ in' = Wrap(in + 1)
    /\ UNCHANGED <<consumers, buffer, size, out, lockVars, data, outside>>

PushCount(w) ==
    /\ Goto(w, "push_count", "push_done")
    /\ size' = size + 1
    /\ UNCHANGED <<consumers, buffer, in, out, lockVars, data, outside>>

\* A refused task stays with the caller, who runs it on the spot.
PushUnlock(w) ==
    /\ pc[w] \in {"push_done", "push_full"}
    /\ Goto(w, pc[w], "idle")
    /\ enq_lock' = NoWorker
    /\ data' = [data EXCEPT ![w] = NULL]
    /\ outside' = IF pc[w] = "push_full" THEN outside \cup {data[w]} ELSE outside
    /\ UNCHANGED <<consumers, ringVars, deq_lock>>
-----------------------------------------------------------------------------
(* mir_task_queue_pop, entered by callers that have just read size > 0 *)

\* Bug variant: pop is called without looking at the size first.
PopCallUnchecked(w) ==
    /\ w \in consumers
    /\ Goto(w, "idle", "pop_lock")
    /\ UNCHANGED <<consumers, ringVars, lockVars, data, outside>>

PopCall(w) ==
    /\ w \in consumers
    /\ ~EMPTY
    /\ Goto(w, "idle", "pop_lock")
    /\ UNCHANGED <<consumers, ringVars, lockVars, data, outside>>

PopLock(w) ==
    /\ Goto(w, "pop_lock", "pop_check")
    /\ deq_lock = NoWorker
    /\ deq_lock' = w
    /\ UNCHANGED <<consumers, ringVars, enq_lock, data, outside>>

\* Bug variant: the caller's size check is trusted under the lock.
PopCheckTrusting(w) ==
    /\ Goto(w, "pop_check", "pop_read")
    /\ UNCHANGED <<consumers, ringVars, lockVars, data, outside>>

PopCheck(w) ==
    /\ Goto(w, "pop_check", IF EMPTY THEN "pop_empty" ELSE "pop_read")
    /\ UNCHANGED <<consumers, ringVars, lockVars, data, outside>>

PopRead(w) ==
    /\ Goto(w, "pop_read", "pop_count")
    /\ data' = [data EXCEPT ![w] = buffer[out]]
    /\ UNCHANGED <<consumers, ringVars, lockVars, outside>>

PopCount(w) ==
    /\ Goto(w, "pop_count", "pop_advance")
    /\ size' = size - 1
    /\ UNCHANGED <<consumers, buffer, in, out, lockVars, data, outside>>

\* Bug variant: the slot is read only after size-- has freed it.
PopAdvanceReads(w) ==
    /\ Goto(w, "pop_advance", "pop_done")
    /\ out' = Wrap(out + 1)
    /\ data' = [data EXCEPT ![w] = buffer[out]]
    /\ UNCHANGED <<consumers, buffer, size, in, lockVars, outside>>

PopAdvance(w) ==
    /\ Goto(w, "pop_advance", "pop_done")
    /\ out' = Wrap(out + 1)
    /\ UNCHANGED <<consumers, buffer, size, in, lockVars, data, outside>>

\* The caller runs the popped task; its pointer may then be used again.
PopUnlock(w) ==
    /\ pc[w] \in {"pop_done", "pop_empty"}
    /\ Goto(w, pc[w], "idle")
    /\ deq_lock' = NoWorker
    /\ data' = [data EXCEPT ![w] = NULL]
    /\ outside' = IF pc[w] = "pop_done" THEN outside \cup {data[w]} ELSE outside
    /\ UNCHANGED <<consumers, ringVars, enq_lock>>
-----------------------------------------------------------------------------
PushInside(w) == PushCheck(w) \/ PushWrite(w) \/ PushAdvance(w) \/ PushCount(w)
                 \/ PushUnlock(w)
PopInside(w) == PopCheck(w) \/ PopRead(w) \/ PopCount(w) \/ PopAdvance(w)
                \/ PopUnlock(w)

Next ==
    \E w \in Workers :
        \/ \E t \in Tasks : PushCall(w, t)
        \/ PushLock(w) \/ PushInside(w)
        \/ PopCall(w)
        \/ PopLock(w) \/ PopInside(w)

Spec == Init /\ [][Next]_vars
-----------------------------------------------------------------------------
(* The ring as a queue *)

\* Between its decrement of size and its out++ a consumer has taken the slot
\* at `out` out of the queue: the queue's first task is one slot further.
front == IF \E w \in Workers : pc[w] = "pop_advance" THEN Wrap(out + 1) ELSE out

Contents == [k \in 1 .. size |-> buffer[Wrap(front + (k - 1))]]

callOp(w) ==
    CASE pc[w] = "idle" -> "none"
      [] pc[w] = "push_done" -> "pushed"
      [] pc[w] = "push_full" -> "full"
      [] pc[w] \in PushPcs \ {"push_done", "push_full"} -> "push"
      [] pc[w] \in {"pop_advance", "pop_done"} -> "popped"
      [] pc[w] = "pop_empty" -> "empty"
      [] pc[w] \in {"pop_lock", "pop_check", "pop_read", "pop_count"} -> "pop"

callItem(w) == IF pc[w] = "pop_count" THEN NULL ELSE data[w]

BQ == INSTANCE BoundedQueue WITH
          queue <- Contents,
          op <- [w \in Workers |-> callOp(w)],
          item <- [w \in Workers |-> callItem(w)]

\* Whatever the interleaving of producers and consumers, the ring behaves as
\* one FIFO queue: a push takes effect at size++ and a pop at size--, pop
\* returns the oldest task, and "full" and "empty" are told only when true.
ImplementsQueue == BQ!BQSpec
-----------------------------------------------------------------------------
(* Properties *)

TypeOK ==
    /\ buffer \in [Slots -> Tasks \cup {NULL}]
    /\ size \in 0 .. Capacity
    /\ in \in Slots /\ out \in Slots
    /\ enq_lock \in Workers \cup {NoWorker}
    /\ deq_lock \in Workers \cup {NoWorker}
    /\ pc \in [Workers -> {"idle"} \cup PushPcs \cup PopPcs]
    /\ data \in [Workers -> Tasks \cup {NULL}]
    /\ outside \in SUBSET Tasks
    /\ consumers \in SUBSET Poppers \ {{}}

\* A consumer that was told the queue is not empty never reads a slot that
\* holds no task: MIR_ASSERT(task != NULL) in mir_task_queue_pop cannot fire,
\* although `size` is read under a lock the producers do not hold.
PopFindsTask ==
    \A w \in Workers :
        pc[w] \in {"pop_count", "pop_advance", "pop_done"} => data[w] \in Tasks

Inside(w, pcs) == pc[w] \in pcs

\* The task a call holds that is in the queue no more, or not yet.
InHand(w, t) ==
    /\ data[w] = t
    /\ Inside(w, (PushPcs \ {"push_done"}) \cup {"pop_advance", "pop_done"})

\* No task is lost or handed out twice: at every moment each task is outside,
\* in exactly one call, or in exactly one position of the queue.
TaskInOnePlace ==
    \A t \in Tasks :
        LET calls == {w \in Workers : InHand(w, t)}
            places == {k \in 1 .. size : Contents[k] = t}
        IN  Cardinality(calls) + Cardinality(places)
                + (IF t \in outside THEN 1 ELSE 0) = 1

\* mir_worker_pop asserts that a private queue it saw non-empty yields a task.
\* It may: the owner is the queue's only consumer, so nobody empties the queue
\* between its size check and its pop.
SoleConsumerFindsTask ==
    (\A v, w \in consumers : v = w) => \A w \in Workers : pc[w] # "pop_empty"
=============================================================================
