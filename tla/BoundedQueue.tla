---------------------------- MODULE BoundedQueue ----------------------------
(***************************************************************************)
(* What a MIR queue promises its callers: a first-in first-out queue of    *)
(* bounded length whose operations take effect at one instant between the  *)
(* call and the return, whatever the other workers do meanwhile.           *)
(***************************************************************************)
EXTENDS Naturals, Sequences

CONSTANTS
    Workers,   \* the threads that call the queue
    Tasks,     \* the task pointers that may be queued
    Capacity,  \* the number of tasks the queue may hold
    NULL       \* the pointer that is no task

VARIABLES
    queue,  \* the queued tasks, oldest first
    op,     \* where each worker's call stands
    item    \* the task each worker pushes or has popped

bqVars == <<queue, op, item>>

Ops == {"none", "push", "pushed", "full", "pop", "popped", "empty"}

BQInit ==
    /\ queue = <<>>
    /\ op = [w \in Workers |-> "none"]
    /\ item = [w \in Workers |-> NULL]

\* w moves from one stage of its call to another, holding t.
Move(w, from, to, t) ==
    /\ op[w] = from
    /\ op' = [op EXCEPT ![w] = to]
    /\ item' = [item EXCEPT ![w] = t]

CallPush(w, t) == Move(w, "none", "push", t) /\ UNCHANGED queue
CallPop(w) == Move(w, "none", "pop", NULL) /\ UNCHANGED queue

Push(w) ==
    /\ Len(queue) < Capacity
    /\ Move(w, "push", "pushed", item[w])
    /\ queue' = Append(queue, item[w])

PushRefused(w) ==
    /\ Len(queue) = Capacity
    /\ Move(w, "push", "full", item[w])
    /\ UNCHANGED queue

Pop(w) ==
    /\ queue # <<>>
    /\ Move(w, "pop", "popped", Head(queue))
    /\ queue' = Tail(queue)

PopRefused(w) ==
    /\ queue = <<>>
    /\ Move(w, "pop", "empty", NULL)
    /\ UNCHANGED queue

Return(w) ==
    /\ op[w] \in {"pushed", "full", "popped", "empty"}
    /\ Move(w, op[w], "none", NULL)
    /\ UNCHANGED queue

BQNext ==
    \E w \in Workers :
        \/ \E t \in Tasks : CallPush(w, t)
        \/ CallPop(w)
        \/ Push(w) \/ PushRefused(w)
        \/ Pop(w) \/ PopRefused(w)
        \/ Return(w)

BQSpec == BQInit /\ [][BQNext]_bqVars
=============================================================================
