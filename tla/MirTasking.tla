----------------------------- MODULE MirTasking -----------------------------
(***************************************************************************)
(* Tasks, task synchronisation, workers and the end of a run: mir_task.c,  *)
(* mir_twc.c, mir_worker.c and the part of mir_destroy that waits for the  *)
(* workers.                                                                *)
(*                                                                         *)
(* A worker always executes in one CONTEXT: the task it is running, or its *)
(* base (the worker loop; for worker 0 the main program).  A context that  *)
(* executes a task, because it waits for its children or because a queue   *)
(* refused the task, is suspended under it, so the contexts of a worker    *)
(* form a stack linked by `predecessor`.  User code is any sequence of     *)
(* creations and waits that ends.                                          *)
(*                                                                         *)
(* The scheduling policy is a pool: which queued task a pop returns is the *)
(* policy's affair and nothing here depends on it.                         *)
(***************************************************************************)
EXTENDS Integers, Sequences, FiniteSets

CONSTANTS
    NumWorkers,     \* runtime->num_workers
    MaxTasks,       \* bound: tasks a run creates
    QueueCapacity,  \* runtime->sched_pol->queue_capacity
    Targets,        \* workers that mir_task_create_on_worker names
    Structured,     \* does user code wait for the tasks it has created?
    Word            \* values of the counter g_num_tasks_waiting (2^32)

Workers == 0 .. NumWorkers - 1
Tasks == 1 .. MaxTasks      \* task->id.uid
NoTask == 0                 \* a NULL task; as a parent: the runtime itself
Base(w) == -1 - w           \* the context of worker w outside every task
Main == Base(0)
Contexts == Tasks \cup {Base(w) : w \in Workers}

ASSUME WorkersAssumption == NumWorkers \in Nat \ {0} /\ Targets \subseteq Workers
ASSUME BoundsAssumption ==
    /\ MaxTasks \in Nat \ {0}
    /\ QueueCapacity \in Nat
    /\ Word \in Nat /\ Word > MaxTasks
    /\ Structured \in BOOLEAN

VARIABLES
    g_tasks_uidc,       \* the next task id
    parent,             \* task->parent, and with it task->twc
    predecessor,        \* task->predecessor
    sync_pass,          \* task->sync_pass
    count,              \* twc->count, by owner of the counter
    count_per_worker,   \* twc->count_per_worker, by owner
    num_passes,         \* twc->num_passes, by owner
    current_task,       \* worker->current_task
    pool,               \* tasks queued in the scheduling policy
    private_queue,      \* worker->private_queue
    g_num_tasks_waiting,
    g_worker_status_board,
    sig_dying,          \* workers whose sig_dying flag is set
    sig_die,            \* workers whose sig_die lock is held
    g_sig_worker_alive,
    pc,                 \* where each context stands
    job,                \* the task a context is pushing or has popped
    scan,               \* mir_twc_reduce's loop index and sum
    born                \* history: passes its counter had made when t was created

taskVars == <<g_tasks_uidc, parent, born>>
twcVars == <<count, count_per_worker, num_passes>>
queueVars == <<pool, private_queue>>
counterVars == <<g_num_tasks_waiting, g_worker_status_board>>
stackVars == <<current_task, predecessor>>
deathVars == <<sig_dying, sig_die, g_sig_worker_alive>>
vars == <<taskVars, sync_pass, twcVars, queueVars, counterVars, stackVars,
          deathVars, pc, job, scan>>

Owners == {NoTask} \cup Tasks   \* a task owns its ctwc, the runtime one too
ZeroScan == [i |-> 0, sum |-> 0]

Init ==
    /\ g_tasks_uidc = 1
    /\ parent = [t \in Tasks |-> NoTask]
    /\ predecessor = [t \in Tasks |-> NoTask]
    /\ sync_pass = [t \in Tasks |-> 0]
    /\ born = [t \in Tasks |-> 0]
    /\ count = [k \in Owners |-> 0]
    /\ count_per_worker = [k \in Owners |-> [w \in Workers |-> 0]]
    /\ num_passes = [k \in Owners |-> 0]
    /\ current_task = [w \in Workers |-> NoTask]
    /\ pool = {}
    /\ private_queue = [w \in Workers |-> <<>>]
    /\ g_num_tasks_waiting = 0 /\ g_worker_status_board = 0
    /\ sig_dying = {} /\ sig_die = Workers /\ g_sig_worker_alive = 0
    /\ pc = [c \in Contexts |-> IF c \in Tasks THEN "none"
                                ELSE IF c = Main THEN "run" ELSE "private_pop"]
    /\ job = [c \in Contexts |-> NoTask]
    /\ scan = [c \in Contexts |-> ZeroScan]

\* The context that worker w executes in.
Self(w) == IF current_task[w] = NoTask THEN Base(w) ELSE current_task[w]
At(w, label) == pc[Self(w)] = label
Goto(w, label) == pc' = [pc EXCEPT ![Self(w)] = label]

Created == 1 .. g_tasks_uidc - 1
Children(k) == {t \in Created : parent[t] = k}
-----------------------------------------------------------------------------
(* Creating and scheduling a task *)

\* mir_task_create_common: link the task to its parent's wait counter.
Create(w) ==
    /\ At(w, "run") /\ g_tasks_uidc <= MaxTasks
    /\ LET t == g_tasks_uidc
           k == current_task[w]
       IN  /\ g_tasks_uidc' = t + 1
           /\ parent' = [parent EXCEPT ![t] = k]
           /\ born' = [born EXCEPT ![t] = num_passes[k]]
           /\ count' = [count EXCEPT ![k] = @ + 1]
           /\ job' = [job EXCEPT ![Self(w)] = t]
           /\ pc' = [pc EXCEPT ![t] = "queued", ![Self(w)] = "push"]
    /\ UNCHANGED <<sync_pass, count_per_worker, num_passes, queueVars, counterVars,
                   stackVars, deathVars, scan>>

PushPolicy(w) ==
    /\ At(w, "push") /\ Cardinality(pool) < QueueCapacity
    /\ pool' = pool \cup {job[Self(w)]}
    /\ job' = [job EXCEPT ![Self(w)] = NoTask]
    /\ Goto(w, "pushed")
    /\ UNCHANGED <<taskVars, sync_pass, twcVars, private_queue, counterVars,
                   stackVars, deathVars, scan>>

\* mir_worker_push: the queue of a named worker, which has the capacity of the
\* policy's queues.  A push to a full one ends the program.
PushPrivate(w, v) ==
    /\ At(w, "push") /\ v \in Targets /\ Len(private_queue[v]) < QueueCapacity
    /\ private_queue' = [private_queue EXCEPT ![v] = Append(@, job[Self(w)])]
    /\ job' = [job EXCEPT ![Self(w)] = NoTask]
    /\ Goto(w, "pushed")
    /\ UNCHANGED <<taskVars, sync_pass, twcVars, pool, counterVars, stackVars,
                   deathVars, scan>>

\* The task is announced only after it can be taken.
CountPush(w) ==
    /\ At(w, "pushed")
    /\ g_num_tasks_waiting' = (g_num_tasks_waiting + 1) % Word
    /\ Goto(w, "run")
    /\ UNCHANGED <<taskVars, sync_pass, twcVars, queueVars, g_worker_status_board,
                   stackVars, deathVars, job, scan>>

\* mir_task_execute up to the call of the task function: t runs on top of the
\* context of w, which is to go on at `label` when t is over.
Run(w, t, label) ==
    /\ predecessor' = [predecessor EXCEPT ![t] = current_task[w]]
    /\ current_task' = [current_task EXCEPT ![w] = t]
    /\ job' = [job EXCEPT ![Self(w)] = NoTask]
    /\ pc' = [pc EXCEPT ![t] = "run", ![Self(w)] = label]

\* Bug variant: a task run on the spot is announced as waiting.
PushInlineCounted(w) ==
    /\ At(w, "push") /\ Cardinality(pool) >= QueueCapacity
    /\ Run(w, job[Self(w)], "pushed")
    /\ UNCHANGED <<taskVars, sync_pass, twcVars, queueVars, counterVars, deathVars, scan>>

\* MIR_INLINE_TASK_IF_QUEUE_FULL
PushInline(w) ==
    /\ At(w, "push") /\ Cardinality(pool) >= QueueCapacity
    /\ Run(w, job[Self(w)], "run")
    /\ UNCHANGED <<taskVars, sync_pass, twcVars, queueVars, counterVars, deathVars, scan>>
-----------------------------------------------------------------------------
(* mir_worker_do_work *)

\* Where a context goes on after do_work: the worker loop looks at the signal
\* to die, a waiting context at its counter.
AfterWork(w) == IF current_task[w] = NoTask /\ w # 0 THEN "check_dying" ELSE "reduce"

PopPrivate(w) ==
    /\ At(w, "private_pop") /\ private_queue[w] # <<>>
    /\ job' = [job EXCEPT ![Self(w)] = Head(private_queue[w])]
    /\ private_queue' = [private_queue EXCEPT ![w] = Tail(@)]
    /\ Goto(w, "popped")
    /\ UNCHANGED <<taskVars, sync_pass, twcVars, pool, counterVars, stackVars,
                   deathVars, scan>>

\* Bug variant: a worker without private tasks backs off at once.
NoPrivateTaskBacksOff(w) ==
    /\ At(w, "private_pop") /\ private_queue[w] = <<>>
    /\ Goto(w, AfterWork(w))
    /\ UNCHANGED <<taskVars, sync_pass, twcVars, queueVars, counterVars, stackVars,
                   deathVars, job, scan>>

NoPrivateTask(w) ==
    /\ At(w, "private_pop") /\ private_queue[w] = <<>>
    /\ Goto(w, "policy_pop")
    /\ UNCHANGED <<taskVars, sync_pass, twcVars, queueVars, counterVars, stackVars,
                   deathVars, job, scan>>

\* Bug variant: the task is read but stays in the queue.
PopPolicyPeeks(w) ==
    /\ At(w, "policy_pop")
    /\ \E t \in pool : job' = [job EXCEPT ![Self(w)] = t]
    /\ Goto(w, "popped")
    /\ UNCHANGED <<taskVars, sync_pass, twcVars, queueVars, counterVars, stackVars,
                   deathVars, scan>>

PopPolicy(w) ==
    /\ At(w, "policy_pop")
    /\ \E t \in pool : /\ pool' = pool \ {t}
                       /\ job' = [job EXCEPT ![Self(w)] = t]
    /\ Goto(w, "popped")
    /\ UNCHANGED <<taskVars, sync_pass, twcVars, private_queue, counterVars, stackVars,
                   deathVars, scan>>

\* Nothing to do: back off.
NoTaskFound(w) ==
    /\ At(w, "policy_pop") /\ pool = {}
    /\ Goto(w, AfterWork(w))
    /\ UNCHANGED <<taskVars, sync_pass, twcVars, queueVars, counterVars, stackVars,
                   deathVars, job, scan>>

\* Bug variant: the counter is decremented as if it could be negative.
CountPopSigned(w) ==
    /\ At(w, "popped")
    /\ g_num_tasks_waiting' = g_num_tasks_waiting - 1
    /\ Goto(w, "execute")
    /\ UNCHANGED <<taskVars, sync_pass, twcVars, queueVars, g_worker_status_board,
                   stackVars, deathVars, job, scan>>

CountPop(w) ==
    /\ At(w, "popped")
    /\ g_num_tasks_waiting' = (g_num_tasks_waiting - 1) % Word
    /\ Goto(w, "execute")
    /\ UNCHANGED <<taskVars, sync_pass, twcVars, queueVars, g_worker_status_board,
                   stackVars, deathVars, job, scan>>

\* The worker marks itself busy and calls mir_task_execute.
Execute(w) ==
    /\ At(w, "execute")
    /\ g_worker_status_board' = g_worker_status_board + 1
    /\ Run(w, job[Self(w)], "executed")
    /\ UNCHANGED <<taskVars, sync_pass, twcVars, queueVars, g_num_tasks_waiting,
                   deathVars, scan>>

Executed(w) ==
    /\ At(w, "executed")
    /\ g_worker_status_board' = g_worker_status_board - 1
    /\ Goto(w, AfterWork(w))
    /\ UNCHANGED <<taskVars, sync_pass, twcVars, queueVars, g_num_tasks_waiting,
                   stackVars, deathVars, job, scan>>
-----------------------------------------------------------------------------
(* mir_task_execute_epilog *)

\* User code that ends; in a structured program it has synchronised before.
MayEnd(w) == Structured => count[current_task[w]] = 0

\* Bug variant: the counter is told before the epilog has read it.
EpilogRecordTells(w) ==
    /\ At(w, "run") /\ current_task[w] # NoTask /\ MayEnd(w)
    /\ LET t == current_task[w]
       IN  /\ sync_pass' = [sync_pass EXCEPT ![t] = num_passes[parent[t]]]
           /\ count_per_worker' = [count_per_worker EXCEPT ![parent[t]][w] = @ + 1]
    /\ Goto(w, "epilog")
    /\ UNCHANGED <<taskVars, count, num_passes, queueVars, counterVars, stackVars,
                   deathVars, job, scan>>

\* The sync point the task joins at is the next pass of its counter.
EpilogRecord(w) ==
    /\ At(w, "run") /\ current_task[w] # NoTask /\ MayEnd(w)
    /\ LET t == current_task[w]
       IN  sync_pass' = [sync_pass EXCEPT ![t] = num_passes[parent[t]]]
    /\ Goto(w, "epilog")
    /\ UNCHANGED <<taskVars, twcVars, queueVars, counterVars, stackVars, deathVars,
                   job, scan>>

\* Bug variant: the worker forgets the context it suspended.
EpilogSignalDropsStack(w) ==
    /\ At(w, "epilog")
    /\ LET t == current_task[w]
       IN  /\ current_task' = [current_task EXCEPT ![w] = NoTask]
           /\ count_per_worker' = [count_per_worker EXCEPT ![parent[t]][w] = @ + 1]
    /\ Goto(w, "done")
    /\ UNCHANGED <<taskVars, sync_pass, count, num_passes, queueVars, counterVars,
                   predecessor, deathVars, job, scan>>

\* Leave the task, then tell its counter.  Only w increments this cell.
EpilogSignal(w) ==
    /\ At(w, "epilog")
    /\ LET t == current_task[w]
       IN  /\ current_task' = [current_task EXCEPT ![w] = predecessor[t]]
           /\ count_per_worker' = [count_per_worker EXCEPT ![parent[t]][w] = @ + 1]
    /\ Goto(w, "done")
    /\ UNCHANGED <<taskVars, sync_pass, count, num_passes, queueVars, counterVars,
                   predecessor, deathVars, job, scan>>
-----------------------------------------------------------------------------
(* mir_task_wait *)

\* Bug variant: the pass is counted when the wait begins.
WaitCountsPass(w) ==
    /\ At(w, "run") /\ count[current_task[w]] > 0
    /\ num_passes' = [num_passes EXCEPT ![current_task[w]] = @ + 1]
    /\ Goto(w, "reduce")
    /\ UNCHANGED <<taskVars, sync_pass, count, count_per_worker, queueVars, counterVars,
                   stackVars, deathVars, job, scan>>

\* A wait with nothing to wait for returns at once and changes nothing.
Wait(w) ==
    /\ At(w, "run") /\ count[current_task[w]] > 0
    /\ Goto(w, "reduce")
    /\ UNCHANGED <<taskVars, sync_pass, twcVars, queueVars, counterVars, stackVars,
                   deathVars, job, scan>>

\* mir_twc_reduce adds up the cells one after the other.
ReduceAdd(w) ==
    /\ At(w, "reduce") /\ scan[Self(w)].i < NumWorkers
    /\ LET i == scan[Self(w)].i
       IN  scan' = [scan EXCEPT ![Self(w)] =
               [i |-> i + 1, sum |-> @.sum + count_per_worker[current_task[w]][i]]]
    /\ UNCHANGED <<taskVars, sync_pass, twcVars, queueVars, counterVars, stackVars,
                   deathVars, pc, job>>

\* Bug variant: the waiter only watches its counter.
ReduceDecideSpins(w) ==
    /\ At(w, "reduce") /\ scan[Self(w)].i = NumWorkers
    /\ Goto(w, IF scan[Self(w)].sum < count[current_task[w]] THEN "reduce" ELSE "pass")
    /\ scan' = [scan EXCEPT ![Self(w)] = ZeroScan]
    /\ UNCHANGED <<taskVars, sync_pass, twcVars, queueVars, counterVars, stackVars,
                   deathVars, job>>

\* Bug variant: the first completion ends the wait.
ReduceDecideFirst(w) ==
    /\ At(w, "reduce") /\ scan[Self(w)].i = NumWorkers
    /\ Goto(w, IF scan[Self(w)].sum = 0 THEN "private_pop" ELSE "pass")
    /\ scan' = [scan EXCEPT ![Self(w)] = ZeroScan]
    /\ UNCHANGED <<taskVars, sync_pass, twcVars, queueVars, counterVars, stackVars,
                   deathVars, job>>

ReduceDecide(w) ==
    /\ At(w, "reduce") /\ scan[Self(w)].i = NumWorkers
    /\ Goto(w, IF scan[Self(w)].sum < count[current_task[w]] THEN "private_pop" ELSE "pass")
    /\ scan' = [scan EXCEPT ![Self(w)] = ZeroScan]
    /\ UNCHANGED <<taskVars, sync_pass, twcVars, queueVars, counterVars, stackVars,
                   deathVars, job>>

Pass(w) ==
    /\ At(w, "pass")
    /\ num_passes' = [num_passes EXCEPT ![current_task[w]] = @ + 1]
    /\ Goto(w, "reset")
    /\ UNCHANGED <<taskVars, sync_pass, count, count_per_worker, queueVars, counterVars,
                   stackVars, deathVars, job, scan>>

\* Bug variant: the waiter clears only the cell of its own worker.
ResetOwnCell(w) ==
    /\ At(w, "reset")
    /\ count' = [count EXCEPT ![current_task[w]] = 0]
    /\ count_per_worker' = [count_per_worker EXCEPT ![current_task[w]][w] = 0]
    /\ Goto(w, "run")
    /\ UNCHANGED <<taskVars, sync_pass, num_passes, queueVars, counterVars, stackVars,
                   deathVars, job, scan>>

Reset(w) ==
    /\ At(w, "reset")
    /\ count' = [count EXCEPT ![current_task[w]] = 0]
    /\ count_per_worker' =
           [count_per_worker EXCEPT ![current_task[w]] = [v \in Workers |-> 0]]
    /\ Goto(w, "run")
    /\ UNCHANGED <<taskVars, sync_pass, num_passes, queueVars, counterVars, stackVars,
                   deathVars, job, scan>>
-----------------------------------------------------------------------------
(* mir_destroy *)

shutdownFrame == <<taskVars, sync_pass, twcVars, queueVars, counterVars, stackVars,
                   job>>

\* The main program ends, in main and outside every task.
Destroy ==
    /\ pc[Main] = "run" /\ current_task[0] = NoTask /\ MayEnd(0)
    /\ Goto(0, "check_1")
    /\ UNCHANGED <<shutdownFrame, deathVars, scan>>

\* mir_worker_check_done reads the two counters one after the other, twice.
CheckStep(label, counter, next) ==
    /\ pc[Main] = label
    /\ Goto(0, IF counter = 0 THEN next ELSE "check_1")
    /\ UNCHANGED <<shutdownFrame, deathVars, scan>>

\* Bug variant: only the number of waiting tasks is looked at.
CheckDoneQueueOnly ==
    \/ CheckStep("check_1", g_num_tasks_waiting, "check_2")
    \/ CheckStep("check_2", g_num_tasks_waiting, "assert_1")

CheckDone ==
    \/ CheckStep("check_1", g_num_tasks_waiting, "check_2")
    \/ CheckStep("check_2", g_worker_status_board, "check_3")
    \/ CheckStep("check_3", g_num_tasks_waiting, "check_4")
    \/ CheckStep("check_4", g_worker_status_board, "assert_1")

\* The two assertions after the loop; one that fails ends the program.
Assert ==
    /\ \/ pc[Main] = "assert_1" /\ g_num_tasks_waiting = 0 /\ Goto(0, "assert_2")
       \/ pc[Main] = "assert_2" /\ g_worker_status_board = 0 /\ Goto(0, "announce")
    /\ UNCHANGED <<shutdownFrame, deathVars, scan>>

\* One round of a loop of worker 0 over the workers, then on to `label`.
ForEachWorker(label) ==
    LET i == scan[Main].i
    IN  /\ Goto(0, IF i < NumWorkers - 1 THEN pc[Main] ELSE label)
        /\ scan' = [scan EXCEPT ![Main].i = IF i < NumWorkers - 1 THEN i + 1 ELSE 0]

\* Tell the workers, one after the other, to leave their loops.
Announce ==
    /\ pc[Main] = "announce"
    /\ sig_dying' = sig_dying \cup {scan[Main].i}
    /\ ForEachWorker("kill")
    /\ UNCHANGED <<shutdownFrame, sig_die, g_sig_worker_alive>>

\* Count the workers that are to die, then release the locks they wait for.
Kill ==
    /\ pc[Main] = "kill"
    /\ g_sig_worker_alive' = g_sig_worker_alive + NumWorkers - 1
    /\ Goto(0, "unlock")
    /\ UNCHANGED <<shutdownFrame, sig_dying, sig_die, scan>>

Unlock ==
    /\ pc[Main] = "unlock"
    /\ sig_die' = sig_die \ {scan[Main].i}
    /\ ForEachWorker("wait_dead")
    /\ UNCHANGED <<shutdownFrame, sig_dying, g_sig_worker_alive>>

WaitDead ==
    /\ pc[Main] = "wait_dead" /\ g_sig_worker_alive = 0
    /\ Goto(0, "down")
    /\ UNCHANGED <<shutdownFrame, deathVars, scan>>

\* The worker loop between two calls of do_work, and its end.
CheckDying(w) ==
    /\ At(w, "check_dying")
    /\ Goto(w, IF w \in sig_dying THEN "dying" ELSE "private_pop")
    /\ UNCHANGED <<shutdownFrame, deathVars, scan>>

Die(w) ==
    /\ At(w, "dying") /\ w \notin sig_die
    /\ sig_die' = sig_die \cup {w}
    /\ Goto(w, "signal_dead")
    /\ UNCHANGED <<shutdownFrame, sig_dying, g_sig_worker_alive, scan>>

SignalDead(w) ==
    /\ At(w, "signal_dead")
    /\ g_sig_worker_alive' = g_sig_worker_alive - 1
    /\ Goto(w, "dead")
    /\ UNCHANGED <<shutdownFrame, sig_dying, sig_die, scan>>
-----------------------------------------------------------------------------
WorkerStep(w) ==
    \/ Create(w) \/ PushPolicy(w) \/ PushInline(w) \/ CountPush(w)
    \/ \E v \in Workers : PushPrivate(w, v)
    \/ PopPrivate(w) \/ NoPrivateTask(w) \/ PopPolicy(w) \/ NoTaskFound(w)
    \/ CountPop(w) \/ Execute(w) \/ Executed(w)
    \/ EpilogRecord(w) \/ EpilogSignal(w)
    \/ Wait(w) \/ ReduceAdd(w) \/ ReduceDecide(w) \/ Pass(w) \/ Reset(w)
    \/ CheckDying(w) \/ Die(w) \/ SignalDead(w)

DestroyStep ==
    \/ Destroy \/ CheckDone \/ Assert \/ Announce
    \/ Kill \/ Unlock \/ WaitDead

\* The runtime is gone; the program may stop.
Down == pc[Main] = "down" /\ UNCHANGED vars

Next == (\E w \in Workers : WorkerStep(w)) \/ DestroyStep \/ Down

\* Every thread keeps running and user code is finite: each task function, and
\* main, gets to its end.
Fairness ==
    /\ \A w \in Workers \ {0} : WF_vars(WorkerStep(w))
    /\ WF_vars(WorkerStep(0) \/ DestroyStep)

Spec == Init /\ [][Next]_vars
FairSpec == Spec /\ Fairness
-----------------------------------------------------------------------------
(* Properties *)

Labels == {"none", "queued", "run", "push", "pushed", "private_pop", "policy_pop",
           "popped", "execute", "executed", "epilog", "done", "reduce", "pass",
           "reset", "check_dying", "dying", "signal_dead", "dead", "check_1",
           "check_2", "check_3", "check_4", "assert_1", "assert_2", "announce",
           "kill", "unlock", "wait_dead", "down"}

TypeOK ==
    /\ g_tasks_uidc \in 1 .. MaxTasks + 1
    /\ parent \in [Tasks -> Owners]
    /\ predecessor \in [Tasks -> Owners]
    /\ sync_pass \in [Tasks -> 0 .. MaxTasks]
    /\ born \in [Tasks -> 0 .. MaxTasks]
    /\ count \in [Owners -> 0 .. MaxTasks]
    /\ count_per_worker \in [Owners -> [Workers -> 0 .. MaxTasks]]
    /\ num_passes \in [Owners -> 0 .. MaxTasks]
    /\ current_task \in [Workers -> Owners]
    /\ pool \in SUBSET Tasks
    /\ private_queue \in [Workers -> Seq(Tasks)]
    /\ \A w \in Workers : Len(private_queue[w]) <= QueueCapacity
    /\ g_num_tasks_waiting \in 0 .. Word - 1
    /\ g_worker_status_board \in 0 .. Cardinality(Contexts)
    /\ sig_dying \subseteq Workers /\ sig_die \subseteq Workers
    /\ g_sig_worker_alive \in 0 .. NumWorkers - 1
    /\ pc \in [Contexts -> Labels]
    /\ job \in [Contexts -> Owners]
    /\ scan \in [Contexts -> [i : 0 .. NumWorkers, sum : 0 .. MaxTasks]]

\* The wait is over only when every task the context has ever created is, and
\* its epilog with it: nothing still reads num_passes or increments a cell
\* that the waiter is about to reset.
WaitCoversChildren ==
    \A w \in Workers :
        At(w, "pass") \/ At(w, "reset") =>
            \A t \in Children(current_task[w]) : pc[t] = "done"

\* "This catches the nasty case of not sychronizing with all tasks previously":
\* the assertion in mir_twc_reduce never fires.  No completion of an earlier
\* pass is left in the cells or arrives after their reset.
ReduceAssertHolds ==
    \A c \in Contexts :
        (pc[c] = "reduce" /\ scan[c].i = NumWorkers) =>
            scan[c].sum <= count[IF c \in Tasks THEN c ELSE NoTask]

\* "All sibling tasks will have the same sync point": whatever worker ran it
\* and whenever it ended, a task records the pass that its creator's next wait
\* made, so siblings created between two waits join at the same one.
SyncPointIsNextWait ==
    \A t \in Created : pc[t] \in {"epilog", "done"} => sync_pass[t] = born[t]

\* A created task is in one place: in hand, queued once, running, or done.
\* None is lost between queue and worker, and none runs twice.
Queued == pool \cup UNION {{private_queue[w][i] : i \in DOMAIN private_queue[w]} :
                              w \in Workers}
TaskInOnePlace ==
    \A t \in Created :
        LET holders == {c \in Contexts : job[c] = t}
            queues == {w \in Workers : \E i \in DOMAIN private_queue[w] :
                                           private_queue[w][i] = t}
            inPool == IF t \in pool THEN 1 ELSE 0
        IN  Cardinality(holders) + Cardinality(queues) + inPool
                = (IF pc[t] = "queued" THEN 1 ELSE 0)

\* The tasks in execution form one stack per worker: each is the current task
\* of one worker or lies under exactly one other, so ending a task brings its
\* worker back to the context it suspended and to no other.
Active == {t \in Created : pc[t] \notin {"queued", "done"}}
StacksAreSeparate ==
    \A t \in Active :
        Cardinality({w \in Workers : current_task[w] = t})
            + Cardinality({u \in Active : predecessor[u] = t}) = 1

\* What mir_destroy relies on: the two global counters, read at any moment,
\* differ from what they count only by the calls in between, which the code
\* does not cover: a task taken from its queue and not yet executed is in
\* neither.
CountersMatch ==
    LET between(l) == Cardinality({c \in Contexts : pc[c] = l})
    IN  /\ g_num_tasks_waiting =
               (Cardinality(Queued) + between("popped") - between("pushed")) % Word
        /\ g_worker_status_board = between("executed")

\* mir_worker_check_done, "Check if worker is free and no tasks are queued up":
\* its two assertions, for a program that may end without waiting.
CheckDoneAssertsHold ==
    /\ pc[Main] = "assert_1" => g_num_tasks_waiting = 0
    /\ pc[Main] = "assert_2" => g_worker_status_board = 0

\* When the signal to die is out, all created tasks have run to their end, the
\* queues are empty and no worker is inside a task or can still find one.
ShutdownIsQuiet ==
    sig_dying # {} =>
                 /\ \A t \in Created : pc[t] = "done"
                 /\ Queued = {}
                 /\ g_num_tasks_waiting = 0 /\ g_worker_status_board = 0

\* Every task is executed and every wait returns: no cycle of contexts waiting for
\* tasks suspended under each other.
EveryTaskEnds == \A t \in Tasks : pc[t] = "queued" ~> pc[t] = "done"
EveryWaitEnds == \A c \in Contexts : pc[c] = "reduce" ~> pc[c] = "run"
=============================================================================
