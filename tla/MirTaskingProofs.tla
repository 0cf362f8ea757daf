---------------------------- MODULE MirTaskingProofs ----------------------------
(***************************************************************************)
(* Proofs about MirTasking, for every number of workers and tasks and any  *)
(* capacity: types, the stacks of contexts, the places of tasks, what a    *)
(* wait counter counts, and why mir_task_wait returns only when every      *)
(* child is done.                                                          *)
(*                                                                         *)
(* A worker's stack is known only by its links, so the invariant says that *)
(* nothing is linked to twice; a task is moved between three kinds of      *)
(* places by different workers, so it says that no two places hold one     *)
(* task, and that a queued task is in one.                                 *)
(***************************************************************************)
EXTENDS MirTasking, FiniteSetTheorems, SequenceTheorems, NaturalsInduction, WellFoundedInduction, TLAPS

TaskTypes ==
    /\ g_tasks_uidc \in 1 .. MaxTasks + 1
    /\ parent \in [Tasks -> Owners]
    /\ sync_pass \in [Tasks -> Nat] /\ born \in [Tasks -> Nat]
StackTypes == predecessor \in [Tasks -> Owners] /\ current_task \in [Workers -> Owners]
TwcTypes ==
    /\ count \in [Owners -> Nat] /\ num_passes \in [Owners -> Nat]
    /\ count_per_worker \in [Owners -> [Workers -> Nat]]
QueueTypes ==
    /\ pool \in SUBSET Tasks /\ private_queue \in [Workers -> Seq(Tasks)]
    /\ \A w \in Workers : Len(private_queue[w]) <= QueueCapacity
GlobalTypes ==
    /\ g_num_tasks_waiting \in 0 .. Word - 1 /\ g_worker_status_board \in Int
    /\ sig_dying \subseteq Workers /\ sig_die \subseteq Workers /\ g_sig_worker_alive \in Int
ContextTypes ==
    /\ pc \in [Contexts -> Labels] /\ job \in [Contexts -> Owners]
    /\ scan \in [Contexts -> [i : 0 .. NumWorkers, sum : Nat]]
TypeInv == TaskTypes /\ StackTypes /\ TwcTypes /\ QueueTypes /\ GlobalTypes /\ ContextTypes

\* Where a suspended context stands; a task in execution; a worker outside every
\* task; the main program, and mir_destroy.
Suspended == {"run", "executed"}
WorkLabels == {"private_pop", "policy_pop", "popped", "execute", "executed"}
UserLabels == {"run", "push", "pushed", "reduce", "pass", "reset"} \cup WorkLabels
Executing == UserLabels \cup {"epilog"}
LoopLabels == WorkLabels \cup {"check_dying", "dying", "signal_dead", "dead"}
ShutLabels == {"check_1", "check_2", "check_3", "check_4", "assert_1", "assert_2",
               "announce", "kill", "unlock", "wait_dead", "down"}

\* Which labels a context can have, and when it has a task in hand.
LabelInv ==
    /\ \A t \in Tasks : /\ pc[t] \in {"none", "queued", "done"} \cup Executing
                        /\ pc[t] = "none" <=> t >= g_tasks_uidc
    /\ \A w \in Workers : pc[Base(w)] \in IF w = 0 THEN UserLabels \cup ShutLabels ELSE LoopLabels
    /\ \A c \in Contexts : job[c] # NoTask <=> pc[c] \in {"push", "popped", "execute"}

\* mir_twc_reduce and the loops over the workers leave their index at 0.
ScanInv ==
    /\ \A c \in Contexts : /\ pc[c] \notin {"reduce", "announce", "unlock"} => scan[c].i = 0
                           /\ pc[c] # "reduce" => scan[c].sum = 0
    /\ pc[Main] \in {"announce", "unlock"} => scan[Main].i < NumWorkers

\* u lies directly on t.
On(u, t) == pc[u] \in Executing /\ predecessor[u] = t

\* A task in execution is current, or lies under one other, and not both; what
\* lies under another has been suspended.
StackInv ==
    /\ \A w \in Workers : current_task[w] # NoTask =>
            /\ pc[current_task[w]] \in Executing
            /\ pc[Base(w)] \in Suspended
            /\ \A v \in Workers : current_task[v] = current_task[w] => v = w
            /\ \A u \in Tasks : ~On(u, current_task[w])
    /\ \A t, u \in Tasks : On(u, t) =>
            /\ pc[t] \in Suspended
            /\ \A v \in Tasks : On(v, t) => v = u
    /\ \A t \in Tasks : pc[t] \in Executing =>
            (\E w \in Workers : current_task[w] = t) \/ (\E u \in Tasks : On(u, t))

\* The tasks of a private queue, which holds none twice.
Elements(s) == {s[i] : i \in DOMAIN s}
Private(w) == Elements(private_queue[w])
Distinct(s) == \A i, j \in DOMAIN s : s[i] = s[j] => i = j

PlaceInv ==
    /\ \A t \in Tasks : pc[t] = "queued" <=>
            t \in pool \/ (\E c \in Contexts : job[c] = t) \/ (\E w \in Workers : t \in Private(w))
    /\ \A c \in Contexts : job[c] # NoTask =>
            /\ job[c] \notin pool
            /\ \A d \in Contexts : job[d] = job[c] => d = c
            /\ \A w \in Workers : job[c] \notin Private(w)
    /\ \A w \in Workers :
            /\ Distinct(private_queue[w])
            /\ Private(w) \cap pool = {}
            /\ \A v \in Workers : v # w => Private(v) \cap Private(w) = {}

BaseInv == TypeInv /\ LabelInv /\ ScanInv /\ StackInv /\ PlaceInv
-----------------------------------------------------------------------------
(* Steps *)

\* The steps of a worker in which its context goes from one label to another and
\* no other context moves.
Moves ==
    {<<"push", "pushed">>, <<"pushed", "run">>, <<"private_pop", "popped">>,
     <<"private_pop", "policy_pop">>, <<"policy_pop", "popped">>, <<"popped", "execute">>,
     <<"policy_pop", "reduce">>, <<"policy_pop", "check_dying">>,
     <<"executed", "reduce">>, <<"executed", "check_dying">>, <<"run", "epilog">>,
     <<"epilog", "done">>, <<"run", "reduce">>, <<"reduce", "private_pop">>, <<"reduce", "pass">>,
     <<"pass", "reset">>, <<"reset", "run">>, <<"check_dying", "dying">>,
     <<"check_dying", "private_pop">>, <<"dying", "signal_dead">>, <<"signal_dead", "dead">>}
MovesTo(w, l) ==
    /\ <<pc[Self(w)], l>> \in Moves
    /\ pc' = [pc EXCEPT ![Self(w)] = l]
    /\ l = "check_dying" => current_task[w] = NoTask /\ w # 0
    /\ l = "reduce" => pc[Self(w)] = "run" \/ current_task[w] # NoTask \/ w = 0
    /\ l = "epilog" => current_task[w] # NoTask
    /\ l = "done" => EpilogSignal(w)
    /\ l = "pushed" => job' = [job EXCEPT ![Self(w)] = NoTask]
    /\ l = "popped" => \E t : /\ job' = [job EXCEPT ![Self(w)] = t]
                              /\ \/ t \in pool
                                 \/ private_queue[w] # <<>> /\ t = Head(private_queue[w])
    /\ l \notin {"pushed", "popped"} => job' = job
    /\ scan' = IF pc[Self(w)] = "reduce" THEN [scan EXCEPT ![Self(w)] = ZeroScan] ELSE scan

\* How a step of a worker moves contexts.
LEMMA WorkerMoves ==
    ASSUME NEW w \in Workers, WorkerStep(w)
    PROVE  \/ Create(w) \/ PushInline(w) \/ Execute(w) \/ ReduceAdd(w)
           \/ \E l \in Labels : MovesTo(w, l)
<1> USE DEF Goto, At, MovesTo, Moves, Labels
<1>1. CASE PushPolicy(w) \/ CountPush(w) \/ \E v \in Workers : PushPrivate(w, v)
  BY <1>1 DEF PushPolicy, CountPush, PushPrivate
<1>2. CASE PopPrivate(w)
  BY <1>2 DEF PopPrivate
<1>3. CASE PopPolicy(w)
  BY <1>3 DEF PopPolicy
<1>4. CASE NoPrivateTask(w) \/ CountPop(w)
  BY <1>4 DEF NoPrivateTask, CountPop
<1>5. CASE NoTaskFound(w) \/ Executed(w)
  BY <1>5 DEF NoTaskFound, Executed, AfterWork, counterVars
<1>6. CASE EpilogRecord(w) \/ EpilogSignal(w) \/ Wait(w)
  BY <1>6 DEF EpilogRecord, EpilogSignal, Wait
<1>7. CASE ReduceDecide(w) \/ Pass(w) \/ Reset(w)
  BY <1>7 DEF ReduceDecide, Pass, Reset
<1>8. CASE CheckDying(w) \/ Die(w) \/ SignalDead(w)
  BY <1>8 DEF CheckDying, Die, SignalDead, shutdownFrame
<1>9. QED
  BY <1>1, <1>2, <1>3, <1>4, <1>5, <1>6, <1>7, <1>8 DEF WorkerStep

\* Which steps of a worker change what.
LEMMA WorkerFrames ==
    ASSUME NEW w \in Workers, WorkerStep(w)
    PROVE  /\ Create(w) \/ UNCHANGED taskVars
           /\ EpilogRecord(w) \/ UNCHANGED sync_pass
           /\ Create(w) \/ EpilogSignal(w) \/ Pass(w) \/ Reset(w) \/ UNCHANGED twcVars
           /\ \/ PushPolicy(w) \/ (\E v \in Workers : PushPrivate(w, v))
              \/ PopPrivate(w) \/ PopPolicy(w) \/ UNCHANGED queueVars
           /\ CountPush(w) \/ CountPop(w) \/ Execute(w) \/ Executed(w) \/ UNCHANGED counterVars
           /\ PushInline(w) \/ Execute(w) \/ EpilogSignal(w) \/ UNCHANGED stackVars
           /\ Die(w) \/ SignalDead(w) \/ UNCHANGED deathVars
           /\ ReduceAdd(w) \/ ReduceDecide(w) \/ UNCHANGED scan
           /\ \/ Create(w) \/ PushPolicy(w) \/ (\E v \in Workers : PushPrivate(w, v))
              \/ PushInline(w) \/ PopPrivate(w) \/ PopPolicy(w) \/ Execute(w) \/ UNCHANGED job
<1>1. CASE PushPolicy(w) \/ CountPush(w) \/ \E v \in Workers : PushPrivate(w, v)
  BY <1>1 DEF PushPolicy, CountPush, PushPrivate, taskVars, twcVars, queueVars, counterVars,
              stackVars, deathVars
<1>2. CASE PopPrivate(w) \/ NoPrivateTask(w) \/ PopPolicy(w) \/ CountPop(w)
  BY <1>2 DEF PopPrivate, NoPrivateTask, PopPolicy, CountPop, taskVars, twcVars, queueVars,
              counterVars, stackVars, deathVars
<1>3. CASE NoTaskFound(w) \/ Executed(w)
  BY <1>3 DEF NoTaskFound, Executed, taskVars, twcVars, queueVars, counterVars, stackVars, deathVars
<1>4. CASE EpilogRecord(w) \/ EpilogSignal(w) \/ Wait(w)
  BY <1>4 DEF EpilogRecord, EpilogSignal, Wait, taskVars, twcVars, queueVars, counterVars,
              stackVars, deathVars
<1>5. CASE ReduceDecide(w) \/ Pass(w) \/ Reset(w) \/ ReduceAdd(w)
  BY <1>5 DEF ReduceDecide, Pass, Reset, ReduceAdd, taskVars, twcVars, queueVars, counterVars,
              stackVars, deathVars
<1>6. CASE CheckDying(w) \/ Die(w) \/ SignalDead(w)
  BY <1>6 DEF CheckDying, Die, SignalDead, shutdownFrame
<1>7. CASE Create(w) \/ PushInline(w) \/ Execute(w)
  BY <1>7 DEF Create, PushInline, Execute, Run, taskVars, twcVars, queueVars, counterVars,
              stackVars, deathVars
<1>8. QED
  BY <1>1, <1>2, <1>3, <1>4, <1>5, <1>6, <1>7 DEF WorkerStep

\* What mir_destroy does: it moves the main program alone.
LEMMA DestroyFrame ==
    ASSUME DestroyStep
    PROVE  /\ UNCHANGED shutdownFrame
           /\ \/ Destroy
              \/ pc[Main] \in ShutLabels /\ \E l \in ShutLabels : Goto(0, l)
           /\ Destroy => Goto(0, "check_1")
BY DEF DestroyStep, Destroy, CheckDone, CheckStep, Assert, Announce, Kill, Unlock, WaitDead,
       ForEachWorker, Goto, ShutLabels
-----------------------------------------------------------------------------
(* Contexts *)

\* Tasks, the runtime as a parent, and the bases of the workers are different.
LEMMA ContextFacts ==
    /\ NoTask \notin Tasks /\ Owners = Tasks \cup {NoTask} /\ 0 \in Workers
    /\ Tasks \subseteq Contexts
    /\ \A w \in Workers : Base(w) \in Contexts /\ Base(w) \notin Tasks /\ Base(w) # NoTask
    /\ \A v, w \in Workers : Base(v) = Base(w) => v = w
    /\ \A c \in Contexts : c \in Tasks \/ \E w \in Workers : c = Base(w)
BY WorkersAssumption, BoundsAssumption
   DEF Tasks, NoTask, Owners, Contexts, Base, Workers

\* What the context of a worker is.
LEMMA SelfFacts ==
    ASSUME TypeInv, NEW w \in Workers
    PROVE  /\ Self(w) \in Contexts
           /\ current_task[w] = NoTask => Self(w) = Base(w)
           /\ current_task[w] # NoTask => Self(w) = current_task[w] /\ Self(w) \in Tasks
BY ContextFacts DEF TypeInv, StackTypes, Self

\* No two workers execute in the same context.
LEMMA SelfIsOwn ==
    ASSUME TypeInv, StackInv, NEW v \in Workers, NEW w \in Workers, Self(v) = Self(w)
    PROVE  v = w
<1>1. CASE current_task[w] = NoTask
  BY <1>1, SelfFacts, ContextFacts
<1>2. CASE current_task[w] # NoTask
  <2>1. current_task[v] = current_task[w]
    BY <1>2, SelfFacts, ContextFacts
  <2>2. QED
    BY <1>2, <2>1 DEF StackInv
<1>3. QED
  BY <1>1, <1>2

\* mir_destroy runs in the main program, outside every task.
LEMMA MainIsSelf ==
    ASSUME TypeInv, StackInv, pc[Main] \in ShutLabels
    PROVE  Self(0) = Main /\ current_task[0] = NoTask
BY ContextFacts, SelfFacts DEF StackInv, Main, ShutLabels, Suspended
-----------------------------------------------------------------------------
(* Types *)

LEMMA TypeStep ==
    ASSUME TypeInv, LabelInv, ScanInv, StackInv, [Next]_vars
    PROVE  TypeInv'
<1> USE ContextFacts
<1>1. ASSUME NEW w \in Workers, WorkerStep(w) PROVE TypeInv'
  <2> USE WorkerFrames, SelfFacts
  <2>1. TaskTypes'
    <3>1. CASE Create(w)
      <4>1. g_tasks_uidc \in Tasks /\ g_tasks_uidc + 1 \in 1 .. MaxTasks + 1
        BY <3>1, BoundsAssumption DEF Create, TypeInv, TaskTypes, Tasks
      <4>2. QED
        BY <3>1, <4>1 DEF TypeInv, TaskTypes, StackTypes, TwcTypes, Create
    <3>2. CASE EpilogRecord(w)
      BY <3>2 DEF EpilogRecord, taskVars, TypeInv, TaskTypes, StackTypes, TwcTypes
    <3>3. QED
      BY <1>1, <3>1, <3>2 DEF TypeInv, TaskTypes, taskVars
  <2>2. StackTypes'
    <3>1. CASE PushInline(w) \/ Execute(w)
      <4>1. job[Self(w)] \in Owners /\ current_task[w] \in Owners
        BY DEF TypeInv, StackTypes, ContextTypes
      <4>2. QED
        BY <3>1, <4>1 DEF PushInline, Execute, Run, TypeInv, StackTypes
    <3>2. CASE EpilogSignal(w)
      <4>1. current_task[w] \in Tasks /\ predecessor[current_task[w]] \in Owners
        BY <3>2 DEF EpilogSignal, At, LabelInv, LoopLabels, UserLabels, WorkLabels, ShutLabels,
           TypeInv, StackTypes
      <4>2. QED
        BY <3>2, <4>1 DEF EpilogSignal, TypeInv, StackTypes
    <3>3. QED
      BY <1>1, <3>1, <3>2 DEF TypeInv, StackTypes, stackVars
  <2>3. TwcTypes'
    <3>1. CASE Create(w)
      BY <3>1 DEF Create, TypeInv, TwcTypes, StackTypes
    <3>2. CASE EpilogSignal(w)
      <4>1. current_task[w] \in Tasks
        BY <3>2 DEF EpilogSignal, At, LabelInv, LoopLabels, UserLabels, WorkLabels, ShutLabels
      <4>2. QED
        BY <3>2, <4>1 DEF EpilogSignal, TypeInv, TwcTypes, TaskTypes
    <3>3. CASE Pass(w) \/ Reset(w)
      BY <3>3 DEF Pass, Reset, TypeInv, TwcTypes, StackTypes
    <3>4. QED
      BY <1>1, <3>1, <3>2, <3>3 DEF TypeInv, TwcTypes, twcVars
  <2>4. QueueTypes'
    <3>1. CASE PushPolicy(w)
      <4>1. job[Self(w)] \in Tasks
        BY <3>1 DEF TypeInv, ContextTypes, LabelInv, PushPolicy, At
      <4>2. QED
        BY <3>1, <4>1 DEF TypeInv, QueueTypes, PushPolicy
    <3>2. ASSUME NEW v \in Workers, PushPrivate(w, v) PROVE QueueTypes'
      <4>1. job[Self(w)] \in Tasks
        BY <3>2 DEF TypeInv, ContextTypes, LabelInv, PushPrivate, At
      <4>2. /\ Append(private_queue[v], job[Self(w)]) \in Seq(Tasks)
            /\ Len(Append(private_queue[v], job[Self(w)])) <= QueueCapacity
        BY <3>2, <4>1, BoundsAssumption DEF TypeInv, QueueTypes, PushPrivate
      <4>3. QED
        BY <3>2, <4>2 DEF TypeInv, QueueTypes, PushPrivate
    <3>3. CASE PopPrivate(w)
      <4>1. private_queue[w] \in Seq(Tasks) /\ private_queue[w] # <<>>
        BY <3>3 DEF TypeInv, QueueTypes, PopPrivate
      <4>2. Tail(private_queue[w]) \in Seq(Tasks) /\ Len(Tail(private_queue[w])) = Len(private_queue[w]) - 1
        BY <4>1
      <4>3. Len(private_queue[w]) \in Nat
        BY <4>1
      <4>4. QED
        BY <3>3, <4>2, <4>3, BoundsAssumption DEF TypeInv, QueueTypes, PopPrivate
    <3>4. CASE PopPolicy(w)
      BY <3>4 DEF PopPolicy, TypeInv, QueueTypes
    <3>5. QED
      BY <1>1, <3>1, <3>2, <3>3, <3>4 DEF TypeInv, QueueTypes, queueVars
  <2>5. GlobalTypes'
    <3>1. CASE CountPush(w) \/ CountPop(w)
      <4>1. g_num_tasks_waiting' \in 0 .. Word - 1
        <5>1. g_num_tasks_waiting \in Int /\ Word \in Nat \ {0}
          BY BoundsAssumption DEF TypeInv, GlobalTypes
        <5>2. \A x \in Int : x % Word \in 0 .. Word - 1
          BY <5>1
        <5>3. QED
          BY <3>1, <5>1, <5>2 DEF CountPush, CountPop
      <4>2. QED
        BY <3>1, <4>1 DEF CountPush, CountPop, deathVars, TypeInv, GlobalTypes
    <3>2. CASE Execute(w) \/ Executed(w)
      BY <3>2 DEF Execute, Executed, deathVars, TypeInv, GlobalTypes
    <3>3. CASE Die(w) \/ SignalDead(w)
      BY <3>3 DEF Die, SignalDead, shutdownFrame, counterVars, TypeInv, GlobalTypes
    <3>4. QED
      BY <1>1, <3>1, <3>2, <3>3 DEF TypeInv, GlobalTypes, counterVars, deathVars
  <2>6. ContextTypes'
    <3>1. pc' \in [Contexts -> Labels]
      <4>1. CASE Create(w) \/ PushInline(w) \/ Execute(w) \/ ReduceAdd(w)
        BY <4>1 DEF Create, PushInline, Execute, ReduceAdd, Run, Labels, TypeInv, ContextTypes
      <4>2. ASSUME NEW l \in Labels, MovesTo(w, l) PROVE pc' \in [Contexts -> Labels]
        BY <4>2 DEF MovesTo, TypeInv, ContextTypes
      <4>3. QED
        BY <1>1, <4>1, <4>2, WorkerMoves
    <3>2. job' \in [Contexts -> Owners]
      <4>1. CASE Create(w)
        <5>1. g_tasks_uidc \in Owners
          BY <4>1 DEF Create, TypeInv, TaskTypes, Tasks
        <5>2. QED
          BY <4>1, <5>1 DEF Create, TypeInv, ContextTypes
      <4>2. CASE PushPolicy(w) \/ PushInline(w) \/ Execute(w) \/ \E v \in Workers : PushPrivate(w, v)
        BY <4>2 DEF PushPolicy, PushInline, Execute, PushPrivate, Run, TypeInv, ContextTypes
      <4>3. CASE PopPrivate(w)
        <5>1. Head(private_queue[w]) \in Tasks
          BY <4>3 DEF PopPrivate, TypeInv, QueueTypes
        <5>2. QED
          BY <4>3, <5>1 DEF PopPrivate, TypeInv, ContextTypes
      <4>4. CASE PopPolicy(w)
        BY <4>4 DEF PopPolicy, TypeInv, ContextTypes, QueueTypes
      <4>5. QED
        BY <1>1, <4>1, <4>2, <4>3, <4>4 DEF TypeInv, ContextTypes
    <3>3. scan' \in [Contexts -> [i : 0 .. NumWorkers, sum : Nat]]
      <4>1. CASE ReduceAdd(w)
        <5>1. scan[Self(w)] \in [i : 0 .. NumWorkers, sum : Nat]
          BY DEF TypeInv, ContextTypes
        <5>2. scan[Self(w)].i \in Workers /\ scan[Self(w)].i + 1 \in 0 .. NumWorkers
          BY <4>1, <5>1, WorkersAssumption DEF ReduceAdd, Workers
        <5>3. scan[Self(w)].sum + count_per_worker[current_task[w]][scan[Self(w)].i] \in Nat
          BY <5>1, <5>2 DEF TypeInv, TwcTypes, StackTypes
        <5>4. QED
          BY <4>1, <5>2, <5>3 DEF ReduceAdd, TypeInv, ContextTypes
      <4>2. CASE ReduceDecide(w)
        BY <4>2, WorkersAssumption DEF ReduceDecide, ZeroScan, TypeInv, ContextTypes
      <4>3. QED
        BY <1>1, <4>1, <4>2 DEF TypeInv, ContextTypes
    <3>4. QED
      BY <3>1, <3>2, <3>3 DEF ContextTypes
  <2>7. QED
    BY <2>1, <2>2, <2>3, <2>4, <2>5, <2>6 DEF TypeInv
<1>2. CASE DestroyStep
  <2>1. Self(0) \in Contexts /\ Main \in Contexts /\ NumWorkers \in Nat
    BY SelfFacts, WorkersAssumption DEF Main
  <2>2. TaskTypes' /\ StackTypes' /\ TwcTypes' /\ QueueTypes' /\ job' = job
        /\ g_num_tasks_waiting' = g_num_tasks_waiting /\ g_worker_status_board' = g_worker_status_board
    BY <1>2, DestroyFrame DEF TypeInv, TaskTypes, StackTypes, TwcTypes, QueueTypes,
       shutdownFrame, taskVars, twcVars, queueVars, counterVars, stackVars
  <2>3. pc' \in [Contexts -> Labels]
    BY <1>2, <2>1, DestroyFrame DEF Goto, ShutLabels, Labels, TypeInv, ContextTypes
  <2>4. CASE Announce \/ Unlock
    <3>1. scan[Main] \in [i : 0 .. NumWorkers, sum : Nat]
      BY <2>1 DEF TypeInv, ContextTypes
    <3>2. scan' \in [Contexts -> [i : 0 .. NumWorkers, sum : Nat]]
      BY <2>1, <2>4, <3>1 DEF Announce, Unlock, ForEachWorker, TypeInv, ContextTypes
    <3>3. scan[Main].i \in Workers
      BY <2>1, <2>4, <3>1 DEF Announce, Unlock, ScanInv, Workers
    <3>4. QED
      BY <2>2, <2>3, <2>4, <3>2, <3>3 DEF Announce, Unlock, TypeInv, ContextTypes, GlobalTypes
  <2>5. CASE Destroy \/ CheckDone \/ Assert \/ Kill \/ WaitDead
    BY <2>1, <2>2, <2>3, <2>5 DEF TypeInv, GlobalTypes, ContextTypes, Destroy, CheckDone, CheckStep,
       Assert, Kill, WaitDead, deathVars
  <2>6. QED
    BY <1>2, <2>4, <2>5 DEF DestroyStep
<1>3. CASE UNCHANGED vars
  BY <1>3 DEF TypeInv, TaskTypes, StackTypes, TwcTypes, QueueTypes, GlobalTypes, ContextTypes,
     vars, taskVars, twcVars, queueVars, counterVars, stackVars, deathVars
<1>4. QED
  BY <1>1, <1>2, <1>3 DEF Next, Down
-----------------------------------------------------------------------------
(* Labels and scans *)

\* What mir_destroy does to the main program, which is where worker 0 is.
LEMMA DestroyMoves ==
    ASSUME TypeInv, StackInv, DestroyStep
    PROVE  /\ Self(0) = Main /\ current_task[0] = NoTask /\ Main \in Contexts /\ Main \notin Tasks
           /\ UNCHANGED shutdownFrame
           /\ Destroy \/ pc[Main] \in ShutLabels
           /\ \E l \in ShutLabels : /\ pc' = [pc EXCEPT ![Main] = l]
                                    /\ Destroy => l = "check_1"
<1>1. Self(0) = Main /\ current_task[0] = NoTask
  <2>1. CASE Destroy
    BY <2>1, ContextFacts, SelfFacts DEF Destroy, Main
  <2>2. CASE ~Destroy
    BY <2>2, MainIsSelf, DestroyFrame
  <2>3. QED
    BY <2>1, <2>2
<1>2. "check_1" \in ShutLabels
  BY DEF ShutLabels
<1>3. QED
  BY <1>1, <1>2, DestroyFrame, ContextFacts DEF Goto, Main

\* Where the contexts of a step that changes two of them are.
LEMMA HandFacts ==
    ASSUME TypeInv, LabelInv, PlaceInv, NEW w \in Workers,
           pc[Self(w)] \in {"push", "popped", "execute"}
    PROVE  /\ job[Self(w)] \in Tasks /\ pc[job[Self(w)]] = "queued"
           /\ job[Self(w)] # Self(w)
<1>1. Self(w) \in Contexts
  BY SelfFacts
<1>2. job[Self(w)] \in Tasks
  BY <1>1, ContextFacts DEF TypeInv, ContextTypes, LabelInv
<1>3. pc[job[Self(w)]] = "queued"
  BY <1>1, <1>2 DEF PlaceInv
<1>4. QED
  BY <1>2, <1>3

LEMMA LabelStep ==
    ASSUME BaseInv, [Next]_vars
    PROVE  LabelInv'
<1> USE ContextFacts DEF BaseInv
<1> DEFINE Tasked == {"none", "queued", "done"} \cup Executing
           TasksOK == \A t \in Tasks : pc[t] \in Tasked /\ (pc[t] = "none" <=> t >= g_tasks_uidc)
           BasesOK == \A w \in Workers :
                          pc[Base(w)] \in IF w = 0 THEN UserLabels \cup ShutLabels ELSE LoopLabels
           HandsOK == \A c \in Contexts : job[c] # NoTask <=> pc[c] \in {"push", "popped", "execute"}
<1>1. LabelInv <=> TasksOK /\ BasesOK /\ HandsOK
  BY DEF LabelInv
<1>2. LabelInv' <=> TasksOK' /\ BasesOK' /\ HandsOK'
  BY DEF LabelInv
<1>3. pc \in [Contexts -> Labels] /\ job \in [Contexts -> Owners] /\ g_tasks_uidc \in Nat
  BY DEF TypeInv, ContextTypes, TaskTypes
<1>4. ASSUME NEW w \in Workers, WorkerStep(w) PROVE LabelInv'
  <2>1. /\ Self(w) \in Contexts
        /\ \/ Self(w) = Base(w) /\ current_task[w] = NoTask
           \/ Self(w) \in Tasks /\ current_task[w] # NoTask
    BY SelfFacts
  <2>2. CASE Create(w)
    <3>1. g_tasks_uidc \in Tasks /\ g_tasks_uidc # NoTask /\ pc[g_tasks_uidc] = "none" /\ pc[Self(w)] = "run"
      BY <1>1, <2>2, BoundsAssumption DEF Create, At, TypeInv, TaskTypes, Tasks
    <3>2. /\ pc' = [pc EXCEPT ![g_tasks_uidc] = "queued", ![Self(w)] = "push"]
          /\ job' = [job EXCEPT ![Self(w)] = g_tasks_uidc] /\ g_tasks_uidc' = g_tasks_uidc + 1
      BY <2>2 DEF Create
    <3>3. TasksOK'
      BY <1>1, <1>3, <2>1, <3>1, <3>2 DEF Executing, UserLabels, WorkLabels, Tasks
    <3>4. BasesOK'
      BY <1>1, <1>3, <2>1, <3>1, <3>2 DEF UserLabels, WorkLabels, LoopLabels, ShutLabels
    <3>5. HandsOK'
      BY <1>1, <1>3, <2>1, <3>1, <3>2
    <3>6. QED
      BY <1>2, <3>3, <3>4, <3>5
  <2>3. ASSUME NEW l \in Suspended, pc[Self(w)] \in {"push", "execute"}, Run(w, job[Self(w)], l),
               g_tasks_uidc' = g_tasks_uidc,
               l = "run" => pc[Self(w)] = "push", l = "executed" => pc[Self(w)] = "execute"
        PROVE  LabelInv'
    <3>1. job[Self(w)] \in Tasks /\ pc[job[Self(w)]] = "queued" /\ job[Self(w)] # Self(w)
      BY <2>3, HandFacts
    <3>2. /\ pc' = [pc EXCEPT ![job[Self(w)]] = "run", ![Self(w)] = l]
          /\ job' = [job EXCEPT ![Self(w)] = NoTask]
      BY <2>3 DEF Run
    <3>3. TasksOK'
      BY <1>1, <1>3, <2>1, <2>3, <3>1, <3>2 DEF Executing, UserLabels, WorkLabels, Suspended
    <3>4. BasesOK'
      BY <1>1, <1>3, <2>1, <2>3, <3>1, <3>2 DEF UserLabels, WorkLabels, LoopLabels, ShutLabels, Suspended
    <3>5. HandsOK'
      BY <1>1, <1>3, <2>1, <2>3, <3>1, <3>2 DEF Suspended
    <3>6. QED
      BY <1>2, <3>3, <3>4, <3>5
  <2>4. CASE PushInline(w)
    BY <2>3, <2>4 DEF PushInline, At, taskVars, Suspended
  <2>5. CASE Execute(w)
    BY <2>3, <2>5 DEF Execute, At, taskVars, Suspended
  <2>6. CASE ReduceAdd(w)
    BY <1>1, <1>2, <2>6 DEF ReduceAdd, taskVars
  <2>7. ASSUME NEW l \in Labels, MovesTo(w, l), ~Create(w) PROVE LabelInv'
    <3>1. <<pc[Self(w)], l>> \in Moves /\ pc' = [pc EXCEPT ![Self(w)] = l]
      BY <2>7 DEF MovesTo
    <3>2. g_tasks_uidc' = g_tasks_uidc
      BY <1>4, <2>7, WorkerFrames DEF taskVars
    <3>3. TasksOK'
      <4>1. Self(w) \in Tasks => pc[Self(w)] \in Executing /\ l \in {"done"} \cup Executing
        BY <1>1, <2>1, <2>7, <3>1 DEF MovesTo, Moves, Executing, UserLabels, WorkLabels
      <4>2. "none" \notin {"done"} \cup Executing
        BY DEF Executing, UserLabels, WorkLabels
      <4>3. QED
        BY <1>1, <1>3, <2>1, <3>1, <3>2, <4>1, <4>2
    <3>4. BasesOK'
      <4>1. CASE Self(w) \in Tasks
        BY <1>1, <1>3, <3>1, <4>1
      <4>2. CASE Self(w) = Base(w) /\ w = 0
        <5>1. l \in UserLabels
          BY <1>1, <2>7, <3>1, <4>2, <2>1 DEF MovesTo, Moves, UserLabels, WorkLabels, ShutLabels
        <5>2. QED
          BY <1>1, <1>3, <3>1, <4>2, <5>1
      <4>3. CASE Self(w) = Base(w) /\ w # 0
        <5>1. l \in LoopLabels
          BY <1>1, <2>7, <3>1, <4>3, <2>1 DEF MovesTo, Moves, LoopLabels, WorkLabels
        <5>2. QED
          BY <1>1, <1>3, <3>1, <4>3, <5>1
      <4>4. QED
        BY <2>1, <4>1, <4>2, <4>3
    <3>5. HandsOK'
      <4>1. CASE l = "pushed"
        BY <1>1, <1>3, <2>1, <2>7, <3>1, <4>1 DEF MovesTo
      <4>2. CASE l = "popped"
        <5>1. PICK t : /\ job' = [job EXCEPT ![Self(w)] = t]
                       /\ t \in pool \/ (private_queue[w] # <<>> /\ t = Head(private_queue[w]))
          BY <2>7, <4>2 DEF MovesTo
        <5>2. t \in Tasks
          BY <5>1 DEF TypeInv, QueueTypes
        <5>3. QED
          BY <1>1, <1>3, <2>1, <3>1, <4>2, <5>1, <5>2
      <4>3. CASE l \notin {"pushed", "popped"}
        <5>1. job' = job
          BY <2>7, <4>3 DEF MovesTo
        <5>2. l \in {"push", "popped", "execute"} <=> pc[Self(w)] \in {"push", "popped", "execute"}
          BY <3>1, <4>3 DEF Moves
        <5>3. QED
          BY <1>1, <1>3, <2>1, <3>1, <5>1, <5>2
      <4>4. QED
        BY <4>1, <4>2, <4>3
    <3>6. QED
      BY <1>2, <3>3, <3>4, <3>5
  <2>8. QED
    BY <1>4, <2>2, <2>4, <2>5, <2>6, <2>7, WorkerMoves
<1>5. CASE DestroyStep
  <2>1. PICK l \in ShutLabels : pc' = [pc EXCEPT ![Main] = l]
    BY <1>5, DestroyMoves
  <2>2. /\ job' = job /\ g_tasks_uidc' = g_tasks_uidc /\ Main \in Contexts /\ Main \notin Tasks
        /\ pc[Main] \in {"run"} \cup ShutLabels
    BY <1>5, DestroyMoves DEF shutdownFrame, taskVars, Destroy
  <2>3. TasksOK'
    BY <1>1, <1>3, <2>1, <2>2
  <2>4. BasesOK'
    BY <1>1, <1>3, <2>1, <2>2 DEF Main
  <2>5. HandsOK'
    BY <1>1, <1>3, <2>1, <2>2 DEF ShutLabels
  <2>6. QED
    BY <1>2, <2>3, <2>4, <2>5
<1>6. CASE UNCHANGED vars
  BY <1>1, <1>2, <1>6 DEF vars, taskVars
<1>7. QED
  BY <1>4, <1>5, <1>6 DEF Next, Down

LEMMA ScanStep ==
    ASSUME BaseInv, [Next]_vars
    PROVE  ScanInv'
<1> USE ContextFacts DEF BaseInv
<1>1. /\ pc \in [Contexts -> Labels] /\ scan \in [Contexts -> [i : 0 .. NumWorkers, sum : Nat]]
      /\ Main \in Contexts /\ NumWorkers \in Nat \ {0}
  BY WorkersAssumption DEF TypeInv, ContextTypes, Main
<1>2. ASSUME NEW w \in Workers, WorkerStep(w) PROVE ScanInv'
  <2>1. /\ Self(w) \in Contexts
        /\ Self(w) = Base(w) \/ Self(w) \in Tasks
    BY SelfFacts
  <2>2. CASE Create(w) \/ PushInline(w) \/ Execute(w)
    <3>1. scan' = scan
      BY <2>2 DEF Create, PushInline, Execute
    <3>2. \A c \in Contexts : \/ pc'[c] = pc[c]
                              \/ /\ pc'[c] \notin {"reduce", "announce", "unlock"}
                                 /\ pc[c] \notin {"reduce", "announce", "unlock"}
      <4>1. CASE Create(w)
        <5>1. g_tasks_uidc \in Tasks /\ pc[g_tasks_uidc] = "none" /\ pc[Self(w)] = "run"
          BY <4>1, BoundsAssumption DEF Create, At, TypeInv, TaskTypes, Tasks, LabelInv
        <5>2. QED
          BY <1>1, <2>1, <4>1, <5>1 DEF Create
      <4>2. CASE PushInline(w) \/ Execute(w)
        <5>1. pc[Self(w)] \in {"push", "execute"} /\ pc[job[Self(w)]] = "queued"
          BY <4>2, HandFacts DEF PushInline, Execute, At
        <5>2. QED
          BY <1>1, <2>1, <4>2, <5>1 DEF PushInline, Execute, Run
      <4>3. QED
        BY <2>2, <4>1, <4>2
    <3>3. QED
      BY <1>1, <3>1, <3>2 DEF ScanInv
  <2>3. CASE ReduceAdd(w)
    BY <1>1, <2>1, <2>3 DEF ReduceAdd, At, ScanInv
  <2>4. ASSUME NEW l \in Labels, MovesTo(w, l) PROVE ScanInv'
    <3>1. /\ <<pc[Self(w)], l>> \in Moves /\ pc' = [pc EXCEPT ![Self(w)] = l]
          /\ scan' = IF pc[Self(w)] = "reduce" THEN [scan EXCEPT ![Self(w)] = ZeroScan] ELSE scan
      BY <2>4 DEF MovesTo
    <3>2. l \notin {"announce", "unlock"} /\ pc[Self(w)] \notin {"announce", "unlock"}
      BY <3>1 DEF Moves
    <3>3. CASE pc[Self(w)] = "reduce"
      BY <1>1, <2>1, <3>1, <3>2, <3>3 DEF ScanInv, ZeroScan
    <3>4. CASE pc[Self(w)] # "reduce"
      BY <1>1, <2>1, <3>1, <3>2, <3>4 DEF ScanInv
    <3>5. QED
      BY <3>3, <3>4
  <2>5. QED
    BY <1>2, <2>2, <2>3, <2>4, WorkerMoves
<1>3. CASE Announce \/ Unlock
  <2>1. Self(0) = Main /\ scan[Main] \in [i : 0 .. NumWorkers, sum : Nat] /\ scan[Main].sum = 0
    BY <1>1, <1>3, DestroyMoves DEF DestroyStep, Announce, Unlock, ScanInv
  <2>2. \E j \in 0 .. NumWorkers - 1 : scan' = [scan EXCEPT ![Main] = [i |-> j, sum |-> 0]]
    <3>1. scan' = [scan EXCEPT ![Main].i = IF scan[Main].i < NumWorkers - 1 THEN scan[Main].i + 1 ELSE 0]
      BY <1>3 DEF Announce, Unlock, ForEachWorker
    <3>2. (IF scan[Main].i < NumWorkers - 1 THEN scan[Main].i + 1 ELSE 0) \in 0 .. NumWorkers - 1
      BY <1>1, <2>1
    <3>3. \A j : [scan[Main] EXCEPT !.i = j] = [i |-> j, sum |-> 0]
      BY <2>1
    <3>4. QED
      BY <3>1, <3>2, <3>3
  <2>3. PICK j \in 0 .. NumWorkers - 1 : scan' = [scan EXCEPT ![Main] = [i |-> j, sum |-> 0]]
    BY <2>2
  <2>4. \E l \in ShutLabels : /\ pc' = [pc EXCEPT ![Main] = l]
                              /\ l \in {"announce", "unlock"} \/ scan'[Main].i = 0
    BY <1>1, <1>3, <2>1 DEF Announce, Unlock, ForEachWorker, Goto, ShutLabels
  <2>5. PICK l \in ShutLabels : /\ pc' = [pc EXCEPT ![Main] = l]
                                /\ l \in {"announce", "unlock"} \/ scan'[Main].i = 0
    BY <2>4
  <2>6. l # "reduce" /\ scan'[Main].i = j /\ scan'[Main].sum = 0 /\ pc'[Main] = l
    <3>1. scan'[Main] = [i |-> j, sum |-> 0]
      BY <1>1, <2>3
    <3>2. QED
      BY <1>1, <2>1, <2>5, <3>1 DEF ShutLabels
  <2>7. \A c \in Contexts \ {Main} : scan'[c] = scan[c] /\ pc'[c] = pc[c]
    BY <1>1, <2>3, <2>5
  <2>8. QED
    BY <1>1, <2>5, <2>6, <2>7 DEF ScanInv
<1>4. CASE Destroy \/ CheckDone \/ Assert \/ Kill \/ WaitDead
  <2>1. PICK l \in ShutLabels : pc' = [pc EXCEPT ![Main] = l]
    BY <1>4, DestroyMoves DEF DestroyStep
  <2>2. scan' = scan /\ pc[Main] \in {"run"} \cup (ShutLabels \ {"announce", "unlock"})
    BY <1>4 DEF Destroy, CheckDone, CheckStep, Assert, Kill, WaitDead, ShutLabels
  <2>3. scan[Main].i = 0 /\ l # "reduce" /\ scan[Main].sum = 0
    BY <1>1, <2>2 DEF ScanInv, ShutLabels
  <2>4. QED
    BY <1>1, <2>1, <2>2, <2>3 DEF ScanInv
<1>5. CASE UNCHANGED vars
  BY <1>5 DEF vars, ScanInv
<1>6. QED
  BY <1>2, <1>3, <1>4, <1>5 DEF Next, Down, DestroyStep
-----------------------------------------------------------------------------
(* Stacks *)

\* A step that links nothing anew and lets no task enter or leave execution keeps
\* the stacks, as long as suspended contexts stay where they are.
LEMMA StacksKept ==
    ASSUME TypeInv, StackInv, UNCHANGED stackVars,
           \A t \in Tasks : pc'[t] \in Executing <=> pc[t] \in Executing,
           \A c \in Contexts : (\A w \in Workers : c # Self(w)) => pc'[c] = pc[c] \/ pc[c] \notin Executing
    PROVE  StackInv'
<1> USE ContextFacts
<1>1. current_task' = current_task /\ predecessor' = predecessor
  BY DEF stackVars
<1>2. \A u, t \in Tasks : On(u, t)' <=> On(u, t)
  BY <1>1 DEF On
<1>3. ASSUME NEW w \in Workers, current_task[w] # NoTask PROVE pc'[Base(w)] \in Suspended
  <2>1. \A v \in Workers : Base(w) # Self(v)
    BY <1>3, SelfFacts
  <2>2. pc[Base(w)] \in Suspended
    BY <1>3 DEF StackInv
  <2>3. QED
    BY <2>1, <2>2 DEF Suspended, Executing, UserLabels, WorkLabels
<1>4. ASSUME NEW t \in Tasks, NEW u \in Tasks, On(u, t) PROVE pc'[t] \in Suspended
  <2>1. pc[t] \in Suspended
    BY <1>4 DEF StackInv
  <2>2. \A v \in Workers : t # Self(v)
    BY <1>4, SelfFacts DEF StackInv
  <2>3. QED
    BY <2>1, <2>2 DEF Suspended, Executing, UserLabels, WorkLabels
<1>5. ASSUME NEW w \in Workers, current_task[w] # NoTask
      PROVE  /\ pc'[current_task[w]] \in Executing
             /\ \A v \in Workers : current_task[v] = current_task[w] => v = w
             /\ \A u \in Tasks : ~On(u, current_task[w])'
  <2>1. current_task[w] \in Tasks
    BY <1>5 DEF TypeInv, StackTypes
  <2>2. QED
    BY <1>1, <1>2, <1>5, <2>1 DEF StackInv
<1>6. ASSUME NEW t \in Tasks, pc'[t] \in Executing
      PROVE  (\E w \in Workers : current_task[w] = t) \/ (\E u \in Tasks : On(u, t)')
  BY <1>2, <1>6 DEF StackInv
<1>7. \A t, u, v \in Tasks : On(u, t)' /\ On(v, t)' => u = v
  BY <1>2 DEF StackInv
<1>8. QED
  BY <1>1, <1>2, <1>3, <1>4, <1>5, <1>6, <1>7 DEF StackInv, On

\* A task that runs on top of a context.
LEMMA StackPush ==
    ASSUME TypeInv, StackInv, NEW w \in Workers, NEW t \in Tasks, NEW l \in Suspended,
           pc[t] = "queued", Run(w, t, l)
    PROVE  StackInv'
<1> USE ContextFacts
<1> DEFINE s == Self(w)
           OnNext(u, x) == pc'[u] \in Executing /\ predecessor'[u] = x
<1>1. /\ s \in Contexts /\ s # t
      /\ current_task[w] = NoTask => s = Base(w)
      /\ current_task[w] # NoTask => s = current_task[w] /\ s \in Tasks
  <2>1. current_task[w] # t
    BY DEF StackInv, Executing, UserLabels, WorkLabels
  <2>2. QED
    BY <2>1, SelfFacts
<1>2. /\ current_task' = [current_task EXCEPT ![w] = t]
      /\ predecessor' = [predecessor EXCEPT ![t] = current_task[w]]
      /\ pc' = [pc EXCEPT ![t] = "run", ![s] = l]
  BY DEF Run
<1> HIDE DEF s, OnNext
<1>3. /\ pc'[t] = "run" /\ pc'[s] = l /\ current_task'[w] = t /\ predecessor'[t] = current_task[w]
      /\ \A c \in Contexts : c # t /\ c # s => pc'[c] = pc[c]
      /\ \A v \in Workers : v # w => current_task'[v] = current_task[v]
      /\ \A u \in Tasks : u # t => predecessor'[u] = predecessor[u]
  BY <1>1, <1>2 DEF TypeInv, ContextTypes, StackTypes
<1>4. pc[t] \notin Executing /\ Suspended \subseteq Executing /\ "run" \in Executing
  BY DEF Suspended, Executing, UserLabels, WorkLabels
<1>5. current_task[w] # NoTask => pc[s] \in Executing /\ \A u \in Tasks : ~On(u, s)
  BY <1>1 DEF StackInv
<1>6. \A u \in Tasks : predecessor[u] = t => ~On(u, t)
  BY <1>4 DEF StackInv
<1>7. \A u, x \in Tasks : OnNext(u, x) <=> (IF u = t THEN x = current_task[w] ELSE On(u, x))
  <2>1. ASSUME NEW u \in Tasks, NEW x \in Tasks, u = t PROVE OnNext(u, x) <=> x = current_task[w]
    BY <1>3, <1>4, <2>1 DEF OnNext
  <2>2. ASSUME NEW u \in Tasks, NEW x \in Tasks, u # t PROVE OnNext(u, x) <=> On(u, x)
    <3>1. CASE u = s
      <4>1. pc[u] \in Executing
        BY <1>1, <1>5, <3>1
      <4>2. QED
        BY <1>3, <1>4, <2>2, <3>1, <4>1 DEF On, OnNext
    <3>2. CASE u # s
      BY <1>3, <2>2, <3>2 DEF On, OnNext
    <3>3. QED
      BY <3>1, <3>2
  <2>3. QED
    BY <2>1, <2>2
<1>8. ASSUME NEW v \in Workers, current_task'[v] # NoTask
      PROVE  /\ current_task'[v] \in Tasks
             /\ pc'[current_task'[v]] \in Executing
             /\ pc'[Base(v)] \in Suspended
             /\ \A x \in Workers : current_task'[x] = current_task'[v] => x = v
             /\ \A u \in Tasks : ~OnNext(u, current_task'[v])
  <2>1. CASE v = w
    <3>1. pc'[Base(w)] \in Suspended
      BY <1>1, <1>3 DEF StackInv
    <3>2. \A x \in Workers : current_task'[x] = t => x = w
      BY <1>3, <1>4 DEF StackInv
    <3>3. \A u \in Tasks : ~OnNext(u, t)
      BY <1>1, <1>4, <1>7 DEF StackInv
    <3>4. QED
      BY <1>3, <1>4, <2>1, <3>1, <3>2, <3>3
  <2>2. CASE v # w
    <3>1. /\ current_task'[v] = current_task[v] /\ current_task[v] \in Tasks
          /\ current_task[v] # t /\ current_task[v] # s
      BY <1>1, <1>3, <1>4, <1>8, <2>2 DEF TypeInv, StackTypes, StackInv
    <3>2. pc'[Base(v)] = pc[Base(v)] /\ pc'[current_task[v]] = pc[current_task[v]]
      BY <1>1, <1>3, <2>2, <3>1
    <3>3. \A x \in Workers : current_task'[x] = current_task[v] => x = v
      BY <1>3, <3>1 DEF StackInv
    <3>4. \A u \in Tasks : ~OnNext(u, current_task[v])
      BY <1>1, <1>7, <2>2, <3>1 DEF StackInv
    <3>5. QED
      BY <3>1, <3>2, <3>3, <3>4 DEF StackInv
  <2>3. QED
    BY <2>1, <2>2
<1>9. ASSUME NEW x \in Tasks, NEW u \in Tasks, OnNext(u, x)
      PROVE  pc'[x] \in Suspended /\ \A v \in Tasks : OnNext(v, x) => v = u
  <2>1. CASE u = t
    BY <1>1, <1>3, <1>5, <1>7, <1>9, <2>1
  <2>2. CASE u # t
    <3>1. On(u, x) /\ pc[x] \in Suspended
      BY <1>7, <1>9, <2>2 DEF StackInv
    <3>2. x # t /\ (current_task[w] # NoTask => x # s) /\ x # current_task[w]
      BY <1>1, <1>4, <1>5, <3>1
    <3>3. x # s
      BY <1>1, <3>2
    <3>4. QED
      BY <1>3, <1>7, <3>1, <3>2, <3>3 DEF StackInv
  <2>3. QED
    BY <2>1, <2>2
<1>10. ASSUME NEW x \in Tasks, pc'[x] \in Executing
       PROVE  (\E v \in Workers : current_task'[v] = x) \/ (\E u \in Tasks : OnNext(u, x))
  <2>1. CASE x = t
    BY <1>3, <2>1
  <2>2. CASE x # t /\ x = s
    BY <1>1, <1>7, <2>2
  <2>3. CASE x # t /\ x # s
    <3>1. (\E v \in Workers : current_task[v] = x) \/ (\E u \in Tasks : On(u, x))
      BY <1>3, <1>10, <2>3 DEF StackInv
    <3>2. CASE \E v \in Workers : current_task[v] = x
      BY <1>1, <1>3, <2>3, <3>2
    <3>3. CASE \E u \in Tasks : On(u, x)
      BY <1>4, <1>7, <3>3 DEF On
    <3>4. QED
      BY <3>1, <3>2, <3>3
  <2>4. QED
    BY <2>1, <2>2, <2>3
<1>11. QED
  BY <1>8, <1>9, <1>10 DEF StackInv, On, OnNext

\* A task that ends gives its worker back to the context under it.
LEMMA StackPop ==
    ASSUME TypeInv, LabelInv, StackInv, NEW w \in Workers, EpilogSignal(w)
    PROVE  StackInv'
<1> USE ContextFacts
<1> DEFINE t == current_task[w]
           OnNext(u, x) == pc'[u] \in Executing /\ predecessor'[u] = x
<1>1. /\ t \in Tasks /\ pc[t] = "epilog" /\ Self(w) = t
      /\ pc' = [pc EXCEPT ![t] = "done"] /\ predecessor' = predecessor
      /\ current_task' = [current_task EXCEPT ![w] = predecessor[t]]
  <2>1. current_task[w] # NoTask
    BY SelfFacts DEF EpilogSignal, At, LabelInv, LoopLabels, UserLabels, WorkLabels, ShutLabels
  <2>2. QED
    BY <2>1, SelfFacts DEF EpilogSignal, At, Goto
<1> HIDE DEF t, OnNext
<1>2. "epilog" \in Executing /\ "done" \notin Executing /\ "epilog" \notin Suspended
      /\ Suspended \subseteq Executing
  BY DEF Suspended, Executing, UserLabels, WorkLabels
<1>3. /\ pc'[t] = "done" /\ \A c \in Contexts : c # t => pc'[c] = pc[c]
      /\ current_task'[w] = predecessor[t]
      /\ \A v \in Workers : v # w => current_task'[v] = current_task[v]
  BY <1>1 DEF TypeInv, ContextTypes, StackTypes
<1>4. \A u, x \in Tasks : OnNext(u, x) <=> On(u, x) /\ u # t
  BY <1>1, <1>2, <1>3 DEF On, OnNext
<1>5. predecessor[t] # NoTask => predecessor[t] \in Tasks /\ On(t, predecessor[t])
  BY <1>1, <1>2 DEF On, TypeInv, StackTypes
<1>6. current_task[w] = t
  BY DEF t
<1>7. ASSUME NEW v \in Workers, current_task'[v] # NoTask
      PROVE  /\ current_task'[v] \in Tasks
             /\ pc'[current_task'[v]] \in Executing
             /\ pc'[Base(v)] \in Suspended
             /\ \A x \in Workers : current_task'[x] = current_task'[v] => x = v
             /\ \A u \in Tasks : ~OnNext(u, current_task'[v])
  <2>1. CASE v = w
    <3> DEFINE p == predecessor[t]
    <3>1. p \in Tasks /\ On(t, p) /\ pc[p] \in Suspended /\ p # t
      BY <1>1, <1>2, <1>3, <1>5, <1>7, <2>1 DEF StackInv
    <3>2. pc'[p] \in Executing /\ pc'[Base(w)] \in Suspended
      BY <1>1, <1>2, <1>3, <1>6, <3>1 DEF StackInv
    <3>3. \A x \in Workers : current_task'[x] = p => x = w
      BY <1>1, <1>3, <3>1, ContextFacts DEF StackInv
    <3>4. \A u \in Tasks : ~OnNext(u, p)
      BY <1>1, <1>4, <3>1 DEF StackInv
    <3>5. QED
      BY <1>3, <2>1, <3>1, <3>2, <3>3, <3>4
  <2>2. CASE v # w
    <3>1. /\ current_task'[v] = current_task[v] /\ current_task[v] \in Tasks /\ current_task[v] # t
      BY <1>1, <1>3, <1>6, <1>7, <2>2 DEF TypeInv, StackTypes, StackInv
    <3>2. \A x \in Workers : current_task'[x] = current_task[v] => x = v
      BY <1>1, <1>3, <1>5, <3>1 DEF StackInv
    <3>3. \A u \in Tasks : ~OnNext(u, current_task[v])
      BY <1>4, <3>1 DEF StackInv
    <3>4. QED
      BY <1>1, <1>3, <3>1, <3>2, <3>3 DEF StackInv
  <2>3. QED
    BY <2>1, <2>2
<1>8. ASSUME NEW x \in Tasks, NEW u \in Tasks, OnNext(u, x)
      PROVE  pc'[x] \in Suspended /\ \A v \in Tasks : OnNext(v, x) => v = u
  <2>1. On(u, x) /\ pc[x] \in Suspended /\ x # t
    BY <1>1, <1>2, <1>4, <1>8 DEF StackInv
  <2>2. QED
    BY <1>3, <1>4, <2>1 DEF StackInv
<1>9. ASSUME NEW x \in Tasks, pc'[x] \in Executing
      PROVE  (\E v \in Workers : current_task'[v] = x) \/ (\E u \in Tasks : OnNext(u, x))
  <2>1. x # t /\ pc[x] \in Executing
    BY <1>2, <1>3, <1>9
  <2>2. CASE \E v \in Workers : current_task[v] = x
    BY <1>3, <1>6, <2>1, <2>2
  <2>3. CASE \E u \in Tasks : On(u, x)
    <3>1. PICK u \in Tasks : On(u, x)
      BY <2>3
    <3>2. CASE u = t
      BY <1>3, <3>1, <3>2 DEF On
    <3>3. CASE u # t
      BY <1>4, <3>1, <3>3
    <3>4. QED
      BY <3>2, <3>3
  <2>4. QED
    BY <2>1, <2>2, <2>3 DEF StackInv
<1>10. QED
  BY <1>7, <1>8, <1>9 DEF StackInv, On, OnNext

LEMMA StackStep ==
    ASSUME BaseInv, [Next]_vars
    PROVE  StackInv'
<1> USE ContextFacts DEF BaseInv
<1>1. pc \in [Contexts -> Labels]
  BY DEF TypeInv, ContextTypes
<1>2. ASSUME NEW w \in Workers, WorkerStep(w) PROVE StackInv'
  <2>1. CASE PushInline(w) \/ Execute(w)
    <3>1. job[Self(w)] \in Tasks /\ pc[job[Self(w)]] = "queued"
      BY <2>1, HandFacts DEF PushInline, Execute, At
    <3>2. PICK l \in Suspended : Run(w, job[Self(w)], l)
      BY <2>1 DEF PushInline, Execute, Suspended
    <3>3. QED
      BY <3>1, <3>2, StackPush
  <2>2. CASE EpilogSignal(w)
    BY <2>2, StackPop
  <2>3. CASE Create(w)
    <3>1. /\ g_tasks_uidc \in Tasks /\ pc[g_tasks_uidc] = "none" /\ pc[Self(w)] = "run"
          /\ pc' = [pc EXCEPT ![g_tasks_uidc] = "queued", ![Self(w)] = "push"]
      BY <2>3, BoundsAssumption DEF Create, At, TypeInv, TaskTypes, Tasks, LabelInv
    <3>2. {"run", "push"} \subseteq Executing /\ {"none", "queued"} \cap Executing = {}
      BY DEF Executing, UserLabels, WorkLabels
    <3>3. Self(w) \in Contexts /\ Self(w) # g_tasks_uidc
      BY <3>1, SelfFacts
    <3>4. \A t \in Tasks : pc'[t] \in Executing <=> pc[t] \in Executing
      BY <1>1, <3>1, <3>2, <3>3
    <3>5. \A c \in Contexts : c # Self(w) => pc'[c] = pc[c] \/ pc[c] \notin Executing
      BY <1>1, <3>1, <3>2, <3>3
    <3>6. UNCHANGED stackVars
      BY <2>3 DEF Create
    <3>7. QED
      BY <3>4, <3>5, <3>6, StacksKept
  <2>4. CASE ReduceAdd(w)
    BY <2>4, StacksKept DEF ReduceAdd
  <2>5. ASSUME NEW l \in Labels, MovesTo(w, l), ~EpilogSignal(w), UNCHANGED stackVars PROVE StackInv'
    <3>1. <<pc[Self(w)], l>> \in Moves /\ pc' = [pc EXCEPT ![Self(w)] = l] /\ l # "done"
      BY <2>5 DEF MovesTo
    <3>2. Self(w) \in Tasks => (pc[Self(w)] \in Executing /\ l \in Executing)
      BY <2>5, <3>1, SelfFacts DEF MovesTo, Moves, Executing, UserLabels, WorkLabels, LabelInv
    <3>3. \A t \in Tasks : pc'[t] \in Executing <=> pc[t] \in Executing
      BY <1>1, <3>1, <3>2
    <3>4. \A c \in Contexts : c # Self(w) => pc'[c] = pc[c]
      BY <1>1, <3>1
    <3>5. QED
      BY <2>5, <3>3, <3>4, StacksKept
  <2>6. QED
    BY <1>2, <2>1, <2>2, <2>3, <2>4, <2>5, WorkerMoves, WorkerFrames
<1>3. CASE DestroyStep
  <2>1. /\ Self(0) = Main /\ Main \notin Tasks /\ UNCHANGED stackVars
        /\ \E l \in ShutLabels : pc' = [pc EXCEPT ![Main] = l]
    BY <1>3, DestroyMoves DEF shutdownFrame
  <2>2. \A c \in Contexts : c # Self(0) => pc'[c] = pc[c]
    BY <1>1, <2>1
  <2>3. QED
    BY <2>1, <2>2, StacksKept
<1>4. CASE UNCHANGED vars
  <2>1. pc' = pc /\ UNCHANGED stackVars
    BY <1>4 DEF vars
  <2>2. QED
    BY <2>1, StacksKept
<1>5. QED
  BY <1>2, <1>3, <1>4 DEF Next, Down
-----------------------------------------------------------------------------
(* Places *)

\* Appending to a private queue.
LEMMA AppendPlaces ==
    ASSUME NEW s \in Seq(Tasks), NEW t \in Tasks, Distinct(s), t \notin Elements(s)
    PROVE  Distinct(Append(s, t)) /\ Elements(Append(s, t)) = Elements(s) \cup {t}
<1> DEFINE n == Len(s)
           r == Append(s, t)
<1>1. /\ n \in Nat /\ DOMAIN s = 1 .. n /\ DOMAIN r = 1 .. n + 1
      /\ r[n + 1] = t /\ \A i \in 1 .. n : r[i] = s[i]
  OBVIOUS
<1> HIDE DEF n, r
<1>2. Distinct(r)
  BY <1>1 DEF Distinct, Elements
<1>3. Elements(r) \subseteq Elements(s) \cup {t}
  BY <1>1 DEF Elements
<1>4. Elements(s) \subseteq Elements(r)
  BY <1>1 DEF Elements
<1>5. t \in Elements(r)
  BY <1>1 DEF Elements
<1>6. QED
  BY <1>2, <1>3, <1>4, <1>5 DEF r

\* Taking the first task of a private queue.
LEMMA TailPlaces ==
    ASSUME NEW s \in Seq(Tasks), s # <<>>, Distinct(s)
    PROVE  /\ Distinct(Tail(s)) /\ Elements(Tail(s)) = Elements(s) \ {Head(s)}
           /\ Head(s) \in Elements(s)
<1> DEFINE n == Len(s)
           r == Tail(s)
<1>1. /\ n \in Nat \ {0} /\ DOMAIN s = 1 .. n /\ DOMAIN r = 1 .. n - 1
      /\ Head(s) = s[1] /\ \A i \in 1 .. n - 1 : r[i] = s[i + 1]
  OBVIOUS
<1> HIDE DEF n, r
<1>2. Distinct(r)
  <2>1. ASSUME NEW i \in 1 .. n - 1, NEW j \in 1 .. n - 1, r[i] = r[j] PROVE i = j
    <3>1. i + 1 \in 1 .. n /\ j + 1 \in 1 .. n /\ s[i + 1] = s[j + 1]
      BY <1>1, <2>1
    <3>2. i + 1 = j + 1
      BY <1>1, <3>1 DEF Distinct
    <3>3. QED
      BY <3>2
  <2>2. QED
    BY <1>1, <2>1 DEF Distinct
<1>3. Elements(r) \subseteq Elements(s) \ {Head(s)}
  <2>1. ASSUME NEW i \in 1 .. n - 1 PROVE r[i] \in Elements(s) \ {Head(s)}
    <3>1. i + 1 \in 1 .. n /\ 1 \in 1 .. n /\ r[i] = s[i + 1] /\ i + 1 # 1
      BY <1>1
    <3>2. QED
      BY <1>1, <3>1 DEF Distinct, Elements
  <2>2. QED
    BY <1>1, <2>1 DEF Elements
<1>4. Elements(s) \ {Head(s)} \subseteq Elements(r)
  <2>1. ASSUME NEW i \in 1 .. n, s[i] # Head(s) PROVE s[i] \in Elements(r)
    <3>1. i - 1 \in 1 .. n - 1 /\ r[i - 1] = s[i]
      BY <1>1, <2>1
    <3>2. QED
      BY <1>1, <3>1 DEF Elements
  <2>2. QED
    BY <1>1, <2>1 DEF Elements
<1>5. Head(s) \in Elements(s)
  BY <1>1 DEF Elements
<1>6. QED
  BY <1>2, <1>3, <1>4, <1>5 DEF r

\* A step that moves no task keeps the places.
LEMMA PlacesKept ==
    ASSUME PlaceInv, UNCHANGED queueVars, UNCHANGED job,
           \A t \in Tasks : pc'[t] = "queued" <=> pc[t] = "queued"
    PROVE  PlaceInv'
<1>1. pool' = pool /\ private_queue' = private_queue /\ job' = job
  BY DEF queueVars
<1>2. \A w \in Workers : Private(w)' = Private(w)
  BY <1>1 DEF Private
<1>3. QED
  BY <1>1, <1>2 DEF PlaceInv

\* A task that its creator takes in hand.
LEMMA PlaceCreate ==
    ASSUME BaseInv, NEW w \in Workers, Create(w)
    PROVE  PlaceInv'
<1> USE ContextFacts DEF BaseInv
<1> DEFINE t == g_tasks_uidc
           s == Self(w)
<1>1. /\ t \in Tasks /\ pc[t] = "none" /\ pc[s] = "run" /\ s \in Contexts /\ s # t
      /\ pc' = [pc EXCEPT ![t] = "queued", ![s] = "push"] /\ job' = [job EXCEPT ![s] = t]
      /\ pool' = pool /\ private_queue' = private_queue
  BY SelfFacts, BoundsAssumption DEF Create, At, TypeInv, TaskTypes, Tasks, LabelInv, queueVars
<1> HIDE DEF t, s
<1>2. /\ pc'[t] = "queued" /\ \A u \in Tasks : u # t => (pc'[u] = "queued" <=> pc[u] = "queued")
      /\ job'[s] = t /\ job[s] = NoTask /\ \A c \in Contexts : c # s => job'[c] = job[c]
  BY <1>1 DEF TypeInv, ContextTypes, LabelInv
<1>3. t \notin pool /\ (\A c \in Contexts : job[c] # t) /\ (\A v \in Workers : t \notin Private(v))
  BY <1>1 DEF PlaceInv
<1>4. \A v \in Workers : Private(v)' = Private(v)
  BY <1>1 DEF Private
<1>5. \A u \in Tasks : (\E c \in Contexts : job'[c] = u) <=> u = t \/ (\E c \in Contexts : job[c] = u)
  BY <1>1, <1>2
<1>6. \A u \in Tasks : pc'[u] = "queued" <=>
          u \in pool' \/ (\E c \in Contexts : job'[c] = u) \/ (\E v \in Workers : u \in Private(v)')
  <2>1. ASSUME NEW u \in Tasks, u # t
        PROVE  pc'[u] = "queued" <=>
          u \in pool' \/ (\E c \in Contexts : job'[c] = u) \/ (\E v \in Workers : u \in Private(v)')
    <3>1. pc[u] = "queued" <=>
          u \in pool \/ (\E c \in Contexts : job[c] = u) \/ (\E v \in Workers : u \in Private(v))
      BY DEF PlaceInv
    <3>2. QED
      BY <1>1, <1>2, <1>4, <1>5, <2>1, <3>1
  <2>2. QED
    BY <1>1, <1>2, <2>1
<1>7. \A c \in Contexts : job'[c] # NoTask =>
          /\ job'[c] \notin pool'
          /\ \A d \in Contexts : job'[d] = job'[c] => d = c
          /\ \A v \in Workers : job'[c] \notin Private(v)'
  <2>1. ASSUME NEW c \in Contexts, c = s
        PROVE  /\ job'[c] \notin pool'
               /\ \A d \in Contexts : job'[d] = job'[c] => d = c
               /\ \A v \in Workers : job'[c] \notin Private(v)'
    BY <1>1, <1>2, <1>3, <1>4, <2>1
  <2>2. ASSUME NEW c \in Contexts, c # s, job[c] # NoTask
        PROVE  /\ job'[c] \notin pool'
               /\ \A d \in Contexts : job'[d] = job'[c] => d = c
               /\ \A v \in Workers : job'[c] \notin Private(v)'
    BY <1>1, <1>2, <1>3, <1>4, <2>2 DEF PlaceInv
  <2>3. QED
    BY <1>2, <2>1, <2>2
<1>8. \A v \in Workers : /\ Distinct(private_queue[v])' /\ (Private(v) \cap pool = {})'
                         /\ \A u \in Workers : u # v => (Private(u) \cap Private(v) = {})'
  <2>1. \A v \in Workers : /\ Distinct(private_queue[v]) /\ Private(v) \cap pool = {}
                           /\ \A u \in Workers : u # v => Private(u) \cap Private(v) = {}
    BY DEF PlaceInv
  <2>2. QED
    BY <1>1, <1>4, <2>1
<1>9. QED
  BY <1>6, <1>7, <1>8 DEF PlaceInv

\* A task in hand that is queued, or begins to run.
LEMMA PlacePut ==
    ASSUME BaseInv, NEW s \in Contexts, NEW t \in Tasks, job[s] = t,
           job' = [job EXCEPT ![s] = NoTask],
           \A u \in Tasks : u # t => (pc'[u] = "queued" <=> pc[u] = "queued"),
           \/ /\ pool' = pool \cup {t} /\ private_queue' = private_queue /\ pc'[t] = "queued"
           \/ /\ pool' = pool /\ pc'[t] = "queued"
              /\ \E v \in Workers : private_queue' = [private_queue EXCEPT ![v] = Append(@, t)]
           \/ /\ pool' = pool /\ private_queue' = private_queue /\ pc'[t] # "queued"
    PROVE  PlaceInv'
<1> USE ContextFacts DEF BaseInv
<1>1. /\ job'[s] = NoTask /\ \A c \in Contexts : c # s => job'[c] = job[c]
  BY DEF TypeInv, ContextTypes
<1>2. /\ t \notin pool /\ (\A c \in Contexts : job[c] = t => c = s)
      /\ \A v \in Workers : t \notin Private(v)
  BY DEF PlaceInv
<1>3. \A u \in Tasks : (\E c \in Contexts : job'[c] = u) <=> u # t /\ (\E c \in Contexts : job[c] = u)
  BY <1>1, <1>2
<1>4. CASE pool' = pool \cup {t} /\ private_queue' = private_queue /\ pc'[t] = "queued"
  <2>1. \A v \in Workers : Private(v)' = Private(v)
    BY <1>4 DEF Private
  <2>2. \A u \in Tasks : pc'[u] = "queued" <=>
          u \in pool' \/ (\E c \in Contexts : job'[c] = u) \/ (\E v \in Workers : u \in Private(v)')
    BY <1>3, <1>4, <2>1 DEF PlaceInv
  <2>3. \A c \in Contexts : job'[c] # NoTask =>
          /\ job'[c] \notin pool'
          /\ \A d \in Contexts : job'[d] = job'[c] => d = c
          /\ \A v \in Workers : job'[c] \notin Private(v)'
    BY <1>1, <1>2, <1>4, <2>1 DEF PlaceInv
  <2>4. QED
    BY <1>2, <1>4, <2>1, <2>2, <2>3 DEF PlaceInv
<1>5. ASSUME NEW v \in Workers, private_queue' = [private_queue EXCEPT ![v] = Append(@, t)],
             pool' = pool, pc'[t] = "queued"
      PROVE  PlaceInv'
  <2>1. /\ Distinct(Append(private_queue[v], t))
        /\ Elements(Append(private_queue[v], t)) = Elements(private_queue[v]) \cup {t}
    <3>1. private_queue[v] \in Seq(Tasks) /\ Distinct(private_queue[v])
          /\ t \notin Elements(private_queue[v])
      BY <1>2 DEF TypeInv, QueueTypes, PlaceInv, Private
    <3>2. QED
      BY <3>1, AppendPlaces
  <2>2. /\ Distinct(private_queue'[v]) /\ Private(v)' = Private(v) \cup {t}
        /\ \A u \in Workers : u # v => private_queue'[u] = private_queue[u] /\ Private(u)' = Private(u)
    BY <1>5, <2>1 DEF TypeInv, QueueTypes, Private
  <2>3. \A u \in Tasks : pc'[u] = "queued" <=>
          u \in pool' \/ (\E c \in Contexts : job'[c] = u) \/ (\E x \in Workers : u \in Private(x)')
    <3>1. \A u \in Tasks : (\E x \in Workers : u \in Private(x)')
                              <=> u = t \/ (\E x \in Workers : u \in Private(x))
      BY <2>2
    <3>2. QED
      BY <1>3, <1>5, <3>1 DEF PlaceInv
  <2>4. \A c \in Contexts : job'[c] # NoTask =>
          /\ job'[c] \notin pool'
          /\ \A d \in Contexts : job'[d] = job'[c] => d = c
          /\ \A x \in Workers : job'[c] \notin Private(x)'
    BY <1>1, <1>2, <1>5, <2>2 DEF PlaceInv
  <2>5. ASSUME NEW x \in Workers
        PROVE  /\ Distinct(private_queue'[x]) /\ Private(x)' \cap pool' = {}
               /\ \A y \in Workers : y # x => Private(y)' \cap Private(x)' = {}
    BY <1>2, <1>5, <2>2 DEF PlaceInv
  <2>6. QED
    BY <2>3, <2>4, <2>5 DEF PlaceInv
<1>6. CASE pool' = pool /\ private_queue' = private_queue /\ pc'[t] # "queued"
  <2>1. \A v \in Workers : Private(v)' = Private(v)
    BY <1>6 DEF Private
  <2>2. \A u \in Tasks : pc'[u] = "queued" <=>
          u \in pool' \/ (\E c \in Contexts : job'[c] = u) \/ (\E v \in Workers : u \in Private(v)')
    BY <1>2, <1>3, <1>6, <2>1 DEF PlaceInv
  <2>3. \A c \in Contexts : job'[c] # NoTask =>
          /\ job'[c] \notin pool'
          /\ \A d \in Contexts : job'[d] = job'[c] => d = c
          /\ \A v \in Workers : job'[c] \notin Private(v)'
    BY <1>1, <1>2, <1>6, <2>1 DEF PlaceInv
  <2>4. QED
    BY <1>6, <2>1, <2>2, <2>3 DEF PlaceInv
<1>7. QED
  BY <1>4, <1>5, <1>6

\* A queued task that a worker takes.
LEMMA PlaceTake ==
    ASSUME BaseInv, NEW s \in Contexts, NEW t \in Tasks, job[s] = NoTask,
           job' = [job EXCEPT ![s] = t],
           \A u \in Tasks : pc'[u] = "queued" <=> pc[u] = "queued",
           \/ /\ t \in pool /\ pool' = pool \ {t} /\ private_queue' = private_queue
           \/ /\ pool' = pool
              /\ \E v \in Workers : /\ private_queue[v] # <<>> /\ t = Head(private_queue[v])
                                    /\ private_queue' = [private_queue EXCEPT ![v] = Tail(@)]
    PROVE  PlaceInv'
<1> USE ContextFacts DEF BaseInv
<1>1. /\ job'[s] = t /\ \A c \in Contexts : c # s => job'[c] = job[c]
  BY DEF TypeInv, ContextTypes
<1>2. \A u \in Tasks : (\E c \in Contexts : job'[c] = u) <=> u = t \/ (\E c \in Contexts : job[c] = u)
  BY <1>1
<1>3. CASE t \in pool /\ pool' = pool \ {t} /\ private_queue' = private_queue
  <2>1. \A v \in Workers : Private(v)' = Private(v) /\ t \notin Private(v)
    BY <1>3 DEF Private, PlaceInv
  <2>2. \A c \in Contexts : job[c] # t
    BY <1>3 DEF PlaceInv
  <2>3. \A u \in Tasks : pc'[u] = "queued" <=>
          u \in pool' \/ (\E c \in Contexts : job'[c] = u) \/ (\E v \in Workers : u \in Private(v)')
    BY <1>2, <1>3, <2>1 DEF PlaceInv
  <2>4. \A c \in Contexts : job'[c] # NoTask =>
          /\ job'[c] \notin pool'
          /\ \A d \in Contexts : job'[d] = job'[c] => d = c
          /\ \A v \in Workers : job'[c] \notin Private(v)'
    BY <1>1, <1>3, <2>1, <2>2 DEF PlaceInv
  <2>5. QED
    BY <1>3, <2>1, <2>3, <2>4 DEF PlaceInv
<1>4. ASSUME NEW v \in Workers, private_queue[v] # <<>>, t = Head(private_queue[v]),
             private_queue' = [private_queue EXCEPT ![v] = Tail(@)], pool' = pool
      PROVE  PlaceInv'
  <2>1. /\ Distinct(Tail(private_queue[v])) /\ t \in Private(v)
        /\ Elements(Tail(private_queue[v])) = Elements(private_queue[v]) \ {t}
    <3>1. private_queue[v] \in Seq(Tasks) /\ Distinct(private_queue[v])
      BY DEF TypeInv, QueueTypes, PlaceInv
    <3>2. QED
      BY <1>4, <3>1, TailPlaces DEF Private
  <2>2. /\ Distinct(private_queue'[v]) /\ Private(v)' = Private(v) \ {t}
        /\ \A u \in Workers : u # v => private_queue'[u] = private_queue[u] /\ Private(u)' = Private(u)
    BY <1>4, <2>1 DEF TypeInv, QueueTypes, Private
  <2>3. /\ t \notin pool /\ (\A c \in Contexts : job[c] # t)
        /\ \A x \in Workers : x # v => t \notin Private(x)
    BY <2>1 DEF PlaceInv
  <2>4. \A u \in Tasks : pc'[u] = "queued" <=>
          u \in pool' \/ (\E c \in Contexts : job'[c] = u) \/ (\E x \in Workers : u \in Private(x)')
    <3>1. \A u \in Tasks : (\E x \in Workers : u \in Private(x)')
                              <=> u # t /\ (\E x \in Workers : u \in Private(x))
      BY <2>2, <2>3
    <3>2. pc'[t] = "queued"
      BY <2>1 DEF PlaceInv
    <3>3. QED
      BY <1>2, <1>4, <3>1, <3>2 DEF PlaceInv
  <2>5. \A c \in Contexts : job'[c] # NoTask =>
          /\ job'[c] \notin pool'
          /\ \A d \in Contexts : job'[d] = job'[c] => d = c
          /\ \A x \in Workers : job'[c] \notin Private(x)'
    BY <1>1, <1>4, <2>2, <2>3 DEF PlaceInv
  <2>6. ASSUME NEW x \in Workers
        PROVE  /\ Distinct(private_queue'[x]) /\ Private(x)' \cap pool' = {}
               /\ \A y \in Workers : y # x => Private(y)' \cap Private(x)' = {}
    BY <1>4, <2>2 DEF PlaceInv
  <2>7. QED
    BY <2>4, <2>5, <2>6 DEF PlaceInv
<1>5. QED
  BY <1>3, <1>4

LEMMA PlaceStep ==
    ASSUME BaseInv, [Next]_vars
    PROVE  PlaceInv'
<1> USE ContextFacts DEF BaseInv
<1>1. pc \in [Contexts -> Labels] /\ job \in [Contexts -> Owners]
  BY DEF TypeInv, ContextTypes
<1>2. ASSUME NEW w \in Workers, WorkerStep(w) PROVE PlaceInv'
  <2> DEFINE s == Self(w)
  <2>1. /\ s \in Contexts
        /\ s \in Tasks => pc[s] \in {"none", "queued", "done"} \cup Executing
    BY SelfFacts DEF LabelInv
  <2>2. CASE Create(w)
    BY <2>2, PlaceCreate
  <2>3. CASE PushInline(w) \/ Execute(w)
    <3>1. job[s] \in Tasks /\ pc[job[s]] = "queued" /\ job[s] # s /\ pc[s] \in {"push", "execute"}
      BY <2>3, HandFacts DEF PushInline, Execute, At
    <3>2. PICK l \in Suspended : Run(w, job[s], l)
      BY <2>3 DEF PushInline, Execute, Suspended
    <3>3. /\ job' = [job EXCEPT ![s] = NoTask] /\ pool' = pool /\ private_queue' = private_queue
          /\ pc' = [pc EXCEPT ![job[s]] = "run", ![s] = l]
      BY <2>3, <3>2 DEF PushInline, Execute, Run, queueVars
    <3>4. pc'[job[s]] # "queued" /\ \A u \in Tasks : u # job[s] => (pc'[u] = "queued" <=> pc[u] = "queued")
      BY <1>1, <2>1, <3>1, <3>3 DEF Suspended
    <3>5. QED
      BY <2>1, <3>1, <3>3, <3>4, PlacePut
  <2>4. CASE PushPolicy(w) \/ \E v \in Workers : PushPrivate(w, v)
    <3>1. job[s] \in Tasks /\ pc[job[s]] = "queued" /\ job[s] # s /\ pc[s] = "push"
      BY <2>4, HandFacts DEF PushPolicy, PushPrivate, At
    <3>2. job' = [job EXCEPT ![s] = NoTask] /\ pc' = [pc EXCEPT ![s] = "pushed"]
      BY <2>4 DEF PushPolicy, PushPrivate, Goto
    <3>3. \A u \in Tasks : pc'[u] = "queued" <=> pc[u] = "queued"
      BY <1>1, <2>1, <3>1, <3>2
    <3>4. \/ /\ pool' = pool \cup {job[s]} /\ private_queue' = private_queue
          \/ /\ pool' = pool
             /\ \E v \in Workers : private_queue' = [private_queue EXCEPT ![v] = Append(@, job[s])]
      BY <2>4 DEF PushPolicy, PushPrivate
    <3>5. QED
      BY <2>1, <3>1, <3>2, <3>3, <3>4, PlacePut
  <2>5. CASE PopPrivate(w) \/ PopPolicy(w)
    <3>1. pc[s] \in {"private_pop", "policy_pop"} /\ pc' = [pc EXCEPT ![s] = "popped"]
      BY <2>5 DEF PopPrivate, PopPolicy, At, Goto
    <3>2. job[s] = NoTask
      BY <2>1, <3>1 DEF LabelInv
    <3>3. \A u \in Tasks : pc'[u] = "queued" <=> pc[u] = "queued"
      BY <1>1, <2>1, <3>1
    <3>4. PICK t : /\ job' = [job EXCEPT ![s] = t]
                   /\ \/ /\ t \in pool /\ pool' = pool \ {t} /\ private_queue' = private_queue
                      \/ /\ pool' = pool
                         /\ \E v \in Workers : /\ private_queue[v] # <<>> /\ t = Head(private_queue[v])
                                               /\ private_queue' = [private_queue EXCEPT ![v] = Tail(@)]
      BY <2>5 DEF PopPrivate, PopPolicy
    <3>5. t \in Tasks
      BY <3>4 DEF TypeInv, QueueTypes
    <3>6. QED
      BY <2>1, <3>2, <3>3, <3>4, <3>5, PlaceTake
  <2>6. ASSUME NEW l \in Labels, MovesTo(w, l), UNCHANGED queueVars, UNCHANGED job PROVE PlaceInv'
    <3>1. <<pc[s], l>> \in Moves /\ pc' = [pc EXCEPT ![s] = l]
      BY <2>6 DEF MovesTo
    <3>2. pc[s] # "queued" /\ l # "queued"
      BY <3>1 DEF Moves
    <3>3. \A u \in Tasks : pc'[u] = "queued" <=> pc[u] = "queued"
      BY <1>1, <2>1, <3>1, <3>2
    <3>4. QED
      BY <2>6, <3>3, PlacesKept
  <2>7. CASE ReduceAdd(w)
    BY <2>7, PlacesKept DEF ReduceAdd
  <2>8. QED
    BY <1>2, <2>2, <2>3, <2>4, <2>5, <2>6, <2>7, WorkerMoves, WorkerFrames
<1>3. CASE DestroyStep
  <2>1. /\ Main \notin Tasks /\ UNCHANGED queueVars /\ UNCHANGED job
        /\ \E l \in ShutLabels : pc' = [pc EXCEPT ![Main] = l]
    BY <1>3, DestroyMoves DEF shutdownFrame
  <2>2. \A t \in Tasks : pc'[t] = pc[t]
    BY <1>1, <2>1
  <2>3. QED
    BY <2>1, <2>2, PlacesKept
<1>4. CASE UNCHANGED vars
  BY <1>4, PlacesKept DEF vars
<1>5. QED
  BY <1>2, <1>3, <1>4 DEF Next, Down
-----------------------------------------------------------------------------
(* Theorems *)

LEMMA BaseInit ==
    ASSUME Init
    PROVE  BaseInv
<1> USE ContextFacts DEF Init
<1>1. /\ \A t \in Tasks : pc[t] = "none"
      /\ \A w \in Workers : pc[Base(w)] = IF w = 0 THEN "run" ELSE "private_pop"
      /\ \A c \in Contexts : pc[c] \in {"none", "run", "private_pop"}
  BY DEF Main
<1>2. TypeInv
  <2>1. TaskTypes /\ StackTypes /\ TwcTypes
    BY BoundsAssumption DEF TaskTypes, StackTypes, TwcTypes
  <2>2. QueueTypes
    BY BoundsAssumption DEF QueueTypes
  <2>3. GlobalTypes
    BY BoundsAssumption DEF GlobalTypes
  <2>4. ContextTypes
    <3>1. pc \in [Contexts -> Labels] /\ job \in [Contexts -> Owners]
      BY DEF Labels
    <3>2. ZeroScan \in [i : 0 .. NumWorkers, sum : Nat]
      BY WorkersAssumption DEF ZeroScan
    <3>3. QED
      BY <3>1, <3>2 DEF ContextTypes
  <2>5. QED
    BY <2>1, <2>2, <2>3, <2>4 DEF TypeInv
<1>3. LabelInv
  <2>1. \A t \in Tasks : t >= g_tasks_uidc
    BY BoundsAssumption DEF Tasks
  <2>2. QED
    BY <1>1, <2>1 DEF LabelInv, UserLabels, LoopLabels, WorkLabels
<1>4. ScanInv
  BY <1>1, WorkersAssumption DEF ScanInv, ZeroScan, Main
<1>5. StackInv
  BY <1>1 DEF StackInv, On, Executing, UserLabels, WorkLabels
<1>6. PlaceInv
  BY <1>1 DEF PlaceInv, Private, Elements, Distinct
<1>7. QED
  BY <1>2, <1>3, <1>4, <1>5, <1>6 DEF BaseInv

LEMMA BaseStep ==
    ASSUME BaseInv, [Next]_vars
    PROVE  BaseInv'
BY TypeStep, LabelStep, ScanStep, StackStep, PlaceStep DEF BaseInv

\* Types, labels, stacks and places, in every reachable state.
THEOREM BaseInvariant == Spec => []BaseInv
<1>1. Init => BaseInv
  BY BaseInit
<1>2. BaseInv /\ [Next]_vars => BaseInv'
  BY BaseStep
<1>3. QED
  BY <1>1, <1>2, PTL DEF Spec

\* What the stacks look like from one task in execution.
LEMMA BaseStacks ==
    ASSUME BaseInv
    PROVE  StacksAreSeparate
<1> USE ContextFacts DEF BaseInv
<1>1. /\ Created \subseteq Tasks /\ Active \subseteq Tasks
      /\ \A t \in Tasks : t \in Active <=> pc[t] \in Executing
  BY BoundsAssumption DEF TypeInv, TaskTypes, Created, Active, Tasks, LabelInv, Executing,
     UserLabels, WorkLabels
<1>2. ASSUME NEW t \in Active
      PROVE  Cardinality({w \in Workers : current_task[w] = t})
                 + Cardinality({u \in Active : predecessor[u] = t}) = 1
  <2> DEFINE C == {w \in Workers : current_task[w] = t}
             L == {u \in Active : predecessor[u] = t}
  <2>1. t \in Tasks /\ pc[t] \in Executing /\ L = {u \in Tasks : On(u, t)}
    BY <1>1, <1>2 DEF On
  <2> SUFFICES Cardinality(C) + Cardinality(L) = 1
    OBVIOUS
  <2>2. CASE \E w \in Workers : current_task[w] = t
    <3>1. PICK w \in Workers : current_task[w] = t
      BY <2>2
    <3>2. C = {w} /\ L = {}
      BY <2>1, <3>1 DEF StackInv
    <3> HIDE DEF C, L
    <3>3. Cardinality(C) + Cardinality(L) = Cardinality({w}) + Cardinality({})
      BY <3>2
    <3>4. Cardinality({w}) = 1
      BY FS_Singleton
    <3>5. QED
      BY <3>3, <3>4, FS_EmptySet
  <2>3. CASE ~\E w \in Workers : current_task[w] = t
    <3>1. PICK u \in Tasks : On(u, t)
      BY <2>1, <2>3 DEF StackInv
    <3>2. C = {} /\ L = {u}
      BY <2>1, <2>3, <3>1 DEF StackInv
    <3> HIDE DEF C, L
    <3>3. Cardinality(C) + Cardinality(L) = Cardinality({}) + Cardinality({u})
      BY <3>2
    <3>4. QED
      BY <3>3, FS_EmptySet, FS_Singleton
  <2>4. QED
    BY <2>2, <2>3
<1>3. QED
  BY <1>2 DEF StacksAreSeparate

\* The tasks in execution form one stack per worker: ending a task brings its worker
\* back to the context it suspended (mir_task_execute, mir_task_execute_epilog).
THEOREM StacksSeparate == Spec => []StacksAreSeparate
BY BaseInvariant, BaseStacks, PTL

\* The places of a task, counted.
LEMMA BasePlaces ==
    ASSUME BaseInv
    PROVE  TaskInOnePlace
<1> USE ContextFacts DEF BaseInv
<1>1. Created \subseteq Tasks
  BY BoundsAssumption DEF TypeInv, TaskTypes, Created, Tasks
<1> SUFFICES ASSUME NEW t \in Created
             PROVE  LET H == {c \in Contexts : job[c] = t}
                        Q == {w \in Workers : \E i \in DOMAIN private_queue[w] :
                                                  private_queue[w][i] = t}
                    IN  Cardinality(H) + Cardinality(Q) + (IF t \in pool THEN 1 ELSE 0)
                            = (IF pc[t] = "queued" THEN 1 ELSE 0)
  BY DEF TaskInOnePlace
<1> DEFINE H == {c \in Contexts : job[c] = t}
           Q == {w \in Workers : \E i \in DOMAIN private_queue[w] : private_queue[w][i] = t}
<1> SUFFICES Cardinality(H) + Cardinality(Q) + (IF t \in pool THEN 1 ELSE 0)
                 = (IF pc[t] = "queued" THEN 1 ELSE 0)
  OBVIOUS
<1>2. t \in Tasks /\ Q = {w \in Workers : t \in Private(w)}
  BY <1>1 DEF Private, Elements
<1>3. Cardinality({}) = 0 /\ \A x : Cardinality({x}) = 1
  BY FS_EmptySet, FS_Singleton
<1>4. CASE t \in pool
  <2>1. H = {} /\ Q = {} /\ pc[t] = "queued"
    BY <1>2, <1>4 DEF PlaceInv
  <2> HIDE DEF H, Q
  <2>2. QED
    BY <1>3, <1>4, <2>1
<1>5. CASE t \notin pool /\ \E c \in Contexts : job[c] = t
  <2>1. PICK c \in Contexts : job[c] = t
    BY <1>5
  <2>2. H = {c} /\ Q = {} /\ pc[t] = "queued"
    BY <1>2, <2>1 DEF PlaceInv
  <2> HIDE DEF H, Q
  <2>3. Cardinality(H) = 1 /\ Cardinality(Q) = 0
    BY <1>3, <2>2
  <2>4. QED
    BY <1>5, <2>2, <2>3
<1>6. CASE \E w \in Workers : t \in Private(w)
  <2>1. PICK w \in Workers : t \in Private(w)
    BY <1>6
  <2>2. H = {} /\ Q = {w} /\ pc[t] = "queued" /\ t \notin pool
    BY <1>2, <2>1 DEF PlaceInv
  <2> HIDE DEF H, Q
  <2>3. Cardinality(H) = 0 /\ Cardinality(Q) = 1
    BY <1>3, <2>2
  <2>4. QED
    BY <2>2, <2>3
<1>7. CASE t \notin pool /\ ~(\E c \in Contexts : job[c] = t) /\ ~(\E w \in Workers : t \in Private(w))
  <2>1. H = {} /\ Q = {} /\ pc[t] # "queued"
    BY <1>2, <1>7 DEF PlaceInv
  <2> HIDE DEF H, Q
  <2>2. QED
    BY <1>3, <1>7, <2>1
<1>8. QED
  BY <1>4, <1>5, <1>6, <1>7

\* A created task is in hand, queued once, or no longer queued: none is lost between a
\* queue and a worker, and none runs twice (mir_task_schedule, mir_worker_do_work).
THEOREM TaskPlaces == Spec => []TaskInOnePlace
BY BaseInvariant, BasePlaces, PTL
-----------------------------------------------------------------------------
(* Waits                                                                   *)
(*                                                                         *)
(* The children of a counter are of two kinds: those created since its     *)
(* last pass, which it counts, and older ones, which are done.  The cells  *)
(* of the counter count the completed children of the first kind by the    *)
(* worker that completed them.  Nothing in the state says which worker     *)
(* that was, so the invariant says that some assignment of tasks to        *)
(* workers fits every cell.                                                *)

\* The context that owns a counter, and the pass its children wait for: between
\* the two halves of mir_twc_reduce's end the old one.
Ctx(k) == IF k = NoTask THEN Main ELSE k
epoch(k) == IF pc[Ctx(k)] = "reset" THEN num_passes[k] - 1 ELSE num_passes[k]
Fresh(k) == {t \in Children(k) : born[t] = epoch(k)}
Stale(k) == {t \in Children(k) : born[t] < epoch(k)}

WaitLabels == WorkLabels \cup {"reduce", "pass", "reset"}

BornInv ==
    /\ \A t \in Tasks : /\ t >= g_tasks_uidc => born[t] = 0
                        /\ pc[t] \notin {"epilog", "done"} => sync_pass[t] = 0
    /\ \A t \in Created :
            /\ parent[t] < t
            /\ born[t] <= epoch(parent[t])
            /\ pc[t] # "done" => born[t] = epoch(parent[t])
            /\ pc[t] \in {"epilog", "done"} => sync_pass[t] = born[t]

CountInv ==
    \A k \in Owners :
        /\ count[k] = Cardinality(Fresh(k))
        /\ 0 <= epoch(k) /\ epoch(k) <= Cardinality(Stale(k))
        /\ pc[Ctx(k)] \in WaitLabels => count[k] > 0
        /\ pc[Ctx(k)] \in {"pass", "reset"} => \A t \in Children(k) : pc[t] = "done"

\* The counted children of k that a worker of S has completed, if e says which
\* worker completed a task; and what the cells and a scan under way have of them.
DoneOn(k, S, e) == {t \in Fresh(k) : pc[t] = "done" /\ e[t] \in S}
CellInv(e) ==
    \A k \in Owners :
        /\ \A w \in Workers : count_per_worker[k][w] = Cardinality(DoneOn(k, {w}, e))
        /\ scan[Ctx(k)].sum <= Cardinality(DoneOn(k, 0 .. scan[Ctx(k)].i - 1, e))

WaitInv == BornInv /\ CountInv /\ \E e \in [Tasks -> Workers] : CellInv(e)
-----------------------------------------------------------------------------
(* Sets of tasks *)

\* A set of tasks is finite, and no larger than the tasks there are.
LEMMA TaskSets ==
    ASSUME NEW S \in SUBSET Tasks
    PROVE  IsFiniteSet(S) /\ Cardinality(S) \in Nat /\ Cardinality(S) <= MaxTasks
<1>1. IsFiniteSet(Tasks) /\ Cardinality(Tasks) = MaxTasks
  BY BoundsAssumption, FS_Interval DEF Tasks
<1>2. IsFiniteSet(S) /\ Cardinality(S) <= MaxTasks
  BY <1>1, FS_Subset
<1>3. QED
  BY <1>2, FS_CardinalityType

\* A subset as large as the whole is the whole.
LEMMA TaskSubsets ==
    ASSUME NEW S \in SUBSET Tasks, NEW T \in SUBSET S
    PROVE  /\ Cardinality(T) <= Cardinality(S)
           /\ Cardinality(T) >= Cardinality(S) => S = T
<1>1. IsFiniteSet(S) /\ Cardinality(S) \in Nat /\ Cardinality(T) \in Nat
  BY TaskSets
<1>2. Cardinality(T) <= Cardinality(S) /\ (Cardinality(S) = Cardinality(T) => S = T)
  BY <1>1, FS_Subset
<1>3. QED
  BY <1>1, <1>2

LEMMA TaskSetAdds ==
    ASSUME NEW S \in SUBSET Tasks, NEW t, t \notin S
    PROVE  Cardinality(S \cup {t}) = Cardinality(S) + 1
BY TaskSets, FS_AddElement

LEMMA TaskSetUnion ==
    ASSUME NEW S \in SUBSET Tasks, NEW T \in SUBSET Tasks, S \cap T = {}
    PROVE  Cardinality(S \cup T) = Cardinality(S) + Cardinality(T)
<1>1. IsFiniteSet(S) /\ IsFiniteSet(T) /\ Cardinality(S) \in Nat /\ Cardinality(T) \in Nat
  BY TaskSets
<1>2. Cardinality(S \cup T) = Cardinality(S) + Cardinality(T) - Cardinality(S \cap T)
  BY <1>1, FS_Union
<1>3. Cardinality(S \cap T) = 0
  BY FS_EmptySet
<1>4. QED
  BY <1>1, <1>2, <1>3
-----------------------------------------------------------------------------
(* Counters and contexts *)

\* What the sets of children are.
LEMMA ChildFacts ==
    ASSUME TypeInv
    PROVE  /\ Created \subseteq Tasks
           /\ \A t \in Created : parent[t] \in Owners /\ born[t] \in Nat /\ t \in Children(parent[t])
           /\ \A k \in Owners :
                  /\ Ctx(k) \in Contexts /\ epoch(k) \in Int /\ num_passes[k] \in Nat /\ count[k] \in Nat
                  /\ Children(k) \in SUBSET Tasks /\ Fresh(k) \in SUBSET Tasks
                  /\ Stale(k) \in SUBSET Tasks
<1>1. Created \subseteq Tasks
  BY BoundsAssumption DEF TypeInv, TaskTypes, Created, Tasks
<1>2. \A t \in Created : parent[t] \in Owners /\ born[t] \in Nat /\ t \in Children(parent[t])
  BY <1>1 DEF TypeInv, TaskTypes, Children
<1>3. ASSUME NEW k \in Owners
      PROVE  /\ Ctx(k) \in Contexts /\ epoch(k) \in Int /\ num_passes[k] \in Nat /\ count[k] \in Nat
             /\ Children(k) \in SUBSET Tasks /\ Fresh(k) \in SUBSET Tasks /\ Stale(k) \in SUBSET Tasks
  <2>1. Ctx(k) \in Contexts
    BY ContextFacts DEF Ctx, Main
  <2>2. epoch(k) \in Int /\ num_passes[k] \in Nat /\ count[k] \in Nat
    BY DEF epoch, TypeInv, TwcTypes
  <2>3. Children(k) \in SUBSET Tasks
    BY <1>1 DEF Children
  <2>4. QED
    BY <2>1, <2>2, <2>3 DEF Fresh, Stale
<1>4. QED
  BY <1>1, <1>2, <1>3

\* Only user code has a counter, and it is the counter of its context.
LEMMA OwnCounter ==
    ASSUME TypeInv, LabelInv, NEW w \in Workers,
           pc[Self(w)] \in Executing \ WorkLabels \/ current_task[w] # NoTask \/ w = 0
    PROVE  Ctx(current_task[w]) = Self(w) /\ current_task[w] \in Owners
<1>1. CASE current_task[w] # NoTask
  BY <1>1, SelfFacts, ContextFacts DEF Ctx
<1>2. CASE current_task[w] = NoTask
  <2>1. Self(w) = Base(w) /\ w = 0
    BY <1>2, SelfFacts, ContextFacts
       DEF LabelInv, LoopLabels, Executing, UserLabels, WorkLabels
  <2>2. QED
    BY <1>2, <2>1, ContextFacts DEF Ctx, Main
<1>3. QED
  BY <1>1, <1>2

\* A step in the context of a counter is a step of the worker that runs it.
LEMMA SelfCounter ==
    ASSUME TypeInv, LabelInv, NEW w \in Workers, NEW k \in Owners, Ctx(k) = Self(w)
    PROVE  /\ k = current_task[w]
           /\ pc[Self(w)] \notin LoopLabels \ WorkLabels
<1>1. k = current_task[w] /\ (current_task[w] = NoTask => w = 0)
  BY SelfFacts, ContextFacts DEF Ctx, Main
<1>2. pc[Self(w)] \notin LoopLabels \ WorkLabels
  BY <1>1, SelfFacts, ContextFacts
     DEF LabelInv, LoopLabels, Executing, UserLabels, WorkLabels, ShutLabels
<1>3. QED
  BY <1>1, <1>2
-----------------------------------------------------------------------------
(* When a wait may end *)

\* A scan never finds more completed children than there are to wait for.
LEMMA ScanBound ==
    ASSUME TypeInv, CountInv, NEW e \in [Tasks -> Workers], CellInv(e), NEW k \in Owners
    PROVE  scan[Ctx(k)].sum <= count[k]
<1> DEFINE D == DoneOn(k, 0 .. scan[Ctx(k)].i - 1, e)
<1>1. D \in SUBSET Fresh(k) /\ Fresh(k) \in SUBSET Tasks
  BY ChildFacts DEF DoneOn
<1>2. Cardinality(D) <= Cardinality(Fresh(k)) /\ D \in SUBSET Tasks
  BY <1>1, TaskSubsets
<1>3. Cardinality(D) \in Nat /\ Cardinality(Fresh(k)) \in Nat
  BY <1>1, <1>2, TaskSets
<1>4. scan[Ctx(k)].sum \in Nat
  BY ChildFacts DEF TypeInv, ContextTypes
<1>5. scan[Ctx(k)].sum <= Cardinality(D) /\ count[k] = Cardinality(Fresh(k))
  BY DEF CellInv, CountInv
<1> HIDE DEF D
<1>6. QED
  BY <1>2, <1>3, <1>4, <1>5

\* A full scan that finds as many means that every child ever created is done.
LEMMA FullScan ==
    ASSUME TypeInv, BornInv, CountInv, NEW e \in [Tasks -> Workers], CellInv(e), NEW k \in Owners,
           scan[Ctx(k)].sum >= count[k]
    PROVE  \A t \in Children(k) : pc[t] = "done"
<1> DEFINE D == DoneOn(k, 0 .. scan[Ctx(k)].i - 1, e)
<1>1. D \in SUBSET Fresh(k) /\ Fresh(k) \in SUBSET Tasks /\ D \in SUBSET Tasks
  BY ChildFacts DEF DoneOn
<1>2. Cardinality(D) \in Nat /\ Cardinality(Fresh(k)) \in Nat /\ scan[Ctx(k)].sum \in Nat
  BY <1>1, TaskSets, ChildFacts DEF TypeInv, ContextTypes
<1>3. scan[Ctx(k)].sum <= Cardinality(D) /\ count[k] = Cardinality(Fresh(k))
  BY DEF CellInv, CountInv
<1>4. D = Fresh(k)
  <2> HIDE DEF D
  <2>1. Cardinality(D) >= Cardinality(Fresh(k))
    BY <1>2, <1>3
  <2>2. QED
    BY <1>1, <2>1, TaskSubsets
<1>5. ASSUME NEW t \in Children(k), pc[t] # "done" PROVE FALSE
  <2>1. t \in Fresh(k)
    BY <1>5 DEF Fresh, Children, BornInv
  <2>2. pc[t] = "done"
    BY <1>4, <2>1 DEF DoneOn
  <2>3. QED
    BY <1>5, <2>2
<1>6. QED
  BY <1>5
-----------------------------------------------------------------------------
(* Steps that leave the counters alone *)

\* What a step keeps when no epoch moves and no task is created.
LEMMA FamilyKept ==
    ASSUME BaseInv, BornInv, CountInv,
           UNCHANGED taskVars, count' = count,
           \A k \in Owners : epoch(k)' = epoch(k),
           \A t \in Tasks : pc[t] = "done" => pc'[t] = "done",
           \A t \in Tasks : IF pc'[t] \in {"epilog", "done"}
                            THEN t \in Created => sync_pass'[t] = born[t]
                            ELSE sync_pass'[t] = 0,
           \A k \in Owners : pc'[Ctx(k)] \in WaitLabels => pc[Ctx(k)] \in WaitLabels \/ count[k] > 0,
           \A k \in Owners : pc'[Ctx(k)] \in {"pass", "reset"} =>
                pc[Ctx(k)] \in {"pass", "reset"} \/ \A t \in Children(k) : pc[t] = "done"
    PROVE  /\ (BornInv /\ CountInv)'
           /\ \A k \in Owners : Children(k)' = Children(k) /\ Fresh(k)' = Fresh(k)
<1>1. /\ g_tasks_uidc' = g_tasks_uidc /\ parent' = parent /\ born' = born
      /\ Created \subseteq Tasks /\ Created' = Created
  BY ChildFacts DEF taskVars, BaseInv, Created
<1>2. \A k \in Owners : Children(k)' = Children(k)
  BY <1>1 DEF Children
<1>3. \A k \in Owners : Fresh(k)' = Fresh(k) /\ Stale(k)' = Stale(k)
  BY <1>1, <1>2 DEF Fresh, Stale
<1>4. BornInv'
  <2>1. \A t \in Tasks : /\ t >= g_tasks_uidc' => born'[t] = 0
                         /\ pc'[t] \notin {"epilog", "done"} => sync_pass'[t] = 0
    BY <1>1 DEF BornInv
  <2>2. ASSUME NEW t \in Created
        PROVE  /\ parent'[t] < t
               /\ born'[t] <= epoch(parent[t])'
               /\ pc'[t] # "done" => born'[t] = epoch(parent[t])'
               /\ pc'[t] \in {"epilog", "done"} => sync_pass'[t] = born'[t]
    <3>1. parent[t] \in Owners
      BY ChildFacts DEF BaseInv
    <3> DEFINE k == parent[t]
    <3>2. epoch(k)' = epoch(k)
      <4>1. PICK j \in Owners : j = parent[t]
        BY <3>1
      <4>2. epoch(j)' = epoch(j)
        OBVIOUS
      <4>3. QED
        BY <1>1, <4>1, <4>2 DEF epoch
    <3>3. QED
      BY <1>1, <3>2 DEF BornInv
  <2>3. QED
    BY <1>1, <2>1, <2>2 DEF BornInv
<1>5. CountInv'
  <2>1. ASSUME NEW k \in Owners
        PROVE  /\ count'[k] = Cardinality(Fresh(k)')
               /\ 0 <= epoch(k)' /\ epoch(k)' <= Cardinality(Stale(k)')
               /\ pc'[Ctx(k)] \in WaitLabels => count'[k] > 0
    BY <1>3 DEF CountInv
  <2>2. ASSUME NEW k \in Owners, pc'[Ctx(k)] \in {"pass", "reset"}, NEW t \in Children(k)
        PROVE  pc'[t] = "done"
    <3>1. pc[t] = "done"
      BY <2>2 DEF CountInv
    <3>2. QED
      BY <1>1, <3>1 DEF Children
  <2>3. QED
    BY <1>2, <2>1, <2>2 DEF CountInv, Ctx
<1>6. QED
  BY <1>2, <1>3, <1>4, <1>5

\* A counter whose family and whose cells a step leaves alone.
LEMMA CellsKept ==
    ASSUME TypeInv, NEW e \in [Tasks -> Workers], CellInv(e), count_per_worker' = count_per_worker,
           \A k \in Owners : Fresh(k)' = Fresh(k),
           \A k \in Owners : \A t \in Fresh(k) : pc'[t] = "done" <=> pc[t] = "done",
           \A k \in Owners : scan'[Ctx(k)] = scan[Ctx(k)] \/ scan'[Ctx(k)].sum = 0
    PROVE  CellInv(e)'
<1>1. ASSUME NEW k \in Owners, NEW S
      PROVE  {t \in Fresh(k)' : pc'[t] = "done" /\ e[t] \in S} = DoneOn(k, S, e)
  BY DEF DoneOn
<1>2. ASSUME NEW k \in Owners, NEW w \in Workers
      PROVE  count_per_worker'[k][w] = Cardinality(DoneOn(k, {w}, e)')
  <2>1. DoneOn(k, {w}, e)' = DoneOn(k, {w}, e)
    BY <1>1 DEF DoneOn
  <2>2. QED
    BY <2>1 DEF CellInv
<1>3. ASSUME NEW k \in Owners
      PROVE  scan'[Ctx(k)].sum <= Cardinality(DoneOn(k, 0 .. scan[Ctx(k)].i - 1, e)')
  <2> DEFINE S == 0 .. scan[Ctx(k)].i - 1
  <2>1. DoneOn(k, S, e)' = {t \in Fresh(k)' : pc'[t] = "done" /\ e[t] \in S'}
    BY DEF DoneOn
  <2>2. CASE scan'[Ctx(k)] = scan[Ctx(k)]
    <3>1. S' = S
      BY <2>2 DEF Ctx, Main, Base
    <3>2. DoneOn(k, S, e)' = DoneOn(k, S, e)
      BY <1>1, <2>1, <3>1
    <3>3. QED
      BY <2>2, <3>2 DEF CellInv
  <2>3. CASE scan'[Ctx(k)].sum = 0
    <3>1. DoneOn(k, S, e)' \in SUBSET Fresh(k) /\ Fresh(k) \in SUBSET Tasks
      BY <2>1, ChildFacts
    <3>2. Cardinality(DoneOn(k, S, e)') \in Nat
      BY <3>1, TaskSets
    <3>3. QED
      BY <2>3, <3>2
  <2>4. QED
    BY <2>2, <2>3
<1>4. QED
  BY <1>2, <1>3 DEF CellInv, Ctx
-----------------------------------------------------------------------------
(* Steps *)

LEMMA EpochKept ==
    ASSUME NEW k \in Owners, num_passes' = num_passes,
           pc'[Ctx(k)] = "reset" <=> pc[Ctx(k)] = "reset"
    PROVE  epoch(k)' = epoch(k)
BY DEF epoch, Ctx

\* A context that moves while the counters rest.
LEMMA QuietMove ==
    ASSUME BaseInv, WaitInv, NEW w \in Workers, NEW l \in Labels, MovesTo(w, l),
           UNCHANGED <<taskVars, sync_pass, twcVars>>,
           l \notin {"epilog", "done", "reset"}, pc[Self(w)] # "reset",
           l = "pass" => \A t \in Children(current_task[w]) : pc[t] = "done",
           pc[Self(w)] = "run" => count[current_task[w]] > 0
    PROVE  WaitInv'
<1> USE DEF BaseInv, WaitInv
<1>1. /\ <<pc[Self(w)], l>> \in Moves /\ pc' = [pc EXCEPT ![Self(w)] = l] /\ Self(w) \in Contexts
      /\ scan' = scan \/ scan' = [scan EXCEPT ![Self(w)] = ZeroScan]
      /\ pc[Self(w)] \notin {"epilog", "done"}
  <2>1. <<pc[Self(w)], l>> \in Moves /\ pc' = [pc EXCEPT ![Self(w)] = l]
        /\ (scan' = scan \/ scan' = [scan EXCEPT ![Self(w)] = ZeroScan])
    BY DEF MovesTo
  <2>2. pc[Self(w)] \notin {"epilog", "done"}
    BY <2>1 DEF Moves
  <2>3. QED
    BY <2>1, <2>2, SelfFacts
<1>2. /\ pc'[Self(w)] = l /\ \A c \in Contexts : c # Self(w) => pc'[c] = pc[c]
      /\ \A c \in Contexts : scan'[c] = scan[c] \/ scan'[c].sum = 0
  BY <1>1 DEF TypeInv, ContextTypes, ZeroScan
<1>3. \A k \in Owners : Ctx(k) \in Contexts
  BY ChildFacts
<1>4. num_passes' = num_passes /\ count' = count /\ count_per_worker' = count_per_worker
  BY DEF twcVars
<1>5. ASSUME NEW k \in Owners PROVE epoch(k)' = epoch(k)
  BY <1>2, <1>3, <1>4, EpochKept
<1>6. \A t \in Tasks : pc'[t] \in {"epilog", "done"} <=> pc[t] \in {"epilog", "done"}
  BY <1>1, <1>2, ContextFacts
<1>7. \A t \in Tasks : pc'[t] = "done" <=> pc[t] = "done"
  BY <1>1, <1>2, ContextFacts
<1>8. \A t \in Tasks : IF pc'[t] \in {"epilog", "done"}
                       THEN t \in Created => sync_pass'[t] = born[t]
                       ELSE sync_pass'[t] = 0
  BY <1>6 DEF BornInv
<1>9. ASSUME NEW k \in Owners, Ctx(k) = Self(w), l \in WaitLabels
      PROVE  pc[Ctx(k)] \in WaitLabels \/ count[k] > 0
  BY <1>1, <1>9, SelfCounter DEF Moves, WaitLabels, WorkLabels, LoopLabels
<1>10. ASSUME NEW k \in Owners, Ctx(k) = Self(w), l \in {"pass", "reset"}
       PROVE  \A t \in Children(k) : pc[t] = "done"
  BY <1>10, SelfCounter
<1>11. /\ (BornInv /\ CountInv)'
       /\ \A k \in Owners : Children(k)' = Children(k) /\ Fresh(k)' = Fresh(k)
  BY <1>2, <1>3, <1>4, <1>5, <1>7, <1>8, <1>9, <1>10, FamilyKept
<1>12. \A k \in Owners : Fresh(k) \subseteq Tasks
  BY ChildFacts
<1>13. PICK e \in [Tasks -> Workers] : CellInv(e)
  OBVIOUS
<1>14. CellInv(e)'
  BY <1>2, <1>3, <1>4, <1>7, <1>11, <1>12, <1>13, CellsKept
<1>15. QED
  BY <1>11, <1>14

\* A task begins to run, or mir_destroy goes on.
LEMMA QuietRun ==
    ASSUME BaseInv, WaitInv, UNCHANGED <<taskVars, sync_pass, twcVars>>,
           \A t \in Tasks : pc'[t] \in {"epilog", "done"} <=> pc[t] \in {"epilog", "done"},
           \A t \in Tasks : pc'[t] = "done" <=> pc[t] = "done",
           \A k \in Owners : pc'[Ctx(k)] = "reset" <=> pc[Ctx(k)] = "reset",
           \A k \in Owners : pc'[Ctx(k)] = "pass" => pc[Ctx(k)] = "pass",
           \A k \in Owners : pc'[Ctx(k)] \in WaitLabels => pc[Ctx(k)] \in WaitLabels,
           \A k \in Owners : scan'[Ctx(k)] = scan[Ctx(k)] \/ scan'[Ctx(k)].sum = 0
    PROVE  WaitInv'
<1> USE DEF BaseInv, WaitInv
<1>1. num_passes' = num_passes /\ count' = count /\ count_per_worker' = count_per_worker
  BY DEF twcVars
<1>2. \A k \in Owners : epoch(k)' = epoch(k)
  BY <1>1, EpochKept
<1>3. \A t \in Tasks : IF pc'[t] \in {"epilog", "done"}
                       THEN t \in Created => sync_pass'[t] = born[t]
                       ELSE sync_pass'[t] = 0
  BY DEF BornInv
<1>4. /\ (BornInv /\ CountInv)'
      /\ \A k \in Owners : Children(k)' = Children(k) /\ Fresh(k)' = Fresh(k)
  BY <1>1, <1>2, <1>3, FamilyKept
<1>5. \A k \in Owners : Fresh(k) \subseteq Tasks
  BY ChildFacts
<1>6. PICK e \in [Tasks -> Workers] : CellInv(e)
  OBVIOUS
<1>7. CellInv(e)'
  BY <1>1, <1>4, <1>5, <1>6, CellsKept
<1>8. QED
  BY <1>4, <1>7

\* What a task in its epilog, or at its end, is.
LEMMA EndingTask ==
    ASSUME BaseInv, WaitInv, NEW w \in Workers, current_task[w] # NoTask
    PROVE  /\ current_task[w] \in Created /\ current_task[w] \in Tasks
           /\ Self(w) = current_task[w] /\ parent[current_task[w]] \in Owners
           /\ pc[Self(w)] \notin {"none", "queued", "done"}
<1> USE DEF BaseInv, WaitInv
<1>1. current_task[w] \in Tasks /\ Self(w) = current_task[w]
  BY SelfFacts
<1>2. pc[current_task[w]] \in Executing
  BY DEF StackInv
<1>3. pc[current_task[w]] \notin {"none", "queued", "done"}
  BY <1>2 DEF Executing, UserLabels, WorkLabels
<1>4. current_task[w] \in Created
  BY <1>1, <1>3 DEF LabelInv, Created, Tasks, TypeInv, TaskTypes
<1>5. QED
  BY <1>1, <1>3, <1>4, ChildFacts

LEMMA EpilogRecordStep ==
    ASSUME BaseInv, WaitInv, NEW w \in Workers, EpilogRecord(w)
    PROVE  WaitInv'
<1> USE DEF BaseInv, WaitInv
<1> DEFINE t == current_task[w]
           k == parent[t]
<1>1. /\ t \in Created /\ t \in Tasks /\ t \in Contexts /\ k \in Owners /\ pc[t] = "run"
      /\ pc' = [pc EXCEPT ![t] = "epilog"]
      /\ sync_pass' = [sync_pass EXCEPT ![t] = num_passes[k]]
      /\ UNCHANGED taskVars /\ UNCHANGED twcVars /\ scan' = scan
  BY EndingTask, ContextFacts DEF EpilogRecord, At, Goto
<1>2. num_passes[k] = born[t]
  <2>1. pc[Ctx(k)] # "reset"
    <3>1. t \in Children(k)
      BY <1>1, ChildFacts
    <3>2. QED
      BY <1>1, <3>1 DEF CountInv
  <2>2. born[t] = epoch(k)
    BY <1>1 DEF BornInv
  <2>3. QED
    BY <2>1, <2>2 DEF epoch
<1> HIDE DEF t, k
<1>3. /\ pc'[t] = "epilog" /\ \A c \in Contexts : c # t => pc'[c] = pc[c]
      /\ \A c \in Tasks : sync_pass'[c] = IF c = t THEN born[t] ELSE sync_pass[c]
  BY <1>1, <1>2 DEF TypeInv, ContextTypes, TaskTypes
<1>4. num_passes' = num_passes /\ count' = count /\ count_per_worker' = count_per_worker
  BY <1>1 DEF twcVars
<1>5. \A j \in Owners : Ctx(j) \in Contexts /\ Fresh(j) \subseteq Tasks
  BY ChildFacts
<1>6. \A j \in Owners : epoch(j)' = epoch(j)
  BY <1>1, <1>3, <1>4, <1>5, EpochKept
<1>7. \A c \in Tasks : pc'[c] = "done" <=> pc[c] = "done"
  BY <1>1, <1>3, ContextFacts
<1>8. \A c \in Tasks : IF pc'[c] \in {"epilog", "done"}
                       THEN c \in Created => sync_pass'[c] = born[c]
                       ELSE sync_pass'[c] = 0
  BY <1>1, <1>3, ContextFacts DEF BornInv
<1>9. "epilog" \notin WaitLabels
  BY DEF WaitLabels, WorkLabels
<1>10. /\ (BornInv /\ CountInv)'
       /\ \A j \in Owners : Children(j)' = Children(j) /\ Fresh(j)' = Fresh(j)
  BY <1>1, <1>3, <1>4, <1>5, <1>6, <1>7, <1>8, <1>9, FamilyKept
<1>11. PICK e \in [Tasks -> Workers] : CellInv(e)
  OBVIOUS
<1>12. CellInv(e)'
  BY <1>1, <1>4, <1>5, <1>7, <1>10, <1>11, CellsKept
<1>13. QED
  BY <1>10, <1>12

LEMMA EpilogSignalStep ==
    ASSUME BaseInv, WaitInv, NEW w \in Workers, EpilogSignal(w)
    PROVE  WaitInv'
<1> USE DEF BaseInv, WaitInv
<1>1. PICK t \in Tasks, k \in Owners :
         /\ t \in Created /\ k = parent[t] /\ pc[t] = "epilog"
         /\ pc' = [pc EXCEPT ![t] = "done"]
         /\ count_per_worker' = [count_per_worker EXCEPT ![k][w] = @ + 1]
  <2>1. current_task[w] # NoTask
    BY SelfFacts DEF EpilogSignal, At, LabelInv, LoopLabels, UserLabels, WorkLabels, ShutLabels
  <2>2. QED
    BY <2>1, EndingTask DEF EpilogSignal, At, Goto
<1>2. /\ UNCHANGED taskVars /\ num_passes' = num_passes /\ count' = count /\ scan' = scan
      /\ sync_pass' = sync_pass
  BY DEF EpilogSignal
<1>3. pc'[t] = "done" /\ \A c \in Contexts : c # t => pc'[c] = pc[c]
  BY <1>1, ContextFacts DEF TypeInv, ContextTypes
<1>4. \A j \in Owners : Ctx(j) \in Contexts /\ Fresh(j) \in SUBSET Tasks /\ Fresh(j) \subseteq Children(j)
  BY ChildFacts DEF Fresh
<1>5. \A j \in Owners : epoch(j)' = epoch(j)
  BY <1>1, <1>2, <1>3, <1>4, EpochKept
<1>6. \A c \in Tasks : /\ c # t => pc'[c] = pc[c]
                       /\ IF pc'[c] \in {"epilog", "done"}
                          THEN c \in Created => sync_pass'[c] = born[c]
                          ELSE sync_pass'[c] = 0
  BY <1>1, <1>2, <1>3, ContextFacts DEF BornInv
<1>7. "done" \notin WaitLabels
  BY DEF WaitLabels, WorkLabels
<1>8. /\ (BornInv /\ CountInv)'
      /\ \A j \in Owners : Children(j)' = Children(j) /\ Fresh(j)' = Fresh(j)
  <2>1. \A c \in Tasks : pc[c] = "done" => pc'[c] = "done"
    BY <1>3, <1>6
  <2>2. QED
    BY <1>2, <1>3, <1>4, <1>5, <1>6, <1>7, <2>1, FamilyKept
<1>9. PICK e \in [Tasks -> Workers] : CellInv(e)
  OBVIOUS
<1> DEFINE f == [e EXCEPT ![t] = w]
<1>10. f \in [Tasks -> Workers] /\ f[t] = w /\ \A c \in Tasks : c # t => f[c] = e[c]
  OBVIOUS
<1> HIDE DEF f
<1>11. t \in Fresh(k) /\ \A j \in Owners : j # k => t \notin Fresh(j)
  BY <1>1 DEF BornInv, Fresh, Children
<1>12. ASSUME NEW j \in Owners, NEW S
       PROVE  DoneOn(j, S, f)' = IF j = k /\ w \in S' THEN DoneOn(j, S', e) \cup {t} ELSE DoneOn(j, S', e)
  <2>1. DoneOn(j, S, f)' = {c \in Fresh(j) : pc'[c] = "done" /\ f[c] \in S'}
    BY <1>8 DEF DoneOn, f
  <2>2. \A c \in Fresh(j) : c \in Tasks
    BY <1>4
  <2>3. QED
    BY <1>1, <1>3, <1>6, <1>10, <1>11, <2>1, <2>2 DEF DoneOn
<1>13. \A j \in Owners : \A S : t \notin DoneOn(j, S, e) /\ DoneOn(j, S, e) \in SUBSET Tasks
  BY <1>1, <1>4 DEF DoneOn
<1>14. ASSUME NEW j \in Owners, NEW v \in Workers
       PROVE  count_per_worker'[j][v] = Cardinality(DoneOn(j, {v}, f)')
  <2>1. count_per_worker[j][v] = Cardinality(DoneOn(j, {v}, e))
    BY <1>9 DEF CellInv
  <2>2. CASE j = k /\ v = w
    <3>1. count_per_worker'[j][v] = count_per_worker[j][v] + 1
      BY <1>1, <2>2 DEF TypeInv, TwcTypes
    <3>2. DoneOn(j, {v}, f)' = DoneOn(j, {v}, e) \cup {t}
      BY <1>12, <2>2
    <3>3. QED
      BY <1>13, <2>1, <3>1, <3>2, TaskSetAdds
  <2>3. CASE ~(j = k /\ v = w)
    <3>1. count_per_worker'[j][v] = count_per_worker[j][v]
      BY <1>1, <2>3 DEF TypeInv, TwcTypes
    <3>2. DoneOn(j, {v}, f)' = DoneOn(j, {v}, e)
      BY <1>12, <2>3
    <3>3. QED
      BY <2>1, <3>1, <3>2
  <2>4. QED
    BY <2>2, <2>3
<1>15. ASSUME NEW j \in Owners
       PROVE  scan'[Ctx(j)].sum <= Cardinality(DoneOn(j, 0 .. scan[Ctx(j)].i - 1, f)')
  <2> DEFINE S == 0 .. scan[Ctx(j)].i - 1
  <2>1. scan[Ctx(j)].sum <= Cardinality(DoneOn(j, S, e)) /\ scan[Ctx(j)].sum \in Nat
    BY <1>4, <1>9 DEF CellInv, TypeInv, ContextTypes
  <2>2. S' = S
    BY <1>2 DEF Ctx, Main, Base
  <2> HIDE DEF S
  <2>3. DoneOn(j, S, f)' = DoneOn(j, S, e) \/ DoneOn(j, S, f)' = DoneOn(j, S, e) \cup {t}
    BY <1>12, <2>2
  <2>4. Cardinality(DoneOn(j, S, e)) \in Nat
    BY <1>13, TaskSets
  <2>5. Cardinality(DoneOn(j, S, e) \cup {t}) = Cardinality(DoneOn(j, S, e)) + 1
    BY <1>13, TaskSetAdds
  <2>6. scan[Ctx(j)].sum <= Cardinality(DoneOn(j, S, f)')
    <3>1. CASE DoneOn(j, S, f)' = DoneOn(j, S, e)
      BY <2>1, <3>1
    <3>2. CASE DoneOn(j, S, f)' = DoneOn(j, S, e) \cup {t}
      <4>1. Cardinality(DoneOn(j, S, f)') = Cardinality(DoneOn(j, S, e)) + 1
        BY <2>5, <3>2
      <4>2. QED
        BY <2>1, <2>4, <4>1
    <3>3. QED
      BY <2>3, <3>1, <3>2
  <2>7. QED
    BY <1>2, <2>6 DEF S
<1>16. CellInv(f)'
  BY <1>14, <1>15 DEF CellInv, Ctx, f
<1>17. QED
  BY <1>8, <1>10, <1>16

LEMMA PassStep ==
    ASSUME BaseInv, WaitInv, NEW w \in Workers, Pass(w)
    PROVE  WaitInv'
<1> USE DEF BaseInv, WaitInv
<1> DEFINE k == current_task[w]
           s == Self(w)
<1>1. /\ k \in Owners /\ Ctx(k) = s /\ s \in Contexts /\ pc[s] = "pass"
      /\ pc' = [pc EXCEPT ![s] = "reset"] /\ num_passes' = [num_passes EXCEPT ![k] = @ + 1]
      /\ UNCHANGED taskVars /\ count' = count /\ count_per_worker' = count_per_worker
      /\ scan' = scan /\ sync_pass' = sync_pass
  BY SelfFacts, OwnCounter DEF Pass, At, Goto, Executing, UserLabels, WorkLabels
<1>2. \A j \in Owners : Ctx(j) = s => j = k
  BY SelfCounter
<1> HIDE DEF k, s
<1>3. /\ pc'[s] = "reset" /\ \A c \in Contexts : c # s => pc'[c] = pc[c]
      /\ num_passes'[k] = num_passes[k] + 1 /\ \A j \in Owners : j # k => num_passes'[j] = num_passes[j]
  BY <1>1 DEF TypeInv, ContextTypes, TwcTypes
<1>4. \A j \in Owners : Ctx(j) \in Contexts /\ Fresh(j) \subseteq Tasks /\ num_passes[j] \in Nat
  BY ChildFacts
<1>5. ASSUME NEW j \in Owners PROVE epoch(j)' = epoch(j)
  <2>1. epoch(j)' = IF pc'[Ctx(j)] = "reset" THEN num_passes'[j] - 1 ELSE num_passes'[j]
    BY DEF epoch, Ctx
  <2>2. CASE j = k
    BY <1>1, <1>3, <1>4, <2>1, <2>2 DEF epoch
  <2>3. CASE j # k
    BY <1>2, <1>3, <1>4, <2>1, <2>3 DEF epoch
  <2>4. QED
    BY <2>2, <2>3
<1>6. \A c \in Tasks : /\ pc'[c] = "done" <=> pc[c] = "done"
                       /\ IF pc'[c] \in {"epilog", "done"}
                          THEN c \in Created => sync_pass'[c] = born[c]
                          ELSE sync_pass'[c] = 0
  BY <1>1, <1>3, ContextFacts DEF BornInv
<1>7. \A j \in Owners : /\ pc'[Ctx(j)] \in WaitLabels => pc[Ctx(j)] \in WaitLabels
                        /\ pc'[Ctx(j)] \in {"pass", "reset"} => pc[Ctx(j)] \in {"pass", "reset"}
  <2>1. "pass" \in WaitLabels
    BY DEF WaitLabels
  <2>2. QED
    BY <1>1, <1>3, <1>4, <2>1
<1>8. /\ (BornInv /\ CountInv)'
      /\ \A j \in Owners : Children(j)' = Children(j) /\ Fresh(j)' = Fresh(j)
  BY <1>1, <1>5, <1>6, <1>7, FamilyKept
<1>9. PICK e \in [Tasks -> Workers] : CellInv(e)
  OBVIOUS
<1>10. CellInv(e)'
  BY <1>1, <1>4, <1>6, <1>8, <1>9, CellsKept
<1>11. QED
  BY <1>8, <1>10

LEMMA ReduceAddStep ==
    ASSUME BaseInv, WaitInv, NEW w \in Workers, ReduceAdd(w)
    PROVE  WaitInv'
<1> USE DEF BaseInv, WaitInv
<1>1. PICK k \in Owners, i \in Workers :
        /\ k = current_task[w] /\ Ctx(k) = Self(w) /\ Ctx(k) \in Contexts
        /\ scan[Ctx(k)].i = i /\ i \in Nat
        /\ scan' = [scan EXCEPT ![Ctx(k)] =
                       [i |-> i + 1, sum |-> scan[Ctx(k)].sum + count_per_worker[k][i]]]
  <2>1. /\ current_task[w] \in Owners /\ Ctx(current_task[w]) = Self(w) /\ Self(w) \in Contexts
    BY SelfFacts, OwnCounter DEF ReduceAdd, At, Executing, UserLabels, WorkLabels
  <2>2. scan[Self(w)].i \in Workers /\ scan[Self(w)].i \in Nat
    BY <2>1, WorkersAssumption DEF ReduceAdd, TypeInv, ContextTypes, Workers
  <2>3. QED
    BY <2>1, <2>2 DEF ReduceAdd
<1>2. /\ UNCHANGED taskVars /\ num_passes' = num_passes /\ count' = count
      /\ count_per_worker' = count_per_worker /\ sync_pass' = sync_pass /\ pc' = pc
  BY DEF ReduceAdd, twcVars
<1>3. \A j \in Owners : epoch(j)' = epoch(j)
  BY <1>2, EpochKept
<1>4. \A c \in Tasks : IF pc'[c] \in {"epilog", "done"}
                       THEN c \in Created => sync_pass'[c] = born[c]
                       ELSE sync_pass'[c] = 0
  BY <1>2 DEF BornInv
<1>5. /\ (BornInv /\ CountInv)'
      /\ \A j \in Owners : Children(j)' = Children(j) /\ Fresh(j)' = Fresh(j)
  BY <1>2, <1>3, <1>4, FamilyKept
<1>6. PICK e \in [Tasks -> Workers] : CellInv(e)
  OBVIOUS
<1>7. \A j \in Owners : \A S : DoneOn(j, S, e) \in SUBSET Tasks
  BY ChildFacts DEF DoneOn
<1>8. ASSUME NEW j \in Owners, NEW S PROVE DoneOn(j, S, e)' = DoneOn(j, S', e)
  <2>1. DoneOn(j, S, e)' = {t \in Fresh(j) : pc'[t] = "done" /\ e[t] \in S'}
    BY <1>5 DEF DoneOn
  <2>2. QED
    BY <1>2, <2>1 DEF DoneOn
<1>9. ASSUME NEW j \in Owners, NEW v \in Workers
      PROVE  count_per_worker'[j][v] = Cardinality(DoneOn(j, {v}, e)')
  <2>1. DoneOn(j, {v}, e)' = DoneOn(j, {v}, e)
    BY <1>8
  <2>2. QED
    BY <1>2, <1>6, <2>1 DEF CellInv
<1>10. ASSUME NEW j \in Owners
       PROVE  scan'[Ctx(j)].sum <= Cardinality(DoneOn(j, 0 .. scan'[Ctx(j)].i - 1, e))
  <2>1. CASE j = k
    <3> DEFINE A == DoneOn(k, 0 .. i - 1, e)
               B == DoneOn(k, {i}, e)
               n == scan[Ctx(k)].sum
    <3>1. n \in Nat /\ n <= Cardinality(A) /\ count_per_worker[k][i] = Cardinality(B)
      BY <1>1, <1>6 DEF CellInv, TypeInv, ContextTypes
    <3>2. DoneOn(k, 0 .. (i + 1) - 1, e) = A \cup B /\ A \cap B = {}
      <4>1. 0 .. (i + 1) - 1 = (0 .. i - 1) \cup {i} /\ i \notin 0 .. i - 1
        BY <1>1
      <4>2. QED
        BY <4>1 DEF DoneOn
    <3>3. A \in SUBSET Tasks /\ B \in SUBSET Tasks
      BY <1>7
    <3>4. scan'[Ctx(j)].i = i + 1 /\ scan'[Ctx(j)].sum = n + count_per_worker[k][i]
      BY <1>1, <2>1 DEF TypeInv, ContextTypes
    <3> HIDE DEF A, B, n
    <3>5. Cardinality(A \cup B) = Cardinality(A) + Cardinality(B)
      BY <3>2, <3>3, TaskSetUnion
    <3>6. Cardinality(A) \in Nat /\ Cardinality(B) \in Nat
      BY <3>3, TaskSets
    <3>7. scan'[Ctx(j)].sum <= Cardinality(A \cup B)
      BY <3>1, <3>4, <3>5, <3>6
    <3>8. QED
      BY <2>1, <3>2, <3>4, <3>7
  <2>2. CASE j # k
    <3>1. Ctx(j) # Ctx(k) /\ Ctx(j) \in Contexts
      BY <1>1, <2>2, SelfCounter, ChildFacts
    <3>2. scan'[Ctx(j)] = scan[Ctx(j)]
      BY <1>1, <3>1 DEF TypeInv, ContextTypes
    <3>3. QED
      BY <1>6, <3>2 DEF CellInv
  <2>3. QED
    BY <2>1, <2>2
<1>11. ASSUME NEW j \in Owners
       PROVE  scan'[Ctx(j)].sum <= Cardinality(DoneOn(j, 0 .. scan[Ctx(j)].i - 1, e)')
  BY <1>8, <1>10 DEF Ctx, Main, Base
<1>12. CellInv(e)'
  BY <1>9, <1>11 DEF CellInv, Ctx
<1>13. QED
  BY <1>5, <1>12

LEMMA ResetStep ==
    ASSUME BaseInv, WaitInv, NEW w \in Workers, Reset(w)
    PROVE  WaitInv'
<1> USE DEF BaseInv, WaitInv
<1>1. PICK k \in Owners, s \in Contexts :
      /\ k = current_task[w] /\ s = Self(w) /\ Ctx(k) = s /\ pc[s] = "reset"
      /\ pc' = [pc EXCEPT ![s] = "run"] /\ count' = [count EXCEPT ![k] = 0]
      /\ count_per_worker' = [count_per_worker EXCEPT ![k] = [v \in Workers |-> 0]]
      /\ UNCHANGED taskVars /\ num_passes' = num_passes
      /\ scan' = scan /\ sync_pass' = sync_pass
  BY SelfFacts, OwnCounter DEF Reset, At, Goto, Executing, UserLabels, WorkLabels
<1>2. \A j \in Owners : Ctx(j) = s => j = k
  BY <1>1, SelfCounter
<1>3. /\ pc'[s] = "run" /\ \A c \in Contexts : c # s => pc'[c] = pc[c]
      /\ count'[k] = 0 /\ \A j \in Owners : j # k => count'[j] = count[j]
  BY <1>1 DEF TypeInv, ContextTypes, TwcTypes
<1>4. \A j \in Owners : /\ Ctx(j) \in Contexts /\ num_passes[j] \in Nat /\ epoch(j) \in Int
                        /\ Fresh(j) \in SUBSET Tasks /\ Stale(j) \in SUBSET Tasks
  BY ChildFacts
<1>5. epoch(k)' = epoch(k) + 1
  <2>1. epoch(k)' = num_passes[k]
    BY <1>1, <1>3 DEF epoch, Ctx
  <2>2. QED
    BY <1>1, <1>4, <2>1 DEF epoch
<1>6. ASSUME NEW j \in Owners, j # k PROVE epoch(j)' = epoch(j)
  BY <1>1, <1>2, <1>3, <1>4, <1>6, EpochKept
<1>7. /\ g_tasks_uidc' = g_tasks_uidc /\ parent' = parent /\ born' = born
      /\ Created \subseteq Tasks /\ Created' = Created
  BY <1>1, ChildFacts DEF taskVars, Created
<1>8. \A j \in Owners : Children(j)' = Children(j)
  BY <1>7 DEF Children
<1>9. \A t \in Children(k) : pc[t] = "done" /\ born[t] <= epoch(k) /\ born[t] \in Nat
  BY <1>1, ChildFacts DEF CountInv, BornInv, Children
<1>10. Fresh(k)' = {}
  <2>1. Fresh(k)' = {t \in Children(k) : born[t] = epoch(k) + 1}
    BY <1>5, <1>7, <1>8, <1>1 DEF Fresh, Children
  <2>2. QED
    BY <1>1, <1>4, <1>9, <2>1
<1>11. Stale(k)' = Children(k) /\ Children(k) = Stale(k) \cup Fresh(k) /\ Stale(k) \cap Fresh(k) = {}
  <2>1. Stale(k)' = {t \in Children(k) : born[t] < epoch(k) + 1}
    BY <1>5, <1>7, <1>8, <1>1 DEF Stale, Children
  <2>2. QED
    BY <1>1, <1>4, <1>9, <2>1 DEF Stale, Fresh
<1>12. \A j \in Owners : j # k => Fresh(j)' = Fresh(j) /\ Stale(j)' = Stale(j)
  BY <1>6, <1>7, <1>8 DEF Fresh, Stale
<1>13. \A c \in Tasks : /\ pc'[c] = "done" <=> pc[c] = "done"
                        /\ pc'[c] \in {"epilog", "done"} <=> pc[c] \in {"epilog", "done"}
  BY <1>1, <1>3, ContextFacts
<1>14. BornInv'
  <2>1. \A t \in Tasks : /\ t >= g_tasks_uidc' => born'[t] = 0
                         /\ pc'[t] \notin {"epilog", "done"} => sync_pass'[t] = 0
    BY <1>1, <1>7, <1>13 DEF BornInv
  <2>2. ASSUME NEW t \in Created, NEW j \in Owners, j = parent[t]
        PROVE  /\ parent'[t] < t
               /\ born'[t] <= epoch(j)'
               /\ pc'[t] # "done" => born'[t] = epoch(j)'
               /\ pc'[t] \in {"epilog", "done"} => sync_pass'[t] = born'[t]
    <3>1. t \in Tasks /\ born[t] \in Nat /\ (j = k => t \in Children(k))
      BY <1>7, <2>2, ChildFacts
    <3>2. parent'[t] < t /\ (pc'[t] \in {"epilog", "done"} => sync_pass'[t] = born'[t])
      BY <1>1, <1>7, <1>13, <3>1 DEF BornInv
    <3>3. CASE j = k
      BY <1>1, <1>4, <1>5, <1>7, <1>9, <1>13, <3>1, <3>2, <3>3
    <3>4. CASE j # k
      BY <1>6, <1>7, <1>13, <2>2, <3>1, <3>2, <3>4 DEF BornInv
    <3>5. QED
      BY <3>3, <3>4
  <2>3. ASSUME NEW t \in Created
        PROVE  /\ parent'[t] < t
               /\ born'[t] <= epoch(parent[t])'
               /\ pc'[t] # "done" => born'[t] = epoch(parent[t])'
               /\ pc'[t] \in {"epilog", "done"} => sync_pass'[t] = born'[t]
    <3>1. PICK j \in Owners : j = parent[t]
      BY ChildFacts
    <3>2. epoch(parent[t])' = epoch(j)'
      BY <1>7, <3>1 DEF epoch
    <3>3. QED
      BY <2>2, <3>1, <3>2
  <2>4. QED
    BY <1>7, <2>1, <2>3 DEF BornInv
<1>15. CountInv'
  <2>1. ASSUME NEW j \in Owners
        PROVE  /\ count'[j] = Cardinality(Fresh(j)')
               /\ 0 <= epoch(j)' /\ epoch(j)' <= Cardinality(Stale(j)')
               /\ pc'[Ctx(j)] \in WaitLabels => count'[j] > 0
    <3>1. CASE j = k
      <4>1. Cardinality({}) = 0 /\ "run" \notin WaitLabels
        BY FS_EmptySet DEF WaitLabels, WorkLabels
      <4>2. /\ Cardinality(Stale(k)) \in Nat /\ Cardinality(Fresh(k)) \in Nat
            /\ Cardinality(Stale(k) \cup Fresh(k)) = Cardinality(Stale(k)) + Cardinality(Fresh(k))
        BY <1>1, <1>4, <1>11, TaskSets, TaskSetUnion
      <4>3. Cardinality(Fresh(k)) > 0 /\ epoch(k) >= 0 /\ epoch(k) <= Cardinality(Stale(k))
        BY <1>1 DEF CountInv, WaitLabels
      <4>4. epoch(k)' <= Cardinality(Stale(k)') /\ 0 <= epoch(k)'
        BY <1>1, <1>4, <1>5, <1>11, <4>2, <4>3
      <4>5. Cardinality(Fresh(k)') = 0 /\ pc'[Ctx(k)] = "run"
        BY <1>1, <1>3, <1>10, <4>1
      <4>6. QED
        BY <1>3, <3>1, <4>1, <4>4, <4>5
    <3>2. CASE j # k
      BY <1>2, <1>3, <1>4, <1>6, <1>12, <3>2 DEF CountInv
    <3>3. QED
      BY <3>1, <3>2
  <2>2. ASSUME NEW j \in Owners, pc'[Ctx(j)] \in {"pass", "reset"}, NEW t \in Children(j)
        PROVE  pc'[t] = "done"
    <3>1. pc[Ctx(j)] \in {"pass", "reset"} /\ t \in Tasks
      BY <1>3, <1>4, <1>7, <2>2 DEF Children
    <3>2. QED
      BY <1>13, <3>1 DEF CountInv
  <2>3. QED
    BY <1>8, <2>1, <2>2 DEF CountInv, Ctx
<1>16. PICK e \in [Tasks -> Workers] : CellInv(e)
  OBVIOUS
<1>17. ASSUME NEW j \in Owners, NEW S
       PROVE  DoneOn(j, S, e)' = IF j = k THEN {} ELSE DoneOn(j, S', e)
  <2>1. DoneOn(j, S, e)' = {t \in Fresh(j)' : pc'[t] = "done" /\ e[t] \in S'}
    BY DEF DoneOn
  <2>2. CASE j = k
    <3>1. DoneOn(j, S, e)' \subseteq Fresh(j)'
      BY <2>1
    <3>2. Fresh(j)' = {}
      BY <1>10, <2>2
    <3>3. QED
      BY <2>2, <3>1, <3>2
  <2>3. CASE j # k
    <3>1. Fresh(j)' = Fresh(j) /\ Fresh(j) \subseteq Tasks
      BY <1>4, <1>12, <2>3
    <3>2. QED
      BY <1>13, <2>1, <2>3, <3>1 DEF DoneOn
  <2>4. QED
    BY <2>2, <2>3
<1>18. ASSUME NEW j \in Owners, NEW v \in Workers
       PROVE  count_per_worker'[j][v] = Cardinality(DoneOn(j, {v}, e)')
  <2>1. CASE j = k
    <3>1. count_per_worker'[j][v] = 0
      BY <1>1, <2>1 DEF TypeInv, TwcTypes
    <3>2. DoneOn(j, {v}, e)' = {}
      BY <1>17, <2>1
    <3>3. QED
      BY <3>1, <3>2, FS_EmptySet
  <2>2. CASE j # k
    <3>1. count_per_worker'[j][v] = count_per_worker[j][v]
      BY <1>1, <2>2 DEF TypeInv, TwcTypes
    <3>2. DoneOn(j, {v}, e)' = DoneOn(j, {v}, e)
      BY <1>17, <2>2
    <3>3. QED
      BY <1>16, <3>1, <3>2 DEF CellInv
  <2>3. QED
    BY <2>1, <2>2
<1>19. ASSUME NEW j \in Owners
       PROVE  scan'[Ctx(j)].sum <= Cardinality(DoneOn(j, 0 .. scan[Ctx(j)].i - 1, e)')
  <2> DEFINE S == 0 .. scan[Ctx(j)].i - 1
  <2>1. S' = S
    BY <1>1 DEF Ctx, Main, Base
  <2>2. scan[Ctx(j)].sum <= Cardinality(DoneOn(j, S, e))
    BY <1>16 DEF CellInv
  <2> HIDE DEF S
  <2>3. scan'[Ctx(j)].sum <= Cardinality(DoneOn(j, S, e)')
    <3>1. CASE j = k
      <4>1. scan'[Ctx(j)].sum = 0
        BY <1>1, <3>1 DEF ScanInv
      <4>2. DoneOn(j, S, e)' = {}
        BY <1>17, <3>1
      <4>3. QED
        BY <4>1, <4>2, FS_EmptySet
    <3>2. CASE j # k
      <4>1. DoneOn(j, S, e)' = DoneOn(j, S, e)
        BY <1>17, <2>1, <3>2
      <4>2. QED
        BY <1>1, <2>2, <4>1
    <3>3. QED
      BY <3>1, <3>2
  <2>4. QED
    BY <2>3 DEF S
<1>20. CellInv(e)'
  BY <1>18, <1>19 DEF CellInv, Ctx
<1>21. QED
  BY <1>14, <1>15, <1>20

LEMMA CreateStep ==
    ASSUME BaseInv, WaitInv, NEW w \in Workers, Create(w)
    PROVE  WaitInv'
<1> USE DEF BaseInv, WaitInv
<1>1. PICK t \in Tasks, k \in Owners, s \in Contexts :
        /\ t = g_tasks_uidc /\ k = current_task[w] /\ s = Self(w) /\ Ctx(k) = s
        /\ pc[s] = "run" /\ pc[t] = "none" /\ s # t
        /\ pc' = [pc EXCEPT ![t] = "queued", ![s] = "push"]
        /\ g_tasks_uidc' = t + 1 /\ parent' = [parent EXCEPT ![t] = k]
        /\ born' = [born EXCEPT ![t] = num_passes[k]] /\ count' = [count EXCEPT ![k] = @ + 1]
        /\ count_per_worker' = count_per_worker /\ num_passes' = num_passes
        /\ scan' = scan /\ sync_pass' = sync_pass
  <2>1. g_tasks_uidc \in Tasks /\ pc[g_tasks_uidc] = "none" /\ pc[Self(w)] = "run"
    BY BoundsAssumption DEF Create, At, TypeInv, TaskTypes, Tasks, LabelInv
  <2>2. /\ current_task[w] \in Owners /\ Ctx(current_task[w]) = Self(w) /\ Self(w) \in Contexts
    BY <2>1, SelfFacts, OwnCounter DEF Executing, UserLabels, WorkLabels
  <2>3. QED
    BY <2>1, <2>2 DEF Create
<1>2. k < t
  <2>1. CASE k = NoTask
    BY <1>1, <2>1 DEF NoTask, Tasks
  <2>2. CASE k # NoTask
    BY <1>1, <2>2, EndingTask DEF Created, TypeInv, TaskTypes
  <2>3. QED
    BY <2>1, <2>2
<1>3. /\ pc'[t] = "queued" /\ pc'[s] = "push" /\ \A c \in Contexts : c # s /\ c # t => pc'[c] = pc[c]
      /\ count'[k] = count[k] + 1 /\ \A j \in Owners : j # k => count'[j] = count[j]
      /\ parent'[t] = k /\ born'[t] = num_passes[k]
      /\ \A u \in Tasks : u # t => parent'[u] = parent[u] /\ born'[u] = born[u]
  BY <1>1, ContextFacts DEF TypeInv, ContextTypes, TwcTypes, TaskTypes
<1>4. /\ Created \subseteq Tasks /\ t \notin Created /\ Created' = Created \cup {t}
  BY <1>1, ChildFacts DEF Created, Tasks
<1>5. \A j \in Owners : /\ Ctx(j) \in Contexts /\ num_passes[j] \in Nat /\ epoch(j) \in Int
                        /\ count[j] \in Nat
                        /\ Fresh(j) \in SUBSET Tasks /\ Stale(j) \in SUBSET Tasks
  BY ChildFacts
<1>6. ASSUME NEW j \in Owners PROVE epoch(j)' = epoch(j)
  BY <1>1, <1>3, <1>5, EpochKept
<1>7. epoch(k) = num_passes[k]
  BY <1>1 DEF epoch
<1>8. ASSUME NEW j \in Owners
      PROVE  Children(j)' = IF j = k THEN Children(j) \cup {t} ELSE Children(j)
  BY <1>3, <1>4 DEF Children
<1>9. ASSUME NEW j \in Owners
      PROVE  /\ Fresh(j)' = IF j = k THEN Fresh(j) \cup {t} ELSE Fresh(j)
             /\ t \notin Fresh(j) /\ Stale(j)' = Stale(j)
  <2>1. \A u \in Children(j) : u # t /\ born'[u] = born[u]
    BY <1>3, <1>4 DEF Children
  <2>2. CASE j = k
    BY <1>3, <1>5, <1>6, <1>7, <1>8, <2>1, <2>2 DEF Fresh, Stale
  <2>3. CASE j # k
    BY <1>6, <1>8, <2>1, <2>3 DEF Fresh, Stale
  <2>4. QED
    BY <2>2, <2>3
<1>10. \A c \in Tasks : pc'[c] \in {"epilog", "done"} \/ pc[c] \in {"epilog", "done"} => pc'[c] = pc[c]
  BY <1>1, <1>3, ContextFacts
<1>11. BornInv'
  <2>1. ASSUME NEW u \in Tasks
        PROVE  /\ u >= t + 1 => born'[u] = 0
               /\ pc'[u] \notin {"epilog", "done"} => sync_pass'[u] = 0
    <3>1. u >= t + 1 => u # t /\ u >= t
      BY <1>1 DEF Tasks
    <3>2. u >= t + 1 => born'[u] = 0
      BY <1>1, <1>3, <3>1 DEF BornInv
    <3>3. pc'[u] \notin {"epilog", "done"} => pc[u] \notin {"epilog", "done"}
      BY <1>10
    <3>4. QED
      BY <1>1, <3>2, <3>3 DEF BornInv
  <2>2. ASSUME NEW u \in Created, NEW j \in Owners, j = parent[u]
        PROVE  /\ parent'[u] = j /\ j < u
               /\ born'[u] <= epoch(j)'
               /\ pc'[u] # "done" => born'[u] = epoch(j)'
               /\ pc'[u] \in {"epilog", "done"} => sync_pass'[u] = born'[u]
    BY <1>1, <1>3, <1>4, <1>6, <1>10, <2>2 DEF BornInv
  <2>3. /\ parent'[t] = k /\ k < t /\ born'[t] = epoch(k)' /\ pc'[t] = "queued"
    BY <1>2, <1>3, <1>6, <1>7
  <2>4. ASSUME NEW u \in Created'
        PROVE  /\ parent'[u] < u
               /\ born'[u] <= epoch(parent[u])'
               /\ pc'[u] # "done" => born'[u] = epoch(parent[u])'
               /\ pc'[u] \in {"epilog", "done"} => sync_pass'[u] = born'[u]
    <3>1. PICK j \in Owners : /\ parent'[u] = j /\ j < u
                              /\ born'[u] <= epoch(j)'
                              /\ pc'[u] # "done" => born'[u] = epoch(j)'
                              /\ pc'[u] \in {"epilog", "done"} => sync_pass'[u] = born'[u]
      <4>1. CASE u = t
        BY <1>5, <1>6, <2>3, <4>1
      <4>2. CASE u # t
        BY <1>4, <2>2, <2>4, <4>2, ChildFacts
      <4>3. QED
        BY <4>1, <4>2
    <3>2. epoch(parent[u])' = epoch(j)'
      BY <3>1 DEF epoch
    <3>3. QED
      BY <3>1, <3>2
  <2>5. QED
    BY <1>1, <2>1, <2>4 DEF BornInv
<1>12. CountInv'
  <2>1. "push" \notin WaitLabels /\ "queued" \notin WaitLabels /\ {"pass", "reset"} \subseteq WaitLabels
    BY DEF WaitLabels, WorkLabels
  <2>2. ASSUME NEW j \in Owners
        PROVE  /\ count'[j] = Cardinality(Fresh(j)')
               /\ 0 <= epoch(j)' /\ epoch(j)' <= Cardinality(Stale(j)')
    <3>1. 0 <= epoch(j)' /\ epoch(j)' <= Cardinality(Stale(j)') /\ count[j] = Cardinality(Fresh(j))
      BY <1>6, <1>9 DEF CountInv
    <3>2. CASE j = k
      <4>1. Cardinality(Fresh(j)') = Cardinality(Fresh(j)) + 1
        BY <1>5, <1>9, <3>2, TaskSetAdds
      <4>2. QED
        BY <1>3, <3>1, <3>2, <4>1
    <3>3. CASE j # k
      BY <1>3, <1>9, <3>1, <3>3
    <3>4. QED
      BY <3>1, <3>2, <3>3
  <2>3. ASSUME NEW j \in Owners, pc'[Ctx(j)] \in WaitLabels
        PROVE  pc'[Ctx(j)] = pc[Ctx(j)] /\ j # k
    <3>1. Ctx(j) # s /\ Ctx(j) # t /\ Ctx(j) \in Contexts
      BY <1>3, <1>5, <2>1, <2>3
    <3>2. QED
      BY <1>1, <1>3, <3>1
  <2>4. ASSUME NEW j \in Owners, pc'[Ctx(j)] \in WaitLabels PROVE count'[j] > 0
    BY <1>3, <2>3, <2>4 DEF CountInv
  <2>5. ASSUME NEW j \in Owners, pc'[Ctx(j)] \in {"pass", "reset"}, NEW u \in Children(j)'
        PROVE  pc'[u] = "done"
    <3>1. j # k /\ pc[Ctx(j)] \in {"pass", "reset"}
      BY <2>1, <2>3, <2>5
    <3>2. u \in Children(j) /\ u \in Tasks
      BY <1>4, <1>8, <2>5, <3>1 DEF Children
    <3>3. QED
      BY <1>10, <3>1, <3>2 DEF CountInv
  <2>6. QED
    BY <2>2, <2>4, <2>5 DEF CountInv, Ctx
<1>13. PICK e \in [Tasks -> Workers] : CellInv(e)
  OBVIOUS
<1>14. ASSUME NEW j \in Owners, NEW S PROVE DoneOn(j, S, e)' = DoneOn(j, S', e)
  <2>1. DoneOn(j, S, e)' = {u \in Fresh(j)' : pc'[u] = "done" /\ e[u] \in S'}
    BY DEF DoneOn
  <2>2. \A u \in Fresh(j) : pc'[u] = "done" <=> pc[u] = "done"
    BY <1>5, <1>10
  <2>3. QED
    BY <1>3, <1>9, <2>1, <2>2 DEF DoneOn
<1>15. ASSUME NEW j \in Owners, NEW v \in Workers
       PROVE  count_per_worker'[j][v] = Cardinality(DoneOn(j, {v}, e)')
  <2>1. DoneOn(j, {v}, e)' = DoneOn(j, {v}, e)
    BY <1>14
  <2>2. QED
    BY <1>1, <1>13, <2>1 DEF CellInv
<1>16. ASSUME NEW j \in Owners
       PROVE  scan'[Ctx(j)].sum <= Cardinality(DoneOn(j, 0 .. scan[Ctx(j)].i - 1, e)')
  <2>1. DoneOn(j, 0 .. scan[Ctx(j)].i - 1, e)' = DoneOn(j, 0 .. scan[Ctx(j)].i - 1, e)
    BY <1>1, <1>14 DEF Ctx, Main, Base
  <2>2. QED
    BY <1>1, <1>13, <2>1 DEF CellInv
<1>17. CellInv(e)'
  BY <1>15, <1>16 DEF CellInv, Ctx
<1>18. QED
  BY <1>11, <1>12, <1>17

LEMMA WaitStep ==
    ASSUME BaseInv, WaitInv, [Next]_vars
    PROVE  WaitInv'
<1> USE DEF BaseInv
<1>1. \A k \in Owners : Ctx(k) \in Contexts
  BY ChildFacts
<1>2. ASSUME NEW w \in Workers, WorkerStep(w) PROVE WaitInv'
  <2>1. CASE Create(w)
    BY <2>1, CreateStep
  <2>2. CASE EpilogRecord(w)
    BY <2>2, EpilogRecordStep
  <2>3. CASE EpilogSignal(w)
    BY <2>3, EpilogSignalStep
  <2>4. CASE ReduceAdd(w)
    BY <2>4, ReduceAddStep
  <2>5. CASE Pass(w)
    BY <2>5, PassStep
  <2>6. CASE Reset(w)
    BY <2>6, ResetStep
  <2>7. CASE PushInline(w) \/ Execute(w)
    <3>1. /\ job[Self(w)] \in Tasks /\ pc[job[Self(w)]] = "queued" /\ job[Self(w)] # Self(w)
          /\ pc[Self(w)] \in {"push", "execute"} /\ Self(w) \in Contexts
      BY <2>7, HandFacts, SelfFacts DEF PushInline, Execute, At
    <3>2. PICK l \in Suspended : /\ Run(w, job[Self(w)], l)
                                 /\ l = "executed" => pc[Self(w)] = "execute"
      BY <2>7 DEF PushInline, Execute, Suspended, At
    <3>3. UNCHANGED <<taskVars, sync_pass, twcVars>> /\ scan' = scan
      BY <2>7 DEF PushInline, Execute
    <3>4. \A c \in Contexts : \/ pc'[c] = pc[c]
                              \/ pc[c] = "queued" /\ pc'[c] = "run"
                              \/ pc[c] \in {"push", "execute"} /\ pc'[c] = "run"
                              \/ pc[c] = "execute" /\ pc'[c] = "executed"
      BY <3>1, <3>2, ContextFacts DEF Run, Suspended, TypeInv, ContextTypes
    <3>5. "run" \notin WaitLabels /\ "execute" \in WaitLabels
      BY DEF WaitLabels, WorkLabels
    <3>6. QED
      BY <1>1, <3>3, <3>4, <3>5, ContextFacts, QuietRun
  <2>8. ASSUME ~Create(w), ~EpilogRecord(w), ~EpilogSignal(w), ~ReduceAdd(w), ~Pass(w), ~Reset(w),
               ~PushInline(w), ~Execute(w)
        PROVE  WaitInv'
    <3>1. PICK l \in Labels : MovesTo(w, l)
      BY <1>2, <2>8, WorkerMoves
    <3>2. UNCHANGED <<taskVars, sync_pass, twcVars>>
      BY <1>2, <2>8, WorkerFrames
    <3>3. CASE Wait(w)
      <4>1. pc[Self(w)] = "run" /\ count[current_task[w]] > 0 /\ pc' = [pc EXCEPT ![Self(w)] = "reduce"]
        BY <3>3 DEF Wait, At, Goto
      <4>2. l = "reduce"
        BY <3>1, <4>1, SelfFacts DEF MovesTo, TypeInv, ContextTypes
      <4>3. QED
        BY <3>1, <3>2, <4>1, <4>2, QuietMove
    <3>4. CASE ReduceDecide(w)
      <4>1. /\ pc[Self(w)] = "reduce" /\ scan[Self(w)].i = NumWorkers
            /\ pc' = [pc EXCEPT ![Self(w)] =
                   IF scan[Self(w)].sum < count[current_task[w]] THEN "private_pop" ELSE "pass"]
        BY <3>4 DEF ReduceDecide, At, Goto
      <4>2. l = IF scan[Self(w)].sum < count[current_task[w]] THEN "private_pop" ELSE "pass"
        BY <3>1, <4>1, SelfFacts DEF MovesTo, TypeInv, ContextTypes
      <4>3. Ctx(current_task[w]) = Self(w) /\ current_task[w] \in Owners
        BY <4>1, OwnCounter DEF Executing, UserLabels, WorkLabels
      <4>4. scan[Self(w)].sum \in Nat /\ count[current_task[w]] \in Nat
        BY <4>3, ChildFacts DEF TypeInv, ContextTypes
      <4>5. l = "pass" => \A t \in Children(current_task[w]) : pc[t] = "done"
        <5>1. PICK e \in [Tasks -> Workers] : CellInv(e)
          BY DEF WaitInv
        <5>2. QED
          BY <4>2, <4>3, <4>4, <5>1, FullScan DEF WaitInv
      <4>6. QED
        BY <3>1, <3>2, <4>1, <4>2, <4>5, QuietMove
    <3>5. CASE ~Wait(w) /\ ~ReduceDecide(w)
      <4>1. pc[Self(w)] \in {"push", "pushed", "private_pop", "policy_pop", "popped", "executed",
                             "check_dying", "dying", "signal_dead"}
        BY <1>2, <2>8, <3>5 DEF WorkerStep, PushPolicy, CountPush, PushPrivate, PopPrivate,
           NoPrivateTask, PopPolicy, NoTaskFound, CountPop, Executed, CheckDying, Die, SignalDead, At
      <4>2. l \notin {"epilog", "done", "reset", "pass"} /\ pc[Self(w)] \notin {"reset", "run"}
        BY <3>1, <4>1 DEF MovesTo, Moves
      <4>3. QED
        BY <3>1, <3>2, <4>2, QuietMove
    <3>6. QED
      BY <3>3, <3>4, <3>5
  <2>9. QED
    BY <2>1, <2>2, <2>3, <2>4, <2>5, <2>6, <2>7, <2>8
<1>3. CASE DestroyStep
  <2>1. /\ Main \in Contexts /\ Main \notin Tasks /\ UNCHANGED <<taskVars, sync_pass, twcVars>>
        /\ pc[Main] \in {"run"} \cup ShutLabels
        /\ \E l \in ShutLabels : pc' = [pc EXCEPT ![Main] = l]
    BY <1>3, DestroyMoves DEF shutdownFrame, Destroy
  <2>2. ShutLabels \cap WaitLabels = {} /\ {"pass", "reset"} \subseteq WaitLabels
    BY DEF ShutLabels, WaitLabels, WorkLabels
  <2>3. /\ pc'[Main] \notin WaitLabels /\ pc[Main] # "reset"
        /\ \A c \in Contexts : c # Main => pc'[c] = pc[c]
    BY <2>1, <2>2 DEF TypeInv, ContextTypes, ShutLabels
  <2>4. \A k \in Owners : Ctx(k) = Main \/ pc'[Ctx(k)] = pc[Ctx(k)]
    BY <1>1, <2>3
  <2>5. PICK e \in [Tasks -> Workers] : CellInv(e)
    BY DEF WaitInv
  <2>6. UNCHANGED taskVars /\ UNCHANGED twcVars /\ sync_pass' = sync_pass
    BY <2>1
  <2>7. num_passes' = num_passes /\ count' = count /\ count_per_worker' = count_per_worker
    BY <2>6 DEF twcVars
  <2>8. \A k \in Owners : epoch(k)' = epoch(k)
    BY <2>2, <2>3, <2>4, <2>7, EpochKept
  <2>9. \A t \in Tasks : pc'[t] = pc[t]
    BY <2>1, <2>3, ContextFacts
  <2>10. /\ (BornInv /\ CountInv)'
         /\ \A k \in Owners : Children(k)' = Children(k) /\ Fresh(k)' = Fresh(k)
    <3>1. \A t \in Tasks : IF pc'[t] \in {"epilog", "done"}
                       THEN t \in Created => sync_pass'[t] = born[t]
                       ELSE sync_pass'[t] = 0
      BY <2>6, <2>9 DEF WaitInv, BornInv
    <3>2. QED
      BY <2>2, <2>3, <2>4, <2>6, <2>7, <2>8, <2>9, <3>1, FamilyKept DEF WaitInv
  <2>11. \A k \in Owners : Fresh(k) \subseteq Tasks
    BY ChildFacts
  <2>12. \A k \in Owners : scan'[Ctx(k)] = scan[Ctx(k)] \/ scan'[Ctx(k)].sum = 0
    <3>1. CASE Announce \/ Unlock
      <4>1. scan[Main].sum = 0 /\ scan[Main] \in [i : 0 .. NumWorkers, sum : Nat]
        BY <2>1, <3>1 DEF Announce, Unlock, ScanInv, TypeInv, ContextTypes
      <4>2. \E j : scan' = [scan EXCEPT ![Main].i = j]
        BY <3>1 DEF Announce, Unlock, ForEachWorker
      <4>3. \A j : [scan[Main] EXCEPT !.i = j] = [i |-> j, sum |-> 0]
        BY <4>1
      <4>4. PICK j : scan' = [scan EXCEPT ![Main] = [i |-> j, sum |-> 0]]
        BY <4>2, <4>3
      <4>5. QED
        BY <1>1, <2>1, <4>4 DEF TypeInv, ContextTypes
    <3>2. CASE Destroy \/ CheckDone \/ Assert \/ Kill \/ WaitDead
      BY <3>2 DEF Destroy, CheckDone, CheckStep, Assert, Kill, WaitDead
    <3>3. QED
      BY <1>3, <3>1, <3>2 DEF DestroyStep
  <2>13. CellInv(e)'
    BY <2>5, <2>7, <2>9, <2>10, <2>11, <2>12, CellsKept
  <2>14. QED
    BY <2>5, <2>10, <2>13 DEF WaitInv
<1>4. CASE UNCHANGED vars
  BY <1>4, QuietRun DEF vars
<1>5. QED
  BY <1>2, <1>3, <1>4 DEF Next, Down
-----------------------------------------------------------------------------
(* Theorems *)

LEMMA WaitInit ==
    ASSUME Init
    PROVE  WaitInv
<1> USE ContextFacts DEF Init
<1>1. TypeInv
  BY BaseInit DEF BaseInv
<1>2. Created = {} /\ \A k \in Owners : Children(k) = {}
  BY DEF Created, Children
<1>3. \A k \in Owners : Fresh(k) = {} /\ Stale(k) = {}
  BY <1>2 DEF Fresh, Stale
<1>4. \A k \in Owners : Ctx(k) \in Contexts /\ pc[Ctx(k)] \in {"none", "run"}
  BY DEF Ctx, Main
<1>5. \A k \in Owners : epoch(k) = 0
  BY <1>4 DEF epoch
<1>6. BornInv
  BY <1>2 DEF BornInv
<1>7. CountInv
  <2>1. \A k \in Owners : count[k] = 0 /\ pc[Ctx(k)] \notin WaitLabels
    BY <1>4 DEF WaitLabels, WorkLabels
  <2>2. "pass" \in WaitLabels /\ "reset" \in WaitLabels
    BY DEF WaitLabels
  <2>3. ASSUME NEW k \in Owners
        PROVE  count[k] = Cardinality(Fresh(k)) /\ 0 <= epoch(k) /\ epoch(k) <= Cardinality(Stale(k))
    <3>1. Fresh(k) = {} /\ Stale(k) = {} /\ epoch(k) = 0 /\ count[k] = 0
      BY <1>3, <1>5, <2>1
    <3>2. Cardinality(Fresh(k)) = 0 /\ Cardinality(Stale(k)) = 0
      BY <3>1, FS_EmptySet
    <3>3. QED
      BY <3>1, <3>2
  <2>4. QED
    BY <1>2, <2>1, <2>2, <2>3 DEF CountInv
<1> DEFINE e == [t \in Tasks |-> 0]
<1>8. CellInv(e)
  <2>1. \A k \in Owners : \A S : DoneOn(k, S, e) = {}
    BY <1>3 DEF DoneOn
  <2>2. \A k \in Owners : scan[Ctx(k)].sum = 0
    BY <1>4 DEF ZeroScan
  <2>3. \A k \in Owners, w \in Workers : count_per_worker[k][w] = 0
    OBVIOUS
  <2> HIDE DEF e, Init
  <2>4. \A k \in Owners : \A S : Cardinality(DoneOn(k, S, e)) = 0
    BY <2>1, FS_EmptySet
  <2>5. QED
    BY <2>2, <2>3, <2>4 DEF CellInv
<1>9. e \in [Tasks -> Workers]
  OBVIOUS
<1>10. QED
  BY <1>6, <1>7, <1>8, <1>9 DEF WaitInv

\* The cells of a wait counter count the completions of the children that its owner
\* has not waited for, in every reachable state.
THEOREM WaitInvariant == Spec => []WaitInv
<1>1. Init => WaitInv
  BY WaitInit
<1>2. BaseInv /\ WaitInv /\ [Next]_vars => WaitInv'
  BY WaitStep
<1>3. QED
  BY <1>1, <1>2, BaseInvariant, PTL DEF Spec

LEMMA WaitSafety ==
    ASSUME BaseInv, WaitInv
    PROVE  WaitCoversChildren /\ ReduceAssertHolds /\ SyncPointIsNextWait
<1> USE DEF BaseInv, WaitInv
<1>1. WaitCoversChildren
  <2>1. ASSUME NEW w \in Workers, At(w, "pass") \/ At(w, "reset"), NEW t \in Children(current_task[w])
        PROVE  pc[t] = "done"
    <3>1. pc[Self(w)] \in {"pass", "reset"}
      BY <2>1 DEF At
    <3>2. Ctx(current_task[w]) = Self(w) /\ current_task[w] \in Owners
      BY <3>1, OwnCounter DEF Executing, UserLabels, WorkLabels
    <3>3. QED
      BY <2>1, <3>1, <3>2 DEF CountInv
  <2>2. QED
    BY <2>1 DEF WaitCoversChildren
<1>2. ReduceAssertHolds
  <2>1. ASSUME NEW c \in Contexts, pc[c] = "reduce"
        PROVE  scan[c].sum <= count[IF c \in Tasks THEN c ELSE NoTask]
    <3> DEFINE k == IF c \in Tasks THEN c ELSE NoTask
    <3>1. c \in Tasks \/ c = Main
      <4>1. "reduce" \notin LoopLabels
        BY DEF LoopLabels, WorkLabels
      <4>2. QED
        BY <2>1, <4>1, ContextFacts DEF LabelInv, Main
    <3>2. k \in Owners /\ Ctx(k) = c
      BY <3>1, ContextFacts DEF Ctx, Main
    <3>3. PICK e \in [Tasks -> Workers] : CellInv(e)
      OBVIOUS
    <3> HIDE DEF k
    <3>4. scan[c].sum <= count[k]
      BY <3>2, <3>3, ScanBound
    <3>5. QED
      BY <3>4 DEF k
  <2>2. QED
    BY <2>1 DEF ReduceAssertHolds
<1>3. SyncPointIsNextWait
  BY DEF SyncPointIsNextWait, BornInv
<1>4. QED
  BY <1>1, <1>2, <1>3

\* mir_task_wait comes to an end only when every task its context has created is done,
\* epilog included, on whatever workers they ran.
THEOREM WaitIsComplete == Spec => []WaitCoversChildren
BY BaseInvariant, WaitInvariant, WaitSafety, PTL

\* The assertion in mir_twc_reduce holds in every execution, structured or not.
THEOREM ReduceAssertion == Spec => []ReduceAssertHolds
BY BaseInvariant, WaitInvariant, WaitSafety, PTL

\* A task records the pass that its creator's next wait makes, whatever worker ran it.
THEOREM SyncPoints == Spec => []SyncPointIsNextWait
BY BaseInvariant, WaitInvariant, WaitSafety, PTL
-----------------------------------------------------------------------------
(***************************************************************************)
(* The end of a run: the two global counters that mir_destroy reads, the   *)
(* handshake with the dying workers, and what is left when the signal to   *)
(* die is out.                                                             *)
(*                                                                         *)
(* The counters are lowered and raised around the queues, not with them,   *)
(* so the invariant counts the contexts that stand in between.  That       *)
(* mir_destroy finds nothing left is true of structured programs only: in  *)
(* them a task that has ended has no child that has not.                   *)
(***************************************************************************)

AtLabel(l) == {c \in Contexts : pc[c] = l}
CounterInv ==
    /\ g_num_tasks_waiting =
          (Cardinality(Queued) + Cardinality(AtLabel("popped")) - Cardinality(AtLabel("pushed"))) % Word
    /\ g_worker_status_board = Cardinality(AtLabel("executed"))

\* The workers that have not told mir_destroy that they are dead.
Living == {w \in Workers \ {0} : pc[Base(w)] # "dead"}
DeathInv ==
    IF pc[Main] \in {"unlock", "wait_dead", "down"}
    THEN g_sig_worker_alive = Cardinality(Living)
    ELSE /\ g_sig_worker_alive = 0 /\ sig_die = Workers
         /\ \A w \in Workers : pc[Base(w)] \notin {"signal_dead", "dead"}

\* Past the loop of mir_worker_check_done.
CheckedLabels == {"assert_1", "assert_2", "announce", "kill", "unlock", "wait_dead", "down"}
StructInv == Structured =>
    /\ \A t \in Created : pc[t] \in {"epilog", "done"} => \A u \in Children(t) : pc[u] = "done"
    /\ pc[Main] \in ShutLabels => \A t \in Created : pc[t] = "done"
    /\ pc[Main] \in CheckedLabels => g_worker_status_board = 0
    /\ sig_dying # {} => pc[Main] \in CheckedLabels \ {"assert_1", "assert_2"}
-----------------------------------------------------------------------------
(* Arithmetic and finite sets *)

LEMMA ContextsFinite ==
    /\ IsFiniteSet(Contexts) /\ IsFiniteSet(Workers) /\ Cardinality(Workers) = NumWorkers
<1>1. IsFiniteSet(Workers) /\ Cardinality(Workers) = NumWorkers
  BY WorkersAssumption, FS_Interval DEF Workers
<1> DEFINE S == -NumWorkers .. MaxTasks
<1>2. IsFiniteSet(S)
  BY WorkersAssumption, BoundsAssumption, FS_Interval
<1>3. Contexts \subseteq S
  BY WorkersAssumption, BoundsAssumption DEF Contexts, Tasks, Base, Workers
<1>4. IsFiniteSet(Contexts)
  BY <1>2, <1>3, FS_Subset
<1>5. QED
  BY <1>1, <1>4

LEMMA ModUnique ==
    ASSUME NEW W \in Nat \ {0}, NEW q \in Int, NEW r \in 0 .. W - 1, NEW a \in Int, a = W * q + r
    PROVE  a % W = r
OBVIOUS

LEMMA ModDef ==
    ASSUME NEW W \in Nat \ {0}, NEW a \in Int
    PROVE  a = W * (a \div W) + (a % W) /\ a \div W \in Int
OBVIOUS

\* A counter that wraps and is changed by one counts like one that does not.
LEMMA WrapStep ==
    ASSUME NEW N \in Int, NEW W \in Nat \ {0}, NEW d \in {-1, 1}
    PROVE  ((N % W) + d) % W = (N + d) % W
<1> DEFINE r == N % W
           q == N \div W
           p == (r + d) \div W
           s == (r + d) % W
<1>1. r \in 0 .. W - 1 /\ r + d \in Int
  OBVIOUS
<1>2. N = W * q + r /\ q \in Int
  BY ModDef
<1>3. r + d = W * p + ((r + d) % W) /\ p \in Int
  <2> HIDE DEF r
  <2>1. QED
    BY <1>1, ModDef
<1>4. (r + d) % W \in 0 .. W - 1
  <2> HIDE DEF r
  <2>1. QED
    BY <1>1
<1>5. N + d = W * (q + p) + ((r + d) % W)
  <2> HIDE DEF r, q, p
  <2>1. QED
    BY <1>1, <1>2, <1>3, <1>4
<1>6. s \in 0 .. W - 1 /\ N + d = W * (q + p) + s
  BY <1>4, <1>5
<1> HIDE DEF r, q, p, s
<1>7. N + d \in Int /\ q + p \in Int
  BY <1>2, <1>3
<1>8. (N + d) % W = s
  BY <1>6, <1>7, ModUnique, Zenon
<1>9. QED
  BY <1>8 DEF r, s

\* A set of natural numbers that is not empty has a least element.
LEMMA LeastElement ==
    ASSUME NEW T \in SUBSET Nat, T # {}
    PROVE  \E x \in T : \A y \in T : x <= y
<1> DEFINE R == {ss \in Nat \X Nat : ss[1] < ss[2]}
<1>1. \E x \in T : \A y \in T : ~(<<y, x>> \in OpToRel(<, Nat))
  BY NatLessThanWellFounded, WFMin
<1>2. OpToRel(<, Nat) = R
  BY DEF OpToRel
<1>3. PICK x \in T : \A y \in T : ~(<<y, x>> \in R)
  BY <1>1, <1>2
<1>4. ASSUME NEW y \in T PROVE x <= y
  <2>1. ~(<<y, x>> \in R) /\ <<y, x>> \in Nat \X Nat
    BY <1>3
  <2>2. QED
    BY <2>1
<1>5. QED
  BY <1>4

\* How many contexts stand at a label after one of them has moved.
LEMMA LabelCount ==
    ASSUME NEW c \in Contexts, NEW m,
           \A d \in Contexts : d # c => (pc'[d] = m <=> pc[d] = m)
    PROVE  /\ Cardinality(AtLabel(m)) \in Nat
           /\ Cardinality(AtLabel(m)') = Cardinality(AtLabel(m))
                    + (IF pc'[c] = m THEN 1 ELSE 0) - (IF pc[c] = m THEN 1 ELSE 0)
<1>1. IsFiniteSet(AtLabel(m)) /\ Cardinality(AtLabel(m)) \in Nat
  BY ContextsFinite, FS_Subset, FS_CardinalityType DEF AtLabel
<1>2. AtLabel(m)' = {d \in Contexts : pc'[d] = m}
  BY DEF AtLabel, Contexts, Tasks, Base, Workers
<1>3. CASE pc'[c] = m /\ pc[c] # m
  <2>1. AtLabel(m)' = AtLabel(m) \cup {c} /\ c \notin AtLabel(m)
    BY <1>2, <1>3 DEF AtLabel
  <2>2. Cardinality(AtLabel(m) \cup {c}) = Cardinality(AtLabel(m)) + 1
    BY <1>1, <2>1, FS_AddElement
  <2>3. QED
    BY <1>1, <1>3, <2>1, <2>2
<1>4. CASE pc'[c] # m /\ pc[c] = m
  <2>1. AtLabel(m)' = AtLabel(m) \ {c} /\ c \in AtLabel(m)
    BY <1>2, <1>4 DEF AtLabel
  <2>2. Cardinality(AtLabel(m) \ {c}) = Cardinality(AtLabel(m)) - 1
    BY <1>1, <2>1, FS_RemoveElement
  <2>3. QED
    BY <1>1, <1>4, <2>1, <2>2
<1>5. CASE pc'[c] = m <=> pc[c] = m
  <2>1. AtLabel(m)' = AtLabel(m)
    BY <1>2, <1>5 DEF AtLabel
  <2>2. QED
    BY <1>1, <1>5, <2>1
<1>6. QED
  BY <1>1, <1>3, <1>4, <1>5
-----------------------------------------------------------------------------
(* The two counters *)

\* What the queues hold together.
LEMMA QueuedFacts ==
    ASSUME TypeInv
    PROVE  /\ Queued \in SUBSET Tasks /\ IsFiniteSet(Queued) /\ Cardinality(Queued) \in Nat
           /\ \A t : t \in Queued <=> t \in pool \/ \E w \in Workers : t \in Private(w)
<1>1. \A t : t \in Queued <=> t \in pool \/ \E w \in Workers : t \in Private(w)
  BY DEF Queued, Private, Elements
<1>2. \A w \in Workers : Private(w) \subseteq Tasks
  BY DEF Private, Elements, TypeInv, QueueTypes
<1>3. Queued \in SUBSET Tasks
  BY <1>1, <1>2 DEF TypeInv, QueueTypes
<1>4. QED
  BY <1>1, <1>3, TaskSets

\* The counter of waiting tasks follows what it counts.
LEMMA CounterChange ==
    ASSUME TypeInv, CounterInv,
           NEW d \in {-1, 0, 1},
           LET N == Cardinality(Queued) + Cardinality(AtLabel("popped")) - Cardinality(AtLabel("pushed"))
           IN  N' = N + d,
           Cardinality(AtLabel("popped")) \in Nat, Cardinality(AtLabel("pushed")) \in Nat,
           g_num_tasks_waiting' = IF d = 0 THEN g_num_tasks_waiting
                                  ELSE (g_num_tasks_waiting + d) % Word,
           g_worker_status_board' = Cardinality(AtLabel("executed")')
    PROVE  CounterInv'
<1> DEFINE N == Cardinality(Queued) + Cardinality(AtLabel("popped")) - Cardinality(AtLabel("pushed"))
<1>1. N \in Int
  BY QueuedFacts
<1>2. N' = N + d /\ g_num_tasks_waiting = N % Word
  BY DEF CounterInv
<1>3. g_num_tasks_waiting' = N' % Word
  <2>1. Word \in Nat \ {0}
    BY BoundsAssumption
  <2>2. CASE d = 0
    <3> HIDE DEF N
    <3>1. N' = N
      BY <1>1, <1>2, <2>2
    <3>2. QED
      BY <1>2, <2>2, <3>1
  <2>3. CASE d # 0
    <3>1. d \in {-1, 1}
      BY <2>3
    <3> HIDE DEF N
    <3>2. ((N % Word) + d) % Word = (N + d) % Word
      BY <1>1, <2>1, <3>1, WrapStep
    <3>3. QED
      BY <1>2, <2>3, <3>2
  <2>4. QED
    BY <2>2, <2>3
<1>4. QED
  BY <1>3 DEF CounterInv

\* A step that neither moves a queued task nor counts anything.
LEMMA CounterKept ==
    ASSUME TypeInv, CounterInv, UNCHANGED <<queueVars, counterVars>>,
           \A c \in Contexts : \A m \in {"popped", "pushed", "executed"} : pc'[c] = m <=> pc[c] = m
    PROVE  CounterInv'
<1>1. Queued' = Queued
  BY DEF queueVars, Queued
<1>2. \A m \in {"popped", "pushed", "executed"} : AtLabel(m)' = AtLabel(m)
  BY DEF AtLabel, Contexts, Tasks, Base, Workers
<1>3. /\ AtLabel("popped")' = AtLabel("popped") /\ AtLabel("pushed")' = AtLabel("pushed")
      /\ AtLabel("executed")' = AtLabel("executed")
  BY <1>2
<1>4. QED
  BY <1>1, <1>3 DEF CounterInv, counterVars

\* One context moves.
LEMMA MoveCounts ==
    ASSUME TypeInv, NEW c \in Contexts, NEW l, pc' = [pc EXCEPT ![c] = l], NEW m
    PROVE  /\ Cardinality(AtLabel(m)) \in Nat
           /\ Cardinality(AtLabel(m)') = Cardinality(AtLabel(m))
                    + (IF l = m THEN 1 ELSE 0) - (IF pc[c] = m THEN 1 ELSE 0)
<1>1. pc'[c] = l /\ \A d \in Contexts : d # c => (pc'[d] = m <=> pc[d] = m)
  BY DEF TypeInv, ContextTypes
<1>2. QED
  BY <1>1, LabelCount

LEMMA CounterStep ==
    ASSUME BaseInv, CounterInv, [Next]_vars
    PROVE  CounterInv'
<1> USE DEF BaseInv
<1>1. \A t : t \in Queued <=> t \in pool \/ \E w \in Workers : t \in Private(w)
  BY QueuedFacts
<1>2. \A t : t \in Queued' <=> t \in pool' \/ \E w \in Workers : t \in Private(w)'
  BY DEF Queued, Private, Elements
<1>3. Cardinality(Queued) \in Nat /\ IsFiniteSet(Queued)
  BY QueuedFacts
<1>4. g_worker_status_board = Cardinality(AtLabel("executed"))
  BY DEF CounterInv
<1>5. ASSUME NEW w \in Workers, WorkerStep(w) PROVE CounterInv'
  <2> DEFINE s == Self(w)
  <2>1. s \in Contexts
    BY SelfFacts
  <2>2. CASE PushPolicy(w) \/ \E v \in Workers : PushPrivate(w, v)
    <3>1. pc' = [pc EXCEPT ![s] = "pushed"] /\ pc[s] = "push" /\ UNCHANGED counterVars
      BY <2>2 DEF PushPolicy, PushPrivate, At, Goto
    <3>2. job[s] \in Tasks /\ job[s] \notin Queued
      <4>1. job[s] \in Tasks /\ job[s] # NoTask
        BY <3>1, HandFacts, ContextFacts
      <4>2. QED
        BY <1>1, <2>1, <4>1 DEF PlaceInv
    <3>3. Queued' = Queued \cup {job[s]}
      <4>1. CASE PushPolicy(w)
        <5>1. \A v \in Workers : Private(v)' = Private(v)
          BY <4>1 DEF PushPolicy, Private
        <5>2. pool' = pool \cup {job[s]}
          BY <4>1 DEF PushPolicy
        <5>3. QED
          BY <1>1, <1>2, <5>1, <5>2
      <4>2. ASSUME NEW v \in Workers, PushPrivate(w, v) PROVE Queued' = Queued \cup {job[s]}
        <5>1. pool' = pool /\ private_queue' = [private_queue EXCEPT ![v] = Append(@, job[s])]
          BY <4>2 DEF PushPrivate
        <5>2. private_queue[v] \in Seq(Tasks) /\ Distinct(private_queue[v])
              /\ job[s] \notin Elements(private_queue[v])
          BY <1>1, <3>2 DEF TypeInv, QueueTypes, PlaceInv, Private
        <5>3. Elements(Append(private_queue[v], job[s])) = Elements(private_queue[v]) \cup {job[s]}
          BY <3>2, <5>2, AppendPlaces
        <5>4. \A u \in Workers : Private(u)' = IF u = v THEN Private(u) \cup {job[s]} ELSE Private(u)
          BY <5>1, <5>3 DEF TypeInv, QueueTypes, Private
        <5>5. QED
          BY <1>1, <1>2, <5>1, <5>4
      <4>3. QED
        BY <2>2, <4>1, <4>2
    <3>4. Cardinality(Queued') = Cardinality(Queued) + 1
      BY <1>3, <3>2, <3>3, FS_AddElement
    <3>5. /\ Cardinality(AtLabel("popped")') = Cardinality(AtLabel("popped"))
          /\ Cardinality(AtLabel("pushed")') = Cardinality(AtLabel("pushed")) + 1
          /\ Cardinality(AtLabel("executed")') = Cardinality(AtLabel("executed"))
          /\ Cardinality(AtLabel("popped")) \in Nat /\ Cardinality(AtLabel("pushed")) \in Nat
      <4> HIDE DEF s
      <4>1. ASSUME NEW m \in {"popped", "pushed", "executed"}
            PROVE  /\ Cardinality(AtLabel(m)) \in Nat
                   /\ Cardinality(AtLabel(m)') = Cardinality(AtLabel(m)) + IF m = "pushed" THEN 1 ELSE 0
        <5>1. /\ Cardinality(AtLabel(m)) \in Nat
              /\ Cardinality(AtLabel(m)') = Cardinality(AtLabel(m))
                       + (IF "pushed" = m THEN 1 ELSE 0) - (IF pc[s] = m THEN 1 ELSE 0)
          BY <2>1, <3>1, MoveCounts
        <5>2. QED
          BY <3>1, <5>1
      <4>2. QED
        BY <4>1
    <3>6. QED
      BY <1>3, <1>4, <3>1, <3>4, <3>5, CounterChange DEF counterVars
  <2>3. CASE PopPolicy(w) \/ PopPrivate(w)
    <3>1. pc' = [pc EXCEPT ![s] = "popped"] /\ pc[s] \in {"policy_pop", "private_pop"}
          /\ UNCHANGED counterVars
      BY <2>3 DEF PopPolicy, PopPrivate, At, Goto
    <3>2. \E t \in Queued : Queued' = Queued \ {t}
      <4>1. CASE PopPolicy(w)
        <5>1. \A v \in Workers : Private(v)' = Private(v)
          BY <4>1 DEF PopPolicy, Private
        <5>2. PICK t \in pool : pool' = pool \ {t}
          BY <4>1 DEF PopPolicy
        <5>3. \A v \in Workers : t \notin Private(v)
          BY DEF PlaceInv
        <5>4. t \in Queued /\ Queued' = Queued \ {t}
          BY <1>1, <1>2, <5>1, <5>2, <5>3
        <5>5. QED
          BY <5>4
      <4>2. CASE PopPrivate(w)
        <5> DEFINE t == Head(private_queue[w])
        <5>1. /\ pool' = pool /\ private_queue' = [private_queue EXCEPT ![w] = Tail(@)]
              /\ private_queue[w] # <<>>
          BY <4>2 DEF PopPrivate
        <5>2. private_queue[w] \in Seq(Tasks) /\ Distinct(private_queue[w])
          BY DEF TypeInv, QueueTypes, PlaceInv
        <5>3. /\ t \in Elements(private_queue[w])
              /\ Elements(Tail(private_queue[w])) = Elements(private_queue[w]) \ {t}
          BY <5>1, <5>2, TailPlaces
        <5> HIDE DEF t
        <5>4. \A v \in Workers : Private(v)' = IF v = w THEN Private(v) \ {t} ELSE Private(v)
          BY <5>1, <5>3 DEF TypeInv, QueueTypes, Private
        <5>5. t \in Private(w) /\ t \notin pool /\ \A v \in Workers : v # w => t \notin Private(v)
          BY <5>3 DEF PlaceInv, Private
        <5>6. t \in Queued /\ Queued' = Queued \ {t}
          BY <1>1, <1>2, <5>1, <5>4, <5>5
        <5>7. QED
          BY <5>6
      <4>3. QED
        BY <2>3, <4>1, <4>2
    <3>3. Cardinality(Queued') = Cardinality(Queued) - 1
      BY <1>3, <3>2, FS_RemoveElement
    <3>4. /\ Cardinality(AtLabel("popped")') = Cardinality(AtLabel("popped")) + 1
          /\ Cardinality(AtLabel("pushed")') = Cardinality(AtLabel("pushed"))
          /\ Cardinality(AtLabel("executed")') = Cardinality(AtLabel("executed"))
          /\ Cardinality(AtLabel("popped")) \in Nat /\ Cardinality(AtLabel("pushed")) \in Nat
      <4> HIDE DEF s
      <4>1. ASSUME NEW m \in {"popped", "pushed", "executed"}
            PROVE  /\ Cardinality(AtLabel(m)) \in Nat
                   /\ Cardinality(AtLabel(m)') = Cardinality(AtLabel(m)) + IF m = "popped" THEN 1 ELSE 0
        <5>1. /\ Cardinality(AtLabel(m)) \in Nat
              /\ Cardinality(AtLabel(m)') = Cardinality(AtLabel(m))
                       + (IF "popped" = m THEN 1 ELSE 0) - (IF pc[s] = m THEN 1 ELSE 0)
          BY <2>1, <3>1, MoveCounts
        <5>2. QED
          BY <3>1, <5>1
      <4>2. QED
        BY <4>1
    <3>5. QED
      BY <1>3, <1>4, <3>1, <3>3, <3>4, CounterChange DEF counterVars
  <2>4. CASE CountPush(w) \/ CountPop(w)
    <3>1. PICK from \in {"pushed", "popped"}, l \in {"run", "execute"} :
            /\ pc' = [pc EXCEPT ![s] = l] /\ pc[s] = from
            /\ g_num_tasks_waiting' = (g_num_tasks_waiting + (IF from = "pushed" THEN 1 ELSE -1)) % Word
            /\ g_worker_status_board' = g_worker_status_board /\ UNCHANGED queueVars
      <4>1. g_num_tasks_waiting - 1 = g_num_tasks_waiting + (-1)
        BY DEF TypeInv, GlobalTypes
      <4>2. CASE CountPush(w)
        BY <4>2 DEF CountPush, At, Goto
      <4>3. CASE CountPop(w)
        BY <4>1, <4>3 DEF CountPop, At, Goto
      <4>4. QED
        BY <2>4, <4>2, <4>3
    <3>2. Queued' = Queued
      BY <3>1 DEF queueVars, Queued
    <3> HIDE DEF s
    <3>3. ASSUME NEW m \in {"popped", "pushed", "executed"}
          PROVE  /\ Cardinality(AtLabel(m)) \in Nat
                 /\ Cardinality(AtLabel(m)') = Cardinality(AtLabel(m)) - IF m = from THEN 1 ELSE 0
      <4>1. /\ Cardinality(AtLabel(m)) \in Nat
            /\ Cardinality(AtLabel(m)') = Cardinality(AtLabel(m))
                     + (IF l = m THEN 1 ELSE 0) - (IF pc[s] = m THEN 1 ELSE 0)
        BY <2>1, <3>1, MoveCounts
      <4>2. QED
        BY <3>1, <4>1
    <3>4. CASE from = "pushed"
      <4>1. /\ Cardinality(AtLabel("popped")') = Cardinality(AtLabel("popped"))
            /\ Cardinality(AtLabel("pushed")') = Cardinality(AtLabel("pushed")) - 1
            /\ Cardinality(AtLabel("executed")') = Cardinality(AtLabel("executed"))
            /\ Cardinality(AtLabel("popped")) \in Nat /\ Cardinality(AtLabel("pushed")) \in Nat
        BY <3>3, <3>4
      <4>2. g_num_tasks_waiting' = (g_num_tasks_waiting + 1) % Word
        BY <3>1, <3>4
      <4>3. QED
        BY <1>3, <1>4, <3>1, <3>2, <4>1, <4>2, CounterChange
    <3>5. CASE from = "popped"
      <4>1. /\ Cardinality(AtLabel("popped")') = Cardinality(AtLabel("popped")) - 1
            /\ Cardinality(AtLabel("pushed")') = Cardinality(AtLabel("pushed"))
            /\ Cardinality(AtLabel("executed")') = Cardinality(AtLabel("executed"))
            /\ Cardinality(AtLabel("popped")) \in Nat /\ Cardinality(AtLabel("pushed")) \in Nat
        BY <3>3, <3>5
      <4>2. g_num_tasks_waiting' = (g_num_tasks_waiting + (-1)) % Word
        BY <3>1, <3>5
      <4>3. QED
        BY <1>3, <1>4, <3>1, <3>2, <4>1, <4>2, CounterChange
    <3>6. QED
      BY <3>4, <3>5
  <2>5. CASE Execute(w)
    <3>1. /\ job[s] \in Tasks /\ pc[job[s]] = "queued" /\ job[s] # s /\ pc[s] = "execute"
          /\ pc' = [pc EXCEPT ![job[s]] = "run", ![s] = "executed"]
          /\ g_worker_status_board' = g_worker_status_board + 1
          /\ g_num_tasks_waiting' = g_num_tasks_waiting /\ UNCHANGED queueVars
      BY <2>5, HandFacts DEF Execute, Run, At
    <3>2. Queued' = Queued
      BY <3>1 DEF queueVars, Queued
    <3> HIDE DEF s
    <3>3. ASSUME NEW m \in {"popped", "pushed", "executed"}
          PROVE  /\ Cardinality(AtLabel(m)) \in Nat
                 /\ Cardinality(AtLabel(m)') = Cardinality(AtLabel(m)) + IF m = "executed" THEN 1 ELSE 0
      <4>1. /\ \A c \in Contexts : c # s => (pc'[c] = m <=> pc[c] = m)
            /\ pc'[s] = "executed"
        BY <2>1, <3>1, ContextFacts DEF TypeInv, ContextTypes
      <4>2. /\ Cardinality(AtLabel(m)) \in Nat
            /\ Cardinality(AtLabel(m)') = Cardinality(AtLabel(m))
                     + (IF pc'[s] = m THEN 1 ELSE 0) - (IF pc[s] = m THEN 1 ELSE 0)
        BY <2>1, <4>1, LabelCount
      <4>3. QED
        BY <3>1, <4>1, <4>2
    <3>4. /\ Cardinality(AtLabel("popped")') = Cardinality(AtLabel("popped"))
          /\ Cardinality(AtLabel("pushed")') = Cardinality(AtLabel("pushed"))
          /\ Cardinality(AtLabel("executed")') = Cardinality(AtLabel("executed")) + 1
          /\ Cardinality(AtLabel("popped")) \in Nat /\ Cardinality(AtLabel("pushed")) \in Nat
      BY <3>3
    <3>5. QED
      BY <1>3, <1>4, <3>1, <3>2, <3>4, CounterChange
  <2>6. CASE Executed(w)
    <3>1. /\ pc[s] = "executed" /\ pc' = [pc EXCEPT ![s] = AfterWork(w)]
          /\ AfterWork(w) \in {"check_dying", "reduce"}
          /\ g_worker_status_board' = g_worker_status_board - 1
          /\ g_num_tasks_waiting' = g_num_tasks_waiting /\ UNCHANGED queueVars
      BY <2>6 DEF Executed, AfterWork, Goto, At
    <3>2. Queued' = Queued
      BY <3>1 DEF queueVars, Queued
    <3> HIDE DEF s
    <3>3. ASSUME NEW m \in {"popped", "pushed", "executed"}
          PROVE  /\ Cardinality(AtLabel(m)) \in Nat
                 /\ Cardinality(AtLabel(m)') = Cardinality(AtLabel(m)) - IF m = "executed" THEN 1 ELSE 0
      <4>1. /\ Cardinality(AtLabel(m)) \in Nat
            /\ Cardinality(AtLabel(m)') = Cardinality(AtLabel(m))
                     + (IF AfterWork(w) = m THEN 1 ELSE 0) - (IF pc[s] = m THEN 1 ELSE 0)
        BY <2>1, <3>1, MoveCounts
      <4>2. QED
        BY <3>1, <4>1
    <3>4. /\ Cardinality(AtLabel("popped")') = Cardinality(AtLabel("popped"))
          /\ Cardinality(AtLabel("pushed")') = Cardinality(AtLabel("pushed"))
          /\ Cardinality(AtLabel("executed")') = Cardinality(AtLabel("executed")) - 1
          /\ Cardinality(AtLabel("popped")) \in Nat /\ Cardinality(AtLabel("pushed")) \in Nat
      BY <3>3
    <3>5. QED
      BY <1>3, <1>4, <3>1, <3>2, <3>4, CounterChange
  <2>7. ASSUME ~(PushPolicy(w) \/ \E v \in Workers : PushPrivate(w, v)), ~PopPolicy(w), ~PopPrivate(w),
               ~CountPush(w), ~CountPop(w), ~Execute(w), ~Executed(w)
        PROVE  CounterInv'
    <3> DEFINE M == {"popped", "pushed", "executed"}
    <3>1. UNCHANGED <<queueVars, counterVars>>
      BY <1>5, <2>7, WorkerFrames
    <3>2. CASE Create(w)
      <4>1. g_tasks_uidc \in Tasks /\ pc[g_tasks_uidc] = "none" /\ pc[s] = "run"
        BY <3>2, BoundsAssumption DEF Create, At, TypeInv, TaskTypes, Tasks, LabelInv
      <4>2. \A c \in Contexts : pc'[c] = pc[c] \/ (pc'[c] \notin M /\ pc[c] \notin M)
        BY <2>1, <3>2, <4>1 DEF Create, TypeInv, ContextTypes
      <4>3. QED
        BY <3>1, <4>2, CounterKept
    <3>3. CASE PushInline(w)
      <4>1. pc[s] = "push" /\ pc[job[s]] = "queued"
        BY <3>3, HandFacts DEF PushInline, At
      <4>2. \A c \in Contexts : pc'[c] = pc[c] \/ (pc'[c] \notin M /\ pc[c] \notin M)
        BY <2>1, <3>3, <4>1 DEF PushInline, Run, TypeInv, ContextTypes
      <4>3. QED
        BY <3>1, <4>2, CounterKept
    <3>4. CASE ReduceAdd(w)
      BY <3>1, <3>4, CounterKept DEF ReduceAdd
    <3>5. CASE ~Create(w) /\ ~PushInline(w) /\ ~ReduceAdd(w)
      <4>1. pc[s] \notin M /\ \E l : l \notin M /\ pc' = [pc EXCEPT ![s] = l]
        <5>1. CASE NoPrivateTask(w) \/ NoTaskFound(w) \/ EpilogRecord(w) \/ EpilogSignal(w)
          BY <5>1 DEF NoPrivateTask, NoTaskFound, EpilogRecord, EpilogSignal, AfterWork, At, Goto
        <5>2. CASE Wait(w) \/ ReduceDecide(w) \/ Pass(w) \/ Reset(w)
          BY <5>2 DEF Wait, ReduceDecide, Pass, Reset, At, Goto
        <5>3. CASE CheckDying(w) \/ Die(w) \/ SignalDead(w)
          BY <5>3 DEF CheckDying, Die, SignalDead, At, Goto
        <5>4. QED
          BY <1>5, <2>7, <3>5, <5>1, <5>2, <5>3 DEF WorkerStep
      <4>2. \A c \in Contexts : pc'[c] = pc[c] \/ (pc'[c] \notin M /\ pc[c] \notin M)
        BY <2>1, <4>1 DEF TypeInv, ContextTypes
      <4>3. QED
        BY <3>1, <4>2, CounterKept
    <3>6. QED
      BY <3>2, <3>3, <3>4, <3>5
  <2>8. QED
    BY <2>2, <2>3, <2>4, <2>5, <2>6, <2>7
<1>6. CASE DestroyStep
  <2>1. /\ Main \in Contexts /\ UNCHANGED <<queueVars, counterVars>>
        /\ pc[Main] \in {"run"} \cup ShutLabels
        /\ \E l \in ShutLabels : pc' = [pc EXCEPT ![Main] = l]
    BY <1>6, DestroyMoves DEF shutdownFrame, Destroy
  <2>2. \A c \in Contexts : pc'[c] = pc[c] \/ (pc'[c] \in {"run"} \cup ShutLabels
                                                 /\ pc[c] \in {"run"} \cup ShutLabels)
    BY <2>1 DEF TypeInv, ContextTypes
  <2>3. QED
    BY <2>1, <2>2, CounterKept DEF ShutLabels
<1>7. CASE UNCHANGED vars
  BY <1>7, CounterKept DEF vars
<1>8. QED
  BY <1>5, <1>6, <1>7 DEF Next, Down
-----------------------------------------------------------------------------
(* The handshake with the workers *)

DeathLabels == {"unlock", "wait_dead", "down"}

\* A step that neither releases nor takes a lock nor kills a worker.
LEMMA DeathKept ==
    ASSUME DeathInv, sig_die' = sig_die, g_sig_worker_alive' = g_sig_worker_alive,
           pc'[Main] \in DeathLabels <=> pc[Main] \in DeathLabels,
           \A w \in Workers : \A l \in {"signal_dead", "dead"} : pc'[Base(w)] = l <=> pc[Base(w)] = l
    PROVE  DeathInv'
<1>1. Living' = Living
  BY DEF Living, Workers, Base
<1>2. \A w \in Workers : pc'[Base(w)] \in {"signal_dead", "dead"} <=> pc[Base(w)] \in {"signal_dead", "dead"}
  OBVIOUS
<1>3. CASE pc[Main] \in DeathLabels
  <2>1. pc'[Main] \in DeathLabels
    BY <1>3
  <2>2. QED
    BY <1>1, <1>3, <2>1 DEF DeathInv, DeathLabels, Main, Base
<1>4. CASE pc[Main] \notin DeathLabels
  <2>1. pc'[Main] \notin DeathLabels
    BY <1>4
  <2>2. QED
    BY <1>2, <1>4, <2>1 DEF DeathInv, DeathLabels, Main, Base, Workers
<1>5. QED
  BY <1>3, <1>4

\* Those that have not told mir_destroy of their death are counted.
LEMMA LivingFacts ==
    /\ IsFiniteSet(Living) /\ Cardinality(Living) \in 0 .. NumWorkers - 1
    /\ (\A w \in Workers : pc[Base(w)] # "dead") => Cardinality(Living) = NumWorkers - 1
<1>1. IsFiniteSet(Workers \ {0}) /\ Cardinality(Workers \ {0}) = NumWorkers - 1
  <2>1. 0 \in Workers /\ IsFiniteSet(Workers) /\ Cardinality(Workers) = NumWorkers
    BY ContextFacts, ContextsFinite
  <2>2. QED
    BY <2>1, FS_RemoveElement
<1>2. Living \subseteq Workers \ {0}
  BY DEF Living
<1>3. /\ IsFiniteSet(Living) /\ Cardinality(Living) \in Nat
      /\ Cardinality(Living) <= Cardinality(Workers \ {0})
  BY <1>1, <1>2, FS_Subset, FS_CardinalityType
<1>4. ASSUME \A w \in Workers : pc[Base(w)] # "dead" PROVE Living = Workers \ {0}
  BY <1>4 DEF Living
<1>5. QED
  BY <1>1, <1>3, <1>4, WorkersAssumption

LEMMA DeathStep ==
    ASSUME BaseInv, DeathInv, [Next]_vars
    PROVE  DeathInv'
<1> USE DEF BaseInv
<1>1. ASSUME NEW w \in Workers, WorkerStep(w) PROVE DeathInv'
  <2>1. CASE Die(w)
    <3>1. Self(w) \in Contexts /\ pc[Self(w)] = "dying" /\ pc' = [pc EXCEPT ![Self(w)] = "signal_dead"]
      BY <2>1, SelfFacts DEF Die, At, Goto
    <3>2. sig_die # Workers /\ g_sig_worker_alive' = g_sig_worker_alive
      BY <2>1 DEF Die
    <3>3. pc[Main] \in DeathLabels /\ g_sig_worker_alive = Cardinality(Living)
      BY <3>2 DEF DeathInv, DeathLabels
    <3>4. Main # Self(w)
      BY <3>1, <3>3 DEF DeathLabels
    <3>5. pc'[Main] = pc[Main]
      BY <3>1, <3>4, ContextFacts DEF TypeInv, ContextTypes, Main
    <3>6. \A v \in Workers : pc'[Base(v)] = "dead" <=> pc[Base(v)] = "dead"
      BY <3>1, ContextFacts DEF TypeInv, ContextTypes
    <3>7. Living' = Living
      BY <3>6 DEF Living, Workers, Base
    <3>8. QED
      BY <3>2, <3>3, <3>5, <3>7 DEF DeathInv, DeathLabels, Main, Base
  <2>2. CASE SignalDead(w)
    <3>1. Self(w) \in Contexts /\ pc[Self(w)] = "signal_dead" /\ pc' = [pc EXCEPT ![Self(w)] = "dead"]
      BY <2>2, SelfFacts DEF SignalDead, At, Goto
    <3>2. w # 0 /\ Self(w) = Base(w)
      BY <3>1, SelfFacts DEF LabelInv, Executing, UserLabels, WorkLabels, ShutLabels
    <3>3. pc[Main] \in DeathLabels /\ g_sig_worker_alive = Cardinality(Living)
      BY <3>1, <3>2 DEF DeathInv, DeathLabels
    <3>4. pc'[Main] = pc[Main]
      BY <3>1, <3>2, ContextFacts DEF TypeInv, ContextTypes, Main
    <3>5. \A v \in Workers : pc'[Base(v)] = IF v = w THEN "dead" ELSE pc[Base(v)]
      BY <3>1, <3>2, ContextFacts DEF TypeInv, ContextTypes
    <3>6. w \in Living
      BY <3>1, <3>2 DEF Living
    <3>7. Living' = {v \in Workers \ {0} : pc'[Base(v)] # "dead"}
      BY DEF Living, Workers, Base
    <3>8. Living' = Living \ {w}
      BY <3>5, <3>7 DEF Living
    <3>9. Cardinality(Living') = Cardinality(Living) - 1
      BY <3>6, <3>8, LivingFacts, FS_RemoveElement
    <3>10. g_sig_worker_alive' = g_sig_worker_alive - 1
      BY <2>2 DEF SignalDead
    <3>11. g_sig_worker_alive' = Cardinality(Living')
      BY <3>3, <3>9, <3>10
    <3>12. QED
      BY <3>3, <3>4, <3>11 DEF DeathInv, DeathLabels, Main, Base
  <2>3. ASSUME ~Die(w), ~SignalDead(w) PROVE DeathInv'
    <3> DEFINE L == DeathLabels \cup {"signal_dead", "dead"}
    <3>1. UNCHANGED deathVars
      BY <1>1, <2>3, WorkerFrames
    <3>2. \A c \in Contexts : pc'[c] = pc[c] \/ (pc[c] \notin L /\ pc'[c] \notin L)
      <4>1. CASE Create(w)
        <5>1. g_tasks_uidc \in Tasks /\ pc[g_tasks_uidc] = "none" /\ pc[Self(w)] = "run"
          BY <4>1, BoundsAssumption DEF Create, At, TypeInv, TaskTypes, Tasks, LabelInv
        <5>2. QED
          BY <4>1, <5>1, SelfFacts DEF Create, TypeInv, ContextTypes, DeathLabels
      <4>2. CASE PushInline(w) \/ Execute(w)
        <5>1. pc[Self(w)] \in {"push", "execute"} /\ pc[job[Self(w)]] = "queued"
          BY <4>2, HandFacts DEF PushInline, Execute, At
        <5>2. QED
          BY <4>2, <5>1, SelfFacts DEF PushInline, Execute, Run, TypeInv, ContextTypes, DeathLabels
      <4>3. CASE ReduceAdd(w)
        BY <4>3 DEF ReduceAdd
      <4>4. ASSUME NEW l \in Labels, MovesTo(w, l)
            PROVE  \A c \in Contexts : pc'[c] = pc[c] \/ (pc[c] \notin L /\ pc'[c] \notin L)
        <5>1. <<pc[Self(w)], l>> \in Moves /\ pc' = [pc EXCEPT ![Self(w)] = l]
          BY <4>4 DEF MovesTo
        <5>2. l \notin {"signal_dead", "dead"}
          <6>1. l \in {"signal_dead", "dead"} => pc[Self(w)] \in {"dying", "signal_dead"}
            BY <5>1 DEF Moves
          <6>2. pc[Self(w)] \in {"dying", "signal_dead"} /\ ~ReduceAdd(w) =>
                  Die(w) \/ SignalDead(w)
            BY <1>1 DEF WorkerStep, Create, PushPolicy, PushInline, CountPush, PushPrivate, PopPrivate,
               NoPrivateTask, PopPolicy, NoTaskFound, CountPop, Execute, Executed, EpilogRecord,
               EpilogSignal, Wait, ReduceDecide, Pass, Reset, CheckDying, At
          <6>3. pc[Self(w)] \in {"dying", "signal_dead"} => ~ReduceAdd(w)
            BY DEF ReduceAdd, At
          <6>4. QED
            BY <2>3, <6>1, <6>2, <6>3
        <5>3. pc[Self(w)] \notin L /\ l \notin L
          BY <5>1, <5>2 DEF Moves, DeathLabels
        <5>4. QED
          BY <5>1, <5>3 DEF TypeInv, ContextTypes
      <4>5. QED
        BY <1>1, <4>1, <4>2, <4>3, <4>4, WorkerMoves
    <3>3. /\ pc'[Main] \in DeathLabels <=> pc[Main] \in DeathLabels
          /\ \A v \in Workers : \A l \in {"signal_dead", "dead"} : pc'[Base(v)] = l <=> pc[Base(v)] = l
      BY <3>2, ContextFacts DEF Main
    <3>4. QED
      BY <3>1, <3>3, DeathKept DEF deathVars
  <2>4. QED
    BY <2>1, <2>2, <2>3
<1>2. CASE DestroyStep
  <2>1. /\ \E l \in ShutLabels : pc' = [pc EXCEPT ![Main] = l]
        /\ pc[Main] \in {"run"} \cup ShutLabels /\ Main \in Contexts
    BY <1>2, DestroyMoves DEF Destroy
  <2>2. \A w \in Workers : \A l \in {"signal_dead", "dead"} : pc'[Base(w)] = l <=> pc[Base(w)] = l
    BY <2>1, ContextFacts DEF TypeInv, ContextTypes, ShutLabels
  <2>3. CASE Kill
    <3>1. /\ pc[Main] = "kill" /\ pc'[Main] = "unlock" /\ sig_die' = sig_die
          /\ g_sig_worker_alive' = g_sig_worker_alive + NumWorkers - 1
      <4>1. pc[Main] = "kill" /\ Self(0) = Main
        BY <2>3, MainIsSelf DEF Kill, ShutLabels
      <4>2. QED
        BY <2>1, <2>3, <4>1 DEF Kill, Goto, TypeInv, ContextTypes
    <3>2. g_sig_worker_alive = 0 /\ \A w \in Workers : pc[Base(w)] # "dead"
      BY <3>1 DEF DeathInv
    <3>3. Living' = Living
      BY <2>2 DEF Living, Workers, Base
    <3>4. g_sig_worker_alive' = Cardinality(Living')
      BY <3>1, <3>2, <3>3, LivingFacts, WorkersAssumption
    <3>5. QED
      BY <3>1, <3>4 DEF DeathInv, Main, Base
  <2>4. CASE Unlock
    <3>1. pc[Main] = "unlock" /\ pc'[Main] \in DeathLabels /\ g_sig_worker_alive' = g_sig_worker_alive
      <4>1. pc[Main] = "unlock" /\ Self(0) = Main
        BY <2>4, MainIsSelf DEF Unlock, ShutLabels
      <4>2. QED
        BY <2>1, <2>4, <4>1 DEF Unlock, ForEachWorker, Goto, TypeInv, ContextTypes, DeathLabels
    <3>2. Living' = Living
      BY <2>2 DEF Living, Workers, Base
    <3>3. QED
      BY <3>1, <3>2 DEF DeathInv, DeathLabels, Main, Base
  <2>5. CASE Destroy
    <3>1. pc[Main] = "run" /\ pc'[Main] = "check_1" /\ UNCHANGED deathVars
      <4>1. Self(0) = Main
        BY <2>5 DEF Destroy, Self, Main
      <4>2. QED
        BY <2>1, <2>5, <4>1 DEF Destroy, Goto, TypeInv, ContextTypes
    <3>2. pc'[Main] \in DeathLabels <=> pc[Main] \in DeathLabels
      BY <3>1 DEF DeathLabels
    <3>3. QED
      BY <2>2, <3>1, <3>2, DeathKept DEF deathVars
  <2>6. CASE CheckDone \/ Assert \/ Announce \/ WaitDead
    <3>1. Self(0) = Main
      BY <2>6, MainIsSelf DEF CheckDone, CheckStep, Assert, Announce, WaitDead, ShutLabels
    <3>2. sig_die' = sig_die /\ g_sig_worker_alive' = g_sig_worker_alive
      BY <2>6 DEF CheckDone, CheckStep, Assert, Announce, WaitDead, deathVars
    <3>3. pc'[Main] \in DeathLabels <=> pc[Main] \in DeathLabels
      <4>1. ASSUME NEW l, Goto(0, l) PROVE pc'[Main] = l
        BY <2>1, <3>1, <4>1 DEF Goto, TypeInv, ContextTypes
      <4>2. QED
        BY <2>6, <4>1 DEF CheckDone, CheckStep, Assert, Announce, ForEachWorker, WaitDead, DeathLabels
    <3>4. QED
      BY <2>2, <3>2, <3>3, DeathKept
  <2>7. QED
    BY <1>2, <2>3, <2>4, <2>5, <2>6 DEF DestroyStep
<1>3. CASE UNCHANGED vars
  BY <1>3, DeathKept DEF vars, deathVars
<1>4. QED
  BY <1>1, <1>2, <1>3 DEF Next, Down
-----------------------------------------------------------------------------
(* Nothing is left *)

\* A counter at 0 has no child that runs.
LEMMA NothingCounted ==
    ASSUME TypeInv, BornInv, CountInv, NEW k \in Owners, count[k] = 0
    PROVE  \A t \in Children(k) : pc[t] = "done"
<1>1. Cardinality(Fresh(k)) = 0 /\ IsFiniteSet(Fresh(k))
  BY ChildFacts, TaskSets DEF CountInv
<1>2. Fresh(k) = {}
  BY <1>1, FS_EmptySet
<1>3. ASSUME NEW t \in Children(k), pc[t] # "done" PROVE FALSE
  <2>1. t \in Fresh(k)
    BY <1>3 DEF Fresh, Children, BornInv
  <2>2. QED
    BY <1>2, <2>1
<1>4. QED
  BY <1>3

\* If no task that has ended, the runtime included, has a child that has not,
\* all tasks have ended: a parent is older than its children.
LEMMA AllDone ==
    ASSUME TypeInv, BornInv,
           \A t \in Created : pc[t] \in {"epilog", "done"} => \A u \in Children(t) : pc[u] = "done",
           \A u \in Children(NoTask) : pc[u] = "done"
    PROVE  \A t \in Created : pc[t] = "done"
<1> DEFINE T == {t \in Created : pc[t] # "done"}
<1>1. T \in SUBSET Nat /\ Created \in SUBSET Tasks
  BY ChildFacts DEF Tasks
<1>2. ASSUME T # {} PROVE FALSE
  <2>1. PICK x \in T : \A y \in T : x <= y
    BY <1>1, <1>2, LeastElement
  <2>2. x \in Created /\ pc[x] # "done" /\ parent[x] \in Owners /\ x \in Children(parent[x])
    BY <2>1, ChildFacts
  <2>3. parent[x] \in Tasks
    BY <2>2, ContextFacts
  <2>4. parent[x] < x /\ x \in 1 .. g_tasks_uidc - 1 /\ g_tasks_uidc \in Int /\ parent[x] \in Nat \ {0}
    BY <2>2, <2>3, BoundsAssumption DEF BornInv, TypeInv, TaskTypes, Tasks, Created
  <2>5. parent[x] \in Created
    BY <2>4 DEF Created
  <2>6. parent[x] \notin T
    BY <1>1, <2>1, <2>4
  <2>7. pc[parent[x]] = "done"
    BY <2>5, <2>6
  <2>8. QED
    BY <2>2, <2>5, <2>7
<1>3. QED
  BY <1>2

\* How the tasks move.
LEMMA TaskMoves ==
    ASSUME BaseInv, [Next]_vars
    PROVE  /\ \A t \in Tasks : pc[t] = "done" => pc'[t] = "done"
           /\ \A t \in Tasks : pc'[t] \in {"epilog", "done"} =>
                  pc[t] \in {"epilog", "done"} \/ \E w \in Workers : EpilogRecord(w) /\ t = current_task[w]
<1> USE DEF BaseInv
<1> DEFINE Kept == \A t \in Tasks : /\ pc[t] = "done" => pc'[t] = "done"
                                    /\ pc'[t] \in {"epilog", "done"} => pc[t] \in {"epilog", "done"}
<1>1. ASSUME NEW w \in Workers, WorkerStep(w)
      PROVE  \/ Kept
             \/ /\ EpilogRecord(w) /\ current_task[w] \in Tasks
                /\ pc[current_task[w]] = "run" /\ pc' = [pc EXCEPT ![current_task[w]] = "epilog"]
  <2>1. CASE Create(w)
    <3>1. g_tasks_uidc \in Tasks /\ pc[g_tasks_uidc] = "none" /\ pc[Self(w)] = "run"
      BY <2>1, BoundsAssumption DEF Create, At, TypeInv, TaskTypes, Tasks, LabelInv
    <3>2. Kept
      BY <2>1, <3>1, SelfFacts, ContextFacts DEF Create, TypeInv, ContextTypes
    <3>3. QED
      BY <3>2
  <2>2. CASE PushInline(w) \/ Execute(w)
    <3>1. pc[Self(w)] \in {"push", "execute"} /\ pc[job[Self(w)]] = "queued"
      BY <2>2, HandFacts DEF PushInline, Execute, At
    <3>2. Kept
      BY <2>2, <3>1, SelfFacts, ContextFacts DEF PushInline, Execute, Run, TypeInv, ContextTypes
    <3>3. QED
      BY <3>2
  <2>3. CASE ReduceAdd(w)
    BY <2>3 DEF ReduceAdd
  <2>4. CASE EpilogRecord(w)
    BY <2>4, SelfFacts DEF EpilogRecord, At, Goto
  <2>5. ASSUME NEW l \in Labels, MovesTo(w, l), ~EpilogRecord(w) PROVE Kept
    <3>1. <<pc[Self(w)], l>> \in Moves /\ pc' = [pc EXCEPT ![Self(w)] = l]
      BY <2>5 DEF MovesTo
    <3>2. l # "epilog"
      <4>1. l = "epilog" => pc[Self(w)] = "run"
        BY <3>1 DEF Moves
      <4>2. pc[Self(w)] = "run" =>
              Create(w) \/ EpilogRecord(w) \/ Wait(w)
        BY <1>1 DEF WorkerStep, PushPolicy, PushInline, CountPush, PushPrivate, PopPrivate,
           NoPrivateTask, PopPolicy, NoTaskFound, CountPop, Execute, Executed,
           EpilogSignal, ReduceAdd, ReduceDecide, Pass, Reset, CheckDying, Die, SignalDead, At
      <4>3. ASSUME l = "epilog" PROVE FALSE
        <5>1. Self(w) \in Contexts /\ pc'[Self(w)] = "epilog"
          BY <3>1, <4>3, SelfFacts DEF TypeInv, ContextTypes
        <5>2. Create(w) \/ Wait(w)
          BY <2>5, <4>1, <4>2, <4>3
        <5>3. CASE Create(w)
          BY <5>1, <5>3 DEF Create, TypeInv, ContextTypes
        <5>4. CASE Wait(w)
          BY <5>1, <5>4 DEF Wait, Goto, TypeInv, ContextTypes
        <5>5. QED
          BY <5>2, <5>3, <5>4
      <4>4. QED
        BY <4>3
    <3>3. pc[Self(w)] # "done" /\ (l = "done" => pc[Self(w)] = "epilog")
      BY <3>1 DEF Moves
    <3>4. QED
      BY <3>1, <3>2, <3>3, ContextFacts DEF TypeInv, ContextTypes
  <2>6. QED
    BY <1>1, <2>1, <2>2, <2>3, <2>4, <2>5, WorkerMoves
<1>2. CASE DestroyStep
  <2>1. (\E l : pc' = [pc EXCEPT ![Main] = l]) /\ Main \notin Tasks /\ Main \in Contexts
    BY <1>2, DestroyMoves
  <2>2. Kept
    BY <2>1, ContextFacts DEF TypeInv, ContextTypes
  <2>3. QED
    BY <2>2
<1>3. ASSUME NEW w \in Workers, EpilogRecord(w), current_task[w] \in Tasks,
             pc[current_task[w]] = "run", pc' = [pc EXCEPT ![current_task[w]] = "epilog"]
      PROVE  /\ \A t \in Tasks : pc[t] = "done" => pc'[t] = "done"
             /\ \A t \in Tasks : pc'[t] \in {"epilog", "done"} =>
                    pc[t] \in {"epilog", "done"} \/ (EpilogRecord(w) /\ t = current_task[w])
  BY <1>3, ContextFacts DEF TypeInv, ContextTypes
<1>4. CASE Kept
  BY <1>4
<1>5. CASE UNCHANGED vars
  BY <1>5 DEF vars
<1>6. QED
  BY <1>1, <1>2, <1>3, <1>4, <1>5 DEF Next, Down

\* The main program in mir_destroy is moved by mir_destroy alone.
LEMMA MainMoves ==
    ASSUME BaseInv, NEW w \in Workers, WorkerStep(w)
    PROVE  IF pc[Main] \in ShutLabels THEN pc'[Main] = pc[Main] ELSE pc'[Main] \notin ShutLabels
<1> USE DEF BaseInv
<1>1. \A c \in Contexts : pc'[c] = pc[c] \/ (pc[c] \notin ShutLabels /\ pc'[c] \notin ShutLabels)
  <2>1. CASE Create(w)
    <3>1. g_tasks_uidc \in Tasks /\ pc[g_tasks_uidc] = "none" /\ pc[Self(w)] = "run"
      BY <2>1, BoundsAssumption DEF Create, At, TypeInv, TaskTypes, Tasks, LabelInv
    <3>2. QED
      BY <2>1, <3>1, SelfFacts DEF Create, TypeInv, ContextTypes, ShutLabels
  <2>2. CASE PushInline(w) \/ Execute(w)
    <3>1. pc[Self(w)] \in {"push", "execute"} /\ pc[job[Self(w)]] = "queued"
      BY <2>2, HandFacts DEF PushInline, Execute, At
    <3>2. QED
      BY <2>2, <3>1, SelfFacts DEF PushInline, Execute, Run, TypeInv, ContextTypes, ShutLabels
  <2>3. CASE ReduceAdd(w)
    BY <2>3 DEF ReduceAdd
  <2>4. ASSUME NEW l \in Labels, MovesTo(w, l)
        PROVE  \A c \in Contexts : pc'[c] = pc[c] \/ (pc[c] \notin ShutLabels /\ pc'[c] \notin ShutLabels)
    <3>1. <<pc[Self(w)], l>> \in Moves /\ pc' = [pc EXCEPT ![Self(w)] = l]
      BY <2>4 DEF MovesTo
    <3>2. pc[Self(w)] \notin ShutLabels /\ l \notin ShutLabels
      BY <3>1 DEF Moves, ShutLabels
    <3>3. QED
      BY <3>1, <3>2 DEF TypeInv, ContextTypes
  <2>5. QED
    BY <2>1, <2>2, <2>3, <2>4, WorkerMoves
<1>2. QED
  BY <1>1, ContextFacts DEF Main

\* With every task done and the main program in mir_destroy, the queues are
\* empty and no worker has a task.
LEMMA NothingLeft ==
    ASSUME BaseInv, pc[Main] \in ShutLabels, \A t \in Created : pc[t] = "done"
    PROVE  /\ \A w \in Workers : current_task[w] = NoTask /\ Self(w) = Base(w)
           /\ \A c \in Contexts : pc[c] \notin {"run", "push", "pushed", "popped", "execute"}
           /\ Queued = {}
<1> USE DEF BaseInv
<1>1. \A t \in Tasks : pc[t] \in {"none", "done"}
  BY DEF LabelInv, Created, Tasks, TypeInv, TaskTypes
<1>2. \A w \in Workers : current_task[w] = NoTask
  <2>1. ASSUME NEW w \in Workers, current_task[w] # NoTask PROVE FALSE
    <3>1. current_task[w] \in Tasks /\ pc[current_task[w]] \in Executing
      BY <2>1, SelfFacts DEF StackInv
    <3>2. QED
      BY <1>1, <3>1 DEF Executing, UserLabels, WorkLabels
  <2>2. QED
    BY <2>1
<1>3. \A t \in Tasks : pc[t] # "queued"
  BY <1>1
<1>4. \A c \in Contexts : pc[c] \notin {"push", "popped", "execute"}
  <2>1. ASSUME NEW c \in Contexts, pc[c] \in {"push", "popped", "execute"} PROVE FALSE
    <3>1. job[c] # NoTask /\ job[c] \in Tasks
      BY <2>1, ContextFacts DEF LabelInv, TypeInv, ContextTypes
    <3>2. pc[job[c]] = "queued"
      BY <2>1, <3>1 DEF PlaceInv
    <3>3. QED
      BY <1>3, <3>1, <3>2
  <2>2. QED
    BY <2>1
<1>5. \A c \in Contexts : pc[c] \notin {"run", "pushed"}
  <2>1. ASSUME NEW w \in Workers PROVE pc[Base(w)] \notin {"run", "pushed"}
    BY DEF LabelInv, LoopLabels, WorkLabels, Main, ShutLabels
  <2>2. QED
    BY <1>1, <2>1, ContextFacts
<1>6. Queued = {}
  <2>1. Queued \in SUBSET Tasks /\ \A t \in Queued : pc[t] = "queued"
    BY QueuedFacts DEF PlaceInv
  <2>2. QED
    BY <1>3, <2>1
<1>7. QED
  BY <1>2, <1>4, <1>5, <1>6, SelfFacts

LEMMA NextCreated ==
    ASSUME TypeInv'
    PROVE  Created' \subseteq Tasks
<1>1. PICK n \in 1 .. MaxTasks + 1 : g_tasks_uidc' = n
  BY DEF TypeInv, TaskTypes
<1>2. Created' = 1 .. n - 1
  BY <1>1 DEF Created
<1>3. QED
  BY <1>2, BoundsAssumption DEF Tasks

LEMMA StructStep ==
    ASSUME BaseInv, WaitInv, CounterInv, StructInv, [Next]_vars
    PROVE  StructInv'
<1> USE DEF BaseInv, WaitInv
<1> SUFFICES ASSUME Structured
             PROVE  /\ \A t \in Created' : pc'[t] \in {"epilog", "done"} =>
                          \A u \in Children(t)' : pc'[u] = "done"
                    /\ pc'[Main] \in ShutLabels => \A t \in Created' : pc'[t] = "done"
                    /\ pc'[Main] \in CheckedLabels => g_worker_status_board' = 0
                    /\ sig_dying' # {} => pc'[Main] \in CheckedLabels \ {"assert_1", "assert_2"}
  BY DEF StructInv, CheckedLabels, ShutLabels, Main, Base
<1>1. /\ \A t \in Created : pc[t] \in {"epilog", "done"} => \A u \in Children(t) : pc[u] = "done"
      /\ pc[Main] \in ShutLabels => \A t \in Created : pc[t] = "done"
      /\ pc[Main] \in CheckedLabels => g_worker_status_board = 0
      /\ sig_dying # {} => pc[Main] \in CheckedLabels \ {"assert_1", "assert_2"}
  BY DEF StructInv
<1>2. (\E w \in Workers : Create(w)) \/ UNCHANGED taskVars
  <2>1. CASE DestroyStep
    BY <2>1, DestroyFrame DEF shutdownFrame, taskVars
  <2>2. CASE UNCHANGED vars
    BY <2>2 DEF vars, taskVars
  <2>3. ASSUME NEW w \in Workers, WorkerStep(w) PROVE Create(w) \/ UNCHANGED taskVars
    BY <2>3, WorkerFrames
  <2>4. QED
    BY <2>1, <2>2, <2>3 DEF Next, Down
<1>3. UNCHANGED taskVars => Created' = Created /\ \A t \in Tasks : Children(t)' = Children(t)
  BY DEF taskVars, Created, Children
<1>4. ASSUME NEW w \in Workers, Create(w)
      PROVE  \A t \in Tasks : pc[t] \in {"epilog", "done"} => Children(t)' = Children(t)
  <2>1. parent' = [parent EXCEPT ![g_tasks_uidc] = current_task[w]] /\ g_tasks_uidc' = g_tasks_uidc + 1
    BY <1>4 DEF Create
  <2>2. g_tasks_uidc \in Tasks /\ pc[Self(w)] = "run"
    BY <1>4, BoundsAssumption DEF Create, At, TypeInv, TaskTypes, Tasks
  <2>3. ASSUME NEW t \in Tasks, pc[t] \in {"epilog", "done"} PROVE t # current_task[w]
    BY <2>2, <2>3, SelfFacts, ContextFacts
  <2>4. \A t \in Tasks : Children(t)' = {u \in 1 .. g_tasks_uidc : parent'[u] = t}
    BY <2>1, <2>2 DEF Children, Created, Tasks
  <2>5. \A u \in Tasks : parent'[u] = IF u = g_tasks_uidc THEN current_task[w] ELSE parent[u]
    BY <2>1, <2>2 DEF TypeInv, TaskTypes
  <2>6. 1 .. g_tasks_uidc = Created \cup {g_tasks_uidc} /\ g_tasks_uidc \notin Created /\ Created \subseteq Tasks
    BY <2>2, BoundsAssumption, ChildFacts DEF Created, Tasks
  <2>7. QED
    BY <2>2, <2>3, <2>4, <2>5, <2>6 DEF Children
<1>5. /\ \A t \in Tasks : pc[t] = "done" => pc'[t] = "done"
      /\ \A t \in Tasks : pc'[t] \in {"epilog", "done"} =>
             pc[t] \in {"epilog", "done"} \/ \E w \in Workers : EpilogRecord(w) /\ t = current_task[w]
  BY TaskMoves
<1>6. ASSUME NEW t \in Created', pc'[t] \in {"epilog", "done"}
      PROVE  \A u \in Children(t)' : pc'[u] = "done"
  <2>1. t \in Tasks
    <3>1. TypeInv'
      BY TypeStep
    <3>2. QED
      BY <3>1, NextCreated
  <2>2. CASE pc[t] \in {"epilog", "done"}
    <3>1. t \in Created
      BY <2>1, <2>2 DEF LabelInv, Created, Tasks, TypeInv, TaskTypes
    <3>2. Children(t)' = Children(t) /\ Children(t) \subseteq Tasks
      BY <1>2, <1>3, <1>4, <2>1, <2>2, ChildFacts, ContextFacts
    <3>3. QED
      BY <1>1, <1>5, <2>2, <3>1, <3>2
  <2>3. ASSUME NEW w \in Workers, EpilogRecord(w), t = current_task[w]
        PROVE  \A u \in Children(t)' : pc'[u] = "done"
    <3>1. count[t] = 0 /\ UNCHANGED taskVars
      BY <2>3 DEF EpilogRecord, MayEnd
    <3>2. t \in Owners /\ Children(t)' = Children(t) /\ Children(t) \subseteq Tasks
      BY <1>3, <2>1, <3>1, ChildFacts, ContextFacts
    <3>3. QED
      BY <1>5, <3>1, <3>2, NothingCounted
  <2>4. QED
    BY <1>5, <1>6, <2>1, <2>2, <2>3
<1>7. ASSUME NEW w \in Workers, WorkerStep(w)
      PROVE  /\ pc'[Main] \in ShutLabels => \A t \in Created' : pc'[t] = "done"
             /\ pc'[Main] \in CheckedLabels => g_worker_status_board' = 0
             /\ sig_dying' # {} => pc'[Main] \in CheckedLabels \ {"assert_1", "assert_2"}
  <2>1. sig_dying' = sig_dying
    <3>1. CASE Die(w) \/ SignalDead(w)
      BY <3>1 DEF Die, SignalDead
    <3>2. QED
      BY <1>7, <3>1, WorkerFrames DEF deathVars
  <2>2. CASE pc[Main] \in ShutLabels
    <3>1. pc'[Main] = pc[Main] /\ \A t \in Created : pc[t] = "done"
      BY <1>1, <1>7, <2>2, MainMoves
    <3>2. /\ \A v \in Workers : current_task[v] = NoTask /\ Self(v) = Base(v)
          /\ \A c \in Contexts : pc[c] \notin {"run", "push", "pushed", "popped", "execute"}
      BY <2>2, <3>1, NothingLeft
    <3>3. ~Create(w) /\ ~Execute(w) /\ ~CountPush(w) /\ ~CountPop(w)
      BY <3>2, SelfFacts DEF Create, Execute, CountPush, CountPop, At
    <3>4. \A t \in Created' : pc'[t] = "done"
      <4>1. Created' = Created /\ Created \subseteq Tasks
        BY <1>3, <1>7, <3>3, WorkerFrames, ChildFacts
      <4>2. QED
        BY <1>5, <3>1, <4>1
    <3>5. ASSUME pc[Main] \in CheckedLabels PROVE g_worker_status_board' = 0
      <4>1. g_worker_status_board = 0 /\ Cardinality(AtLabel("executed")) = 0
        BY <1>1, <3>5 DEF CounterInv
      <4>2. AtLabel("executed") = {}
        <5>1. IsFiniteSet(AtLabel("executed"))
          BY ContextsFinite, FS_Subset DEF AtLabel
        <5>2. QED
          BY <4>1, <5>1, FS_EmptySet
      <4>3. ~Executed(w)
        BY <4>2, SelfFacts DEF Executed, At, AtLabel
      <4>4. g_worker_status_board' = g_worker_status_board
        BY <1>7, <3>3, <4>3, WorkerFrames DEF counterVars
      <4>5. QED
        BY <4>1, <4>4
    <3>6. QED
      BY <1>1, <2>1, <3>1, <3>4, <3>5
  <2>3. CASE pc[Main] \notin ShutLabels
    <3>1. pc'[Main] \notin ShutLabels /\ pc[Main] \notin CheckedLabels
      BY <1>7, <2>3, MainMoves DEF CheckedLabels, ShutLabels
    <3>2. QED
      BY <1>1, <2>1, <3>1 DEF CheckedLabels, ShutLabels
  <2>4. QED
    BY <2>2, <2>3
<1>8. ASSUME DestroyStep
      PROVE  /\ pc'[Main] \in ShutLabels => \A t \in Created' : pc'[t] = "done"
             /\ pc'[Main] \in CheckedLabels => g_worker_status_board' = 0
             /\ sig_dying' # {} => pc'[Main] \in CheckedLabels \ {"assert_1", "assert_2"}
  <2>1. /\ Self(0) = Main /\ current_task[0] = NoTask /\ Main \in Contexts /\ UNCHANGED shutdownFrame
        /\ Destroy \/ pc[Main] \in ShutLabels
    BY <1>8, DestroyMoves
  <2>2. Created' = Created /\ Created \subseteq Tasks /\ g_worker_status_board' = g_worker_status_board
    BY <1>3, <2>1, ChildFacts DEF shutdownFrame, taskVars, counterVars
  <2>3. \A t \in Created : pc[t] = "done"
    <3>1. CASE Destroy
      <4>1. count[NoTask] = 0 /\ NoTask \in Owners
        BY <2>1, <3>1, ContextFacts DEF Destroy, MayEnd
      <4>2. QED
        BY <1>1, <4>1, NothingCounted, AllDone
    <3>2. QED
      BY <1>1, <2>1, <3>1
  <2>4. ASSUME NEW l, Goto(0, l) PROVE pc'[Main] = l
    BY <2>1, <2>4 DEF Goto, TypeInv, ContextTypes
  <2>5. /\ pc'[Main] \in CheckedLabels =>
              pc[Main] \in CheckedLabels \/ g_worker_status_board = 0
        /\ pc'[Main] \in CheckedLabels \/ (sig_dying' = sig_dying /\ pc[Main] \notin CheckedLabels)
        /\ sig_dying' = sig_dying \/ pc'[Main] \in {"announce", "kill"}
        /\ pc[Main] \in CheckedLabels \ {"assert_1", "assert_2"} =>
              pc'[Main] \in CheckedLabels \ {"assert_1", "assert_2"}
    <3>1. CASE Destroy
      <4>1. pc'[Main] = "check_1" /\ pc[Main] = "run" /\ sig_dying' = sig_dying
        BY <2>4, <3>1 DEF Destroy, deathVars
      <4>2. QED
        BY <4>1 DEF CheckedLabels
    <3>2. CASE CheckDone
      <4>1. /\ pc[Main] \in {"check_1", "check_2", "check_3", "check_4"} /\ sig_dying' = sig_dying
            /\ pc'[Main] \in {"check_1", "check_2", "check_3", "check_4"}
               \/ g_worker_status_board = 0
        BY <2>4, <3>2 DEF CheckDone, CheckStep, deathVars
      <4>2. pc'[Main] \in {"check_1", "check_2", "check_3", "check_4", "assert_1"}
        BY <2>4, <3>2 DEF CheckDone, CheckStep
      <4>3. QED
        BY <4>1, <4>2 DEF CheckedLabels
    <3>3. CASE Assert
      <4>1. /\ sig_dying' = sig_dying
            /\ \/ pc[Main] = "assert_1" /\ pc'[Main] = "assert_2"
               \/ pc[Main] = "assert_2" /\ pc'[Main] = "announce"
        BY <2>4, <3>3 DEF Assert, deathVars
      <4>2. QED
        BY <4>1 DEF CheckedLabels
    <3>4. CASE Announce
      <4>1. pc[Main] = "announce" /\ pc'[Main] \in {"announce", "kill"}
        BY <2>4, <3>4 DEF Announce, ForEachWorker
      <4>2. QED
        BY <4>1 DEF CheckedLabels
    <3>5. CASE Kill \/ Unlock \/ WaitDead
      <4>1. /\ sig_dying' = sig_dying
            /\ pc[Main] \in {"kill", "unlock", "wait_dead"}
            /\ pc'[Main] \in {"unlock", "wait_dead", "down"}
        BY <2>4, <3>5 DEF Kill, Unlock, WaitDead, ForEachWorker, deathVars
      <4>2. QED
        BY <4>1 DEF CheckedLabels
    <3>6. QED
      BY <1>8, <3>1, <3>2, <3>3, <3>4, <3>5 DEF DestroyStep
  <2>6. \A t \in Created' : pc'[t] = "done"
    BY <1>5, <2>2, <2>3
  <2>7. pc'[Main] \in CheckedLabels => g_worker_status_board' = 0
    BY <1>1, <2>2, <2>5
  <2>8. sig_dying' # {} => pc'[Main] \in CheckedLabels \ {"assert_1", "assert_2"}
    <3>1. CASE sig_dying' = sig_dying
      BY <1>1, <2>5, <3>1
    <3>2. CASE pc'[Main] \in {"announce", "kill"}
      BY <3>2 DEF CheckedLabels
    <3>3. QED
      BY <2>5, <3>1, <3>2
  <2>9. QED
    BY <2>6, <2>7, <2>8
<1>9. ASSUME UNCHANGED vars
      PROVE  /\ pc'[Main] \in ShutLabels => \A t \in Created' : pc'[t] = "done"
             /\ pc'[Main] \in CheckedLabels => g_worker_status_board' = 0
             /\ sig_dying' # {} => pc'[Main] \in CheckedLabels \ {"assert_1", "assert_2"}
  BY <1>1, <1>9 DEF vars, taskVars, counterVars, deathVars, Created
<1>10. QED
  BY <1>6, <1>7, <1>8, <1>9 DEF Next, Down
-----------------------------------------------------------------------------
(* Theorems *)

LEMMA CounterInit ==
    ASSUME Init
    PROVE  CounterInv
<1>1. Queued = {} /\ Cardinality(Queued) = 0
  <2>1. TypeInv
    BY BaseInit DEF BaseInv
  <2>2. \A t : t \notin Queued
    BY <2>1, QueuedFacts DEF Init, Private, Elements
  <2>3. QED
    BY <2>2, FS_EmptySet
<1>2. \A c \in Contexts : pc[c] \notin {"popped", "pushed", "executed"}
  BY DEF Init
<1>3. AtLabel("popped") = {} /\ AtLabel("pushed") = {} /\ AtLabel("executed") = {}
  BY <1>2 DEF AtLabel
<1>4. Cardinality({}) = 0
  BY FS_EmptySet
<1>5. 0 % Word = 0
  BY BoundsAssumption
<1>6. g_num_tasks_waiting = 0 /\ g_worker_status_board = 0
  BY DEF Init
<1>7. Cardinality(Queued) + Cardinality(AtLabel("popped")) - Cardinality(AtLabel("pushed")) = 0
  BY <1>1, <1>3, <1>4
<1>8. QED
  BY <1>3, <1>4, <1>5, <1>6, <1>7 DEF CounterInv

LEMMA DeathInit ==
    ASSUME Init
    PROVE  DeathInv
<1>1. \A w \in Workers : pc[Base(w)] \in {"run", "private_pop"}
  BY ContextFacts DEF Init
<1>2. pc[Main] \in {"run", "private_pop"} /\ g_sig_worker_alive = 0 /\ sig_die = Workers
  BY <1>1, ContextFacts DEF Main, Init
<1>3. QED
  BY <1>1, <1>2 DEF DeathInv

LEMMA StructInit ==
    ASSUME Init
    PROVE  StructInv
<1>1. Created = {}
  BY DEF Created, Init
<1>2. pc[Main] = "run" /\ sig_dying = {}
  BY ContextFacts DEF Main, Init
<1>3. QED
  BY <1>1, <1>2 DEF StructInv, ShutLabels, CheckedLabels

\* The counters and the handshake, for programs that end with or without waiting.
THEOREM EndInvariant == Spec => [](CounterInv /\ DeathInv /\ StructInv)
<1>1. Init => CounterInv /\ DeathInv /\ StructInv
  BY CounterInit, DeathInit, StructInit
<1>2. BaseInv /\ WaitInv /\ (CounterInv /\ DeathInv /\ StructInv) /\ [Next]_vars
        => (CounterInv /\ DeathInv /\ StructInv)'
  BY CounterStep, DeathStep, StructStep
<1>3. QED
  BY <1>1, <1>2, BaseInvariant, WaitInvariant, PTL DEF Spec

\* The two global counters, read at any moment, differ from the queued tasks and
\* the busy workers only by the calls that the code does not cover.
THEOREM CountersFollow == Spec => []CountersMatch
<1>1. CounterInv => CountersMatch
  BY DEF CounterInv, CountersMatch, AtLabel
<1>2. QED
  BY <1>1, EndInvariant, PTL

LEMMA QuietEnd ==
    ASSUME BaseInv, CounterInv, StructInv, Structured
    PROVE  CheckDoneAssertsHold /\ ShutdownIsQuiet
<1>1. ASSUME pc[Main] \in ShutLabels
      PROVE  Queued = {} /\ g_num_tasks_waiting = 0 /\ \A t \in Created : pc[t] = "done"
  <2>1. \A t \in Created : pc[t] = "done"
    BY <1>1 DEF StructInv
  <2>2. Queued = {} /\ AtLabel("popped") = {} /\ AtLabel("pushed") = {}
    BY <1>1, <2>1, NothingLeft DEF AtLabel
  <2>3. Cardinality({}) = 0 /\ 0 % Word = 0
    BY FS_EmptySet, BoundsAssumption
  <2>4. g_num_tasks_waiting = (Cardinality({}) + Cardinality({}) - Cardinality({})) % Word
    BY <2>2 DEF CounterInv
  <2>5. Cardinality({}) + Cardinality({}) - Cardinality({}) = 0
    BY <2>3
  <2>6. QED
    BY <2>1, <2>2, <2>3, <2>4, <2>5
<1>2. pc[Main] \in CheckedLabels => g_worker_status_board = 0
  BY DEF StructInv
<1>3. sig_dying # {} => pc[Main] \in CheckedLabels
  BY DEF StructInv
<1>4. CheckedLabels \subseteq ShutLabels /\ {"assert_1", "assert_2"} \subseteq CheckedLabels
  BY DEF CheckedLabels, ShutLabels
<1>5. CheckDoneAssertsHold
  BY <1>1, <1>2, <1>4 DEF CheckDoneAssertsHold
<1>6. ShutdownIsQuiet
  BY <1>1, <1>2, <1>3, <1>4 DEF ShutdownIsQuiet
<1>7. QED
  BY <1>5, <1>6

\* If user code waits for the tasks it creates, neither assertion of
\* mir_worker_check_done fires.
THEOREM AssertsHold == Structured => (Spec => []CheckDoneAssertsHold)
<1>1. BaseInv /\ CounterInv /\ StructInv => (Structured => CheckDoneAssertsHold)
  BY QuietEnd
<1>2. Spec => [](Structured => CheckDoneAssertsHold)
  BY <1>1, BaseInvariant, EndInvariant, PTL
<1>3. ASSUME Structured PROVE Spec => []CheckDoneAssertsHold
  <2>1. (Structured => CheckDoneAssertsHold) => CheckDoneAssertsHold
    BY <1>3
  <2>2. QED
    BY <1>2, <2>1, PTL
<1>4. QED
  BY <1>3

\* ... and when the signal to die is out no task is left anywhere.
THEOREM QuietShutdown == Structured => (Spec => []ShutdownIsQuiet)
<1>1. BaseInv /\ CounterInv /\ StructInv => (Structured => ShutdownIsQuiet)
  BY QuietEnd
<1>2. Spec => [](Structured => ShutdownIsQuiet)
  BY <1>1, BaseInvariant, EndInvariant, PTL
<1>3. ASSUME Structured PROVE Spec => []ShutdownIsQuiet
  <2>1. (Structured => ShutdownIsQuiet) => ShutdownIsQuiet
    BY <1>3
  <2>2. QED
    BY <1>2, <2>1, PTL
<1>4. QED
  BY <1>3
-----------------------------------------------------------------------------
(* The bounds of the types *)

LEMMA CounterBounds ==
    ASSUME TypeInv, WaitInv, NEW k \in Owners
    PROVE  /\ count[k] \in 0 .. MaxTasks /\ num_passes[k] \in 0 .. MaxTasks
           /\ epoch(k) \in 0 .. MaxTasks
           /\ \A w \in Workers : count_per_worker[k][w] \in 0 .. MaxTasks
           /\ scan[Ctx(k)].sum \in 0 .. MaxTasks
<1> USE DEF WaitInv
<1>1. /\ Fresh(k) \in SUBSET Tasks /\ Stale(k) \in SUBSET Tasks
      /\ epoch(k) \in Int /\ num_passes[k] \in Nat /\ count[k] \in Nat
  BY ChildFacts
<1>2. /\ count[k] = Cardinality(Fresh(k)) /\ 0 <= epoch(k) /\ epoch(k) <= Cardinality(Stale(k))
      /\ pc[Ctx(k)] = "reset" => count[k] > 0
  BY DEF CountInv, WaitLabels
<1>3. /\ Cardinality(Fresh(k)) \in Nat /\ Cardinality(Fresh(k)) <= MaxTasks
      /\ Cardinality(Stale(k)) \in Nat /\ Cardinality(Stale(k)) <= MaxTasks
  BY <1>1, TaskSets
<1>4. MaxTasks \in Nat
  BY BoundsAssumption
<1>5. count[k] \in 0 .. MaxTasks /\ epoch(k) \in 0 .. MaxTasks
  BY <1>1, <1>2, <1>3, <1>4
<1>6. num_passes[k] \in 0 .. MaxTasks
  <2>1. CASE pc[Ctx(k)] = "reset"
    <3>1. Fresh(k) \cap Stale(k) = {}
      <4>1. ASSUME NEW t \in Fresh(k), t \in Stale(k) PROVE FALSE
        <5>1. born[t] = epoch(k) /\ born[t] < epoch(k)
          BY <4>1 DEF Fresh, Stale
        <5>2. QED
          BY <1>1, <5>1
      <4>2. QED
        BY <4>1
    <3>2. Cardinality(Fresh(k) \cup Stale(k)) = Cardinality(Fresh(k)) + Cardinality(Stale(k))
      BY <1>1, <3>1, TaskSetUnion
    <3>3. Cardinality(Fresh(k) \cup Stale(k)) <= MaxTasks
      BY <1>1, TaskSets
    <3>4. epoch(k) = num_passes[k] - 1
      BY <2>1 DEF epoch
    <3>5. QED
      BY <1>1, <1>2, <1>3, <1>4, <2>1, <3>2, <3>3, <3>4
  <2>2. CASE pc[Ctx(k)] # "reset"
    BY <1>5, <2>2 DEF epoch
  <2>3. QED
    BY <2>1, <2>2
<1>7. PICK e \in [Tasks -> Workers] : CellInv(e)
  OBVIOUS
<1>8. \A S : DoneOn(k, S, e) \in SUBSET Tasks
  BY <1>1 DEF DoneOn
<1>9. ASSUME NEW w \in Workers PROVE count_per_worker[k][w] \in 0 .. MaxTasks
  <2>1. count_per_worker[k][w] = Cardinality(DoneOn(k, {w}, e))
    BY <1>7 DEF CellInv
  <2>2. /\ Cardinality(DoneOn(k, {w}, e)) \in Nat
        /\ Cardinality(DoneOn(k, {w}, e)) <= MaxTasks
    BY <1>8, TaskSets
  <2>3. QED
    BY <1>4, <2>1, <2>2
<1>10. scan[Ctx(k)].sum \in 0 .. MaxTasks
  <2> DEFINE D == DoneOn(k, 0 .. scan[Ctx(k)].i - 1, e)
  <2>1. scan[Ctx(k)].sum <= Cardinality(D)
    BY <1>7 DEF CellInv
  <2>2. Cardinality(D) \in Nat /\ Cardinality(D) <= MaxTasks
    BY <1>8, TaskSets
  <2>3. scan[Ctx(k)].sum \in Nat
    BY ChildFacts DEF TypeInv, ContextTypes
  <2> HIDE DEF D
  <2>4. QED
    BY <1>4, <2>1, <2>2, <2>3
<1>11. QED
  BY <1>5, <1>6, <1>9, <1>10

LEMMA TypesHold ==
    ASSUME BaseInv, WaitInv, CounterInv, DeathInv
    PROVE  TypeOK
<1> USE DEF BaseInv
<1>1. MaxTasks \in Nat /\ NumWorkers \in Nat \ {0}
  BY BoundsAssumption, WorkersAssumption
<1>2. TaskTypes /\ StackTypes /\ TwcTypes /\ QueueTypes /\ GlobalTypes /\ ContextTypes
  BY DEF TypeInv
<1>3. born \in [Tasks -> 0 .. MaxTasks] /\ sync_pass \in [Tasks -> 0 .. MaxTasks]
  <2>1. ASSUME NEW t \in Tasks
        PROVE  born[t] \in 0 .. MaxTasks /\ sync_pass[t] \in 0 .. MaxTasks
    <3>1. CASE t \in Created
      <4>1. /\ born[t] <= epoch(parent[t]) /\ born[t] \in Nat /\ parent[t] \in Owners
            /\ sync_pass[t] = born[t] \/ sync_pass[t] = 0
        BY <3>1, ChildFacts DEF WaitInv, BornInv
      <4>2. epoch(parent[t]) \in 0 .. MaxTasks
        BY <4>1, CounterBounds
      <4>3. QED
        BY <1>1, <4>1, <4>2
    <3>2. CASE t \notin Created
      <4>1. pc[t] = "none" /\ t >= g_tasks_uidc
        BY <3>2 DEF LabelInv, Created, Tasks, TypeInv, TaskTypes
      <4>2. born[t] = 0 /\ sync_pass[t] = 0
        BY <4>1 DEF WaitInv, BornInv
      <4>3. QED
        BY <1>1, <4>2
    <3>3. QED
      BY <3>1, <3>2
  <2>2. born \in [Tasks -> Nat] /\ sync_pass \in [Tasks -> Nat]
    BY <1>2 DEF TaskTypes
  <2>3. QED
    BY <2>1, <2>2
<1>4. /\ count \in [Owners -> 0 .. MaxTasks] /\ num_passes \in [Owners -> 0 .. MaxTasks]
      /\ count_per_worker \in [Owners -> [Workers -> 0 .. MaxTasks]]
  <2>1. /\ \A k \in Owners : count[k] \in 0 .. MaxTasks /\ num_passes[k] \in 0 .. MaxTasks
        /\ \A k \in Owners : \A w \in Workers : count_per_worker[k][w] \in 0 .. MaxTasks
    BY CounterBounds
  <2>2. \A k \in Owners : count_per_worker[k] \in [Workers -> 0 .. MaxTasks]
    BY <1>2, <2>1 DEF TwcTypes
  <2>3. QED
    BY <1>2, <2>1, <2>2 DEF TwcTypes
<1>5. scan \in [Contexts -> [i : 0 .. NumWorkers, sum : 0 .. MaxTasks]]
  <2>1. ASSUME NEW c \in Contexts PROVE scan[c].sum \in 0 .. MaxTasks
    <3>1. CASE \E k \in Owners : c = Ctx(k)
      BY <3>1, CounterBounds
    <3>2. CASE \A k \in Owners : c # Ctx(k)
      <4>1. PICK w \in Workers : c = Base(w) /\ w # 0
        BY <3>2, ContextFacts DEF Ctx, Main
      <4>2. pc[c] # "reduce"
        BY <4>1 DEF LabelInv, LoopLabels, WorkLabels
      <4>3. scan[c].sum = 0
        BY <4>2 DEF ScanInv
      <4>4. QED
        BY <1>1, <4>3
    <3>3. QED
      BY <3>1, <3>2
  <2>2. scan \in [Contexts -> [i : 0 .. NumWorkers, sum : Nat]]
    BY <1>2 DEF ContextTypes
  <2>3. \A c \in Contexts : scan[c] \in [i : 0 .. NumWorkers, sum : 0 .. MaxTasks]
    BY <2>1, <2>2
  <2>4. QED
    BY <2>2, <2>3
<1>6. g_worker_status_board \in 0 .. Cardinality(Contexts)
  <2>1. AtLabel("executed") \subseteq Contexts
    BY DEF AtLabel
  <2>2. /\ Cardinality(AtLabel("executed")) \in Nat /\ Cardinality(Contexts) \in Nat
        /\ Cardinality(AtLabel("executed")) <= Cardinality(Contexts)
    BY <2>1, ContextsFinite, FS_Subset, FS_CardinalityType
  <2>3. QED
    BY <2>2 DEF CounterInv
<1>7. g_sig_worker_alive \in 0 .. NumWorkers - 1
  BY <1>1, LivingFacts DEF DeathInv
<1>8. QED
  BY <1>2, <1>3, <1>4, <1>5, <1>6, <1>7
     DEF TypeOK, TaskTypes, StackTypes, TwcTypes, QueueTypes, GlobalTypes, ContextTypes

\* The types with their bounds: no counter of a task exceeds the number of
\* tasks, and no worker is waited for that is not there.
THEOREM TypesAreBounded == Spec => []TypeOK
BY BaseInvariant, WaitInvariant, EndInvariant, TypesHold, PTL
=============================================================================
