# A verification project for MIR

MIR is an experimental task-parallel runtime system in C (`src/src`). A program
creates tasks and waits for them; MIR's worker threads queue, schedule, execute
and profile them. This directory holds TLA+ models of its concurrent core, the
TLC runs that check them on small instances, and proofs that TLAPS checks for
every value of the parameters.

## The system

| Part | Code | State | Operations |
|---|---|---|---|
| task queue | `mir_task_queue.c` (and its copy for `void*`, `mir_queue.c`) | ring `buffer`, `in`, `out`, `size`, a lock per end | create, push, pop, size |
| tasks | `mir_task.c` | parent, predecessor, wait counter, sync pass, flags `done` and `taken` | create (on any or on a named worker), execute (prolog, function, epilog), wait |
| wait counters | `mir_twc.c`, `mir_task.c` | `count`, one cell per worker, `num_passes` | create, link, reduce, pass, reset |
| workers | `mir_worker.c` | current task, private queue, back-off, signals to die; globally `g_num_tasks_waiting`, `g_worker_status_board` | worker loop, do_work, push, pop, check_done |
| runtime | `mir_runtime.c` | workers, options, `init_count`, `g_sig_worker_alive` | create, destroy |
| policies | `scheduling/*.c` | one queue, stack, deque or several | push, pop |
| deque | `mir_dequeue.c`, `.h` | `top`, `bottom`, `topBound`, elements | owner: push, pop; thieves: steal |
| stacks | `mir_task_stack.c`, `mir_stack.c` | array, size, lock | push, pop, size |
| recorder | `mir_recorder.c` | stack of states, buffers of states and events, per worker | state begin / end / transition, event, flush |
| memory distribution | `mir_mem_pol.c` | allocation policy, node of each page, footprint distributions | allocate, release, distance and cost queries |
| loops, teams, barriers | `mir_loop.c`, `mir_team.c`, `mir_barrier.c` | loop bounds, chunk, team barrier | used by the OpenMP interface |
| the rest | `mir_lock.c`, `mir_memory.c`, `mir_utils.c`, `arch/*.c` | a mutex, an allocation counter, clocks, tables | wrappers |

How they interact. User code runs in worker 0 and inside tasks. Creating a task
links it to its parent's wait counter, pushes it to the policy (or to the
private queue of a named worker) and raises `g_num_tasks_waiting`; a push that
the policy refuses makes the creator execute the task on the spot. A worker
without a task calls `do_work`: private queue, policy, else back off. A wait
also calls `do_work` until the counter's cells add up to its count. Ending,
`mir_destroy` waits for the two global counters to be zero, tells the workers
to die and takes the runtime apart.

What is hard, and what makes each part correct:

* **task queue** - producers and consumers hold different locks and meet in
  `size`: it must nevertheless be one FIFO queue.
* **tasks, waits, workers** - contexts nest on each worker, children end on any
  worker at any time, and the waiter resets counters that children increment
  without a lock: no wait may end early or count a child of another wait, no
  task may be lost or run twice, and every wait must end.
* **shutdown** - counters updated around, not with, the queue operations must
  show that nothing is left to do, and no worker may outlive the runtime.
* **deque** - lock-free, on a machine that delays writes, with a `cas` and a
  fence that depend on macros, and indices that wrap.
* **policies** - every pop must visit the queues it may take from, nearest first, and
  a push must find the node with the cheapest access.
* **recorder** - states must nest, buffers must be flushed before they
  overflow, and what was recorded must reach the file, though `mir_destroy` dumps
  and frees recorders that their workers still use.
* **memory distribution** - concurrent choice of nodes, distributions that add
  up, sums that fit their types.

There is no persistence and no network: no crash recovery and no unreliable
delivery to model. `PROJECT.json` lists each hazard at its line.

Facts of the build (SConstruct): assertions are on; `x86_64_HOST_ARCH` and
`WITHSMP` are not defined; `MIR_INLINE_TASK_IF_QUEUE_FULL` is; the default policy
is central-stack and the inlining limit 0 (off); the parts under `MIR_GPL` need the
OpenMP implementation, whose source is not in this repository.

## Modules

**`BoundedQueue`** is what a queue promises: each call takes effect at one
instant between call and return, in FIFO order, refused only when full or empty. It
is a specification and translates no code: `map` has no entry for it.

**`MirTaskQueue`** is the ring, one action per step between lock, check, write,
advance, count and unlock. `PushX` and `PopX` are the statements of
`mir_task_queue_push` and `_pop`; `PopCall` is also `mir_worker_pop`, which looks
at the size first. `ImplementsQueue` maps it to `BoundedQueue`: a push takes effect at
`size++`, a pop at `size--`. `consumers` says who pops from this queue: everyone from a queue of the
policy, its owner from a private one. `outside` (tasks that no call and no slot holds)
stands for the rest of the program, which pushes a task once at a time.
`mir_queue.c` is the same code for `void*`; the policies ws, central and numa use both
interfaces on one ring.

**`MirTaskQueueProofs`**, **`MirTaskingProofs`**, **`MirDequeProofs`**, **`MirSchedPolProofs`**, **`MirRuntimeProofs`**,
**`MirTraceProofs`** and **`MirMemPolProofs`** hold the
theorems below. **`FoldProofs`** has the lemmas that several of them rest on: what the library's sums, folds,
concatenations and minima of finite sets are, which the library defines by recursion and `CHOOSE`.

**`MirTasking`** is the core: creation, both kinds of queues, `do_work`, epilog, wait,
`mir_destroy` and the end of the workers. `pc[c]` says where a *context*
stands: a task, or a worker outside every task. Contexts of a worker form a
stack through `current_task` and `predecessor`, as in the code; only the top one
moves. User code is arbitrary (any sequence of creations and waits), or, with
`Structured`, waits before it ends. The policy's queues are one bounded pool from
which a pop takes any task, so what is checked holds for every policy order. Reads of
several shared cells (`mir_twc_reduce`, `mir_worker_check_done`) and updates of
counters around queue operations are separate steps. A failed assertion ends the
program: the actions go no further than it. `born` is a history variable.

**`MirDeque`** is the deque with the calls of `push_ws_de` and `pop_ws_de` around it.
Each worker has a FIFO buffer of writes that the others do not see yet (x86 total
store order); a locked instruction or a fence waits until it is empty. `HostArch`
chooses between the two compilations of `cas` and `store_load_barrier`. Indices
are modulo `Word` and compared as the C code compares them: unsigned 32-bit values
subtracted as 64-bit longs in the emptiness tests, signed 32-bit in the first test for
fullness. Registers are per-worker locals; `handed` and `inlined` are history
variables. The looks at emptiness of `pop_ws_de` before a steal and of `stealWSDeque`
between two attempts change nothing, so an attempt is one sequence from `StealTop` on.

**`MirArch`** has the tables of `arch/`, each `switch` as the function it computes:
firenze, adk, gothmog, tilepro64, and what the generator writes for any other
machine. `PredefinedTablesAgree`, evaluated by every run that reaches the module,
says that the tables of each have the types of `struct mir_arch_t` (`TableTypes`) and agree with one
another (`TablesAgree`). They are modelled with
their peculiarities: the missing `break` of gothmog, no neighbours at all on tilepro64.

**`MirMemNodeDist`** has the node distributions as operators over a table: what an
access costs, the statistics (the deviation is that of the last node, since the
code assigns where it should add), and the walk over a range of pages.

**`MirSchedPol`** has push and pop of all six policies. Where a pop stands is a place
`At(part, n)`: in its ring of queues, at its own alternate and main queue, at those of other
nodes, or at a queue of the neighbourhood. `PlaceAfter` is the step of the loop that the pop is
in, with its wrap-around and its exceptions; `Target` and `LeastCostWorker` are the choice
of a push, with `worker->bias`. A pop looks at a size (`Look`) and takes later
(`Take`), and anything may happen in between. What a pop *may* take is stated a
second time without the order of the search, by distance (`Hops`, `Rank`,
`Spared`); `shunned` is the history of what each pop has found unfit.
A queue operation is one step: that is what `MirTaskQueue` and `MirDeque` show, and the
stack is one lock around an array.

**`MirMemPol`** has allocation, release and reset under the policies system, local, coarse and
fine, with the steps of `advance_node` and the unlocked reads of `mem_pol->node`, and the
distribution of a footprint over the blocks allocated. libnuma is external:
where it puts pages is what its calls ask for, and where nothing is asked, any node.

**`MirRecorder`** has a recorder as a record, and as operators what its calls do between two moments
at which another thread may look: a state begins, a state is copied to the buffer, a head is increased, one line
is dumped, a head is rewound. A line of the trace file is marked as a state or an event; the model
keeps the two kinds apart, and `StatesOf` and `EventsOf` are what file and buffer hold of each.

**`MirTrace`** is the recorder of one worker in use: the worker's calls (`todo` lists those that come before anything
else, `call` is where the one under way stands) and `mir_recorder_write_to_file`, called by the worker at a buffer
that is nearly full, or by `mir_destroy`, line by line, each loop rereading the head, and then the two rewinds. So a worker may end its
idle state, and dump as well, in the middle of the dump of `mir_destroy`. A recorder is used by its own worker and `mir_destroy` alone, so
one worker (a thread, or the main program, with or without idle task) says all. `contexts` is where it stands: tasks
that it executes within a wait (`Take`, `Execute` below `wait`) or within a creation (`PushRefused`), each on top of
the last, to any depth; `depth` notes how many states were open when a context began. After the recorder is freed it is not followed.

**`MirRuntime`** is the life of the runtime with its workers: `mir_create` with
the start of the threads, nested scopes opened and closed by the main program and by tasks, tasks
as the counters that `mir_worker_check_done` reads and as contexts that wait, create and execute one another,
idle tasks, `mir_destroy` from user code, from a task and from
`atexit` with its phases (freeze, recorders, kill, wait), and a second runtime after it. Of recorders it has
only whether they are freed, and whether one was used then.

**`MCMachines`, `MCSchedPol`, `MCMemPol`, `MCRuntime`** give the instances: a machine of two
nodes and three cpus, one of three nodes in a line, setups of workers on them.

Abstractions: payloads, names, cycle counts, statistics and recorder calls are left
out of the other modules; a mutex is a variable that names its holder; a push
to a full private queue ends the program, so it has no step in the model.

## Runs

| Run | Instance | What it shows |
|---|---|---|
| `queue_shared` | 2 pushers, 1 or 2 poppers (one worker may be both), 3 tasks, capacity 2 | a pop finds a task, no task is lost, refinement of `BoundedQueue`; with one popper, a private queue, the unlocked look of `mir_worker_pop` is safe; no call keeps a lock (deadlock is checked) |
| `tasking_any` | 2 workers, 4 tasks, pool of 1, a private queue, any user code | waits cover all children, the assertion of `mir_twc_reduce`, same sync pass for siblings, tasks in one place, separate stacks, what the two global counters mean |
| `tasking_structured` | 2 workers, 3 tasks, user code that waits | shutdown finds nothing left and its assertions hold; every task and every wait ends |
| `tasking_unwaited` | 2 workers, 2 tasks | **violated**: the assertions of `mir_worker_check_done` |
| `deque_host` | owner, 2 thieves, 5 tasks, 4 elements, `HostArch` | each task is handed out once, the array holds the rest in order, no stale winner, the deque's assertions hold, no task is forgotten |
| `deque_built` | owner, 2 thieves, as built | **violated**: "one reader wins" |
| `sched_policies` | the six policies, 2 or 3 workers, 2 or 3 tasks, nine setups | no pop overlooks a queue it may take from, nearest queues first, the numa policy finds the cheapest node, every queued task is executed |
| `sched_gothmog` | ws-de-node on gothmog, two of 48 workers free | **violated**: the same first property, by the table of neighbours |
| `mem_pol` | four policies, 1 or 2 workers, 3 blocks | nodes take turns, bytes are accounted for (`TypeOK`), the distribution of a block and of a footprint is right, the lock is released |
| `trace` | one worker, thread or main, with or without idle task; buffers of 3, 4 states and their nesting | while the runtime lives a recorder loses and doubles nothing, nor does the file of a worker that stopped before the dump; states open are those of where the worker stands; what was recorded before `mir_destroy` dumps is in the file |
| `life_cycle` | 3 workers, 2 runtimes, 2 scopes, 2 tasks, recorder and idle task on or off | one `mir_destroy` goes through, when nothing is used any more; the workers live as long as the runtime; destroying and exiting end |
| `recorder_frozen` | 2 workers, 1 runtime | **violated**: no recorder is used after it is freed |

Bounds and why they are enough. The ring wraps and is both full and empty with
capacity 2 and three tasks; two workers at each end contend for each lock. In
`MirTasking`, two workers and four tasks give a task that is waiting while its children run
elsewhere, nested waits, two waits of one context (the second after a reset), tasks
run inside a creation (pool of 1) and a private queue behind a busy worker. Five
tasks in a deque of four elements reuse slots, fill it (3), and leave the last
element to race for. `Word` is 16, so that
`g_num_tasks_waiting` shows its passage below zero. `MaxTasks` bounds tasks everywhere.
TypeOK bounds nothing that the code does not.

In `MirSchedPol`, two nodes of unequal size tell cpus, nodes and workers apart, and
three nodes in a line have two hop distances; a cpu without a worker lies before, between or
after those with one. Capacities of 1 to 3 give full queues, footprints of 0 and 2048
bytes a node lie on both sides of the limit of what is significant, and more tasks than
`num_cores/num_nodes` give queues with something to spare. In `MirMemPol` a page has 4 bytes and a
header 1, so blocks of 7 and 11 bytes take two and three pages and offsets cross
page boundaries on either side of the header; three blocks and two workers give every
order of the steps of `advance_node`, and one reset goes to a node without a worker.
In `MirTrace`, buffers of 3 are nearly full at 2, so four states and their events dump several times, by states and by
events, also while `mir_destroy` dumps; four states are a task within a wait within a task, or a creation within one, on top of the idle states
(user code begins nothing after `MaxStates`, what is open ends). Ids have their 2^16 values.
In `MirRuntime`, two tasks execute one within the other, on one worker or on two; a task within two scopes closes
scopes while the main program closes its own; a second runtime starts from what the
first has left.

Fairness. `MirTaskQueue`: none. `MirTasking`: weak fairness of each worker
as a whole: its thread keeps running, and user code is finite. A waiting worker polls, so
nothing stronger is needed. `MirDeque`: weak fairness of the owner,
which comes back for work, and of the memory; none of the thieves, which may stop anywhere.
`MirSchedPol`: weak fairness of each worker's pop, which the worker loop repeats; none of pushes.
`MirMemPol`: a call that has begun goes on, nobody is granted the lock. `MirRuntime`: threads and
whoever is inside `mir_destroy` keep running, tasks close their scopes and end, a wait
whose tasks have ended returns; the main program need neither wait nor end.

Deadlock is checked in the queue and tasking runs. The others switch it off: once all
tasks are pushed and taken, all blocks released or the program has exited, nothing is left
to do. There, liveness properties say that what must end does.

## What the violations say

* `tasking_unwaited`: `mir_worker_check_done` reads the counters twice, but a task
  between pop and execution is in neither. A program that ends without `mir_task_wait`
  can fail its assertion, or be told to die with a task about to run.
* `deque_built`: as built, `cas` is not atomic and the fence is empty.
  Two readers get one task (the flag `taken` keeps it from running twice).
  `deque_host` shows that the branch for `x86_64_HOST_ARCH` does not have the problem.
* `sched_gothmog`: a `case` without `break` (`mir_arch_gothmog.c:252`) makes node 4 its
  own neighbour and leaves out node 6. Workers of node 4 idle while tasks lie there.
* `recorder_frozen`: "Freeze workers" sets a flag that workers read later; until then they record,
  also into recorders that `mir_destroy` has freed meanwhile (`mir_runtime.c:504-517`,
  `mir_worker.c:77-78`). It waits for them only afterwards.

More hazards show with settings that no run keeps. In `MirTrace`, TLC refutes `IdleStateIsDumped`: the end of a worker's idle state
("Dump MIR_STATE_TIDLE state", `mir_worker.c:76`) may come after the loop over the states has seen the last of them and before the
head is rewound (`mir_recorder.c:233-278`). It is in no line of the file then, although the recorder is freed only later. Whatever
is recorded in that window is lost, and when the worker's own buffer is nearly full at that time both dump it and lines appear twice;
what was recorded before the dump is safe (`DumpIsComplete`). In `MirDeque`, two things. After two
readers have won one task of the deque as built, a later task may be left below `top`,
where `pop_ws_de` never looks. And indices of 32 bits compared as 64-bit longs: with
`Word = 4`, where they wrap soon, tasks become invisible at the wrap.

## Proofs

`MirTaskQueueProofs`, for any sets of pushers, poppers and tasks and any capacity:

* `RingInvariant` - `IInv` is inductive. `TypeOK` alone is not: a pop finds a task
  only because *the slots from `front` on, `size` many, are filled* (`SlotInv`),
  which survives a push only because *the slot at `in` is free* when a push has passed
  its check (`RoomInv`), which needs *one worker per critical section* (`LockInv`), and
  *`in` is `front + size`* up to the steps in between (`IndexInv`); `DataInv` says
  what each call has in hand.
* `TypeCorrect`, `PopAssertHolds`, `PrivateQueueYields` - the properties `TypeOK`,
  `PopFindsTask` and `SoleConsumerFindsTask` of the runs, from it. The last needs
  that only the one popper lowers `size`.
* `RingKeepsTasks` - `TaskInOnePlace`: a task is in one slot, in one call or with the rest of the program.
* `RingImplementsQueue` - every step maps to a step of `BoundedQueue` or a stutter.

They assume that `Capacity` is a positive number and that `NULL` and `NoWorker` are
no task and no worker.

`MirTaskingProofs` is for any number of workers and tasks, any capacity of the private
queues, and programs that create and wait in any order. It assumes `WorkersAssumption` and `BoundsAssumption`:
a worker, a task, and a word that counts all tasks.

* `BaseInvariant` - types, labels, scans, stacks and places are inductive together.
  A worker's stack is known by its links only, so `StackInv` says that *a task in execution is current, or lies
  under one other, and not both*, and that what lies under another stands where a task is suspended. `PlaceInv` says that
  *the pool, the private queues and the hands of all contexts hold no task twice*, and together all that are queued;
  the label of a context tells whether it has a task in hand (`LabelInv`).
  `StacksSeparate` (`StacksAreSeparate`) and `TaskPlaces` (`TaskInOnePlace`) follow.
* `WaitInvariant` - what a wait counter counts. Children born in the pass under way are counted, older ones
  are done (`BornInv`, `CountInv`). A cell counts the counted children that its worker has completed;
  the state does not say which worker that was, so `WaitInv` says that *some* assignment `e` of workers to tasks fits every cell, and
  that the sum of a scan under way is at most what `e` gives for the workers it has passed (`CellInv`). A child that
  completes after its cell has been read only makes the sum too small. From it: `WaitIsComplete` (`WaitCoversChildren`),
  `ReduceAssertion` (`ReduceAssertHolds`: the sum never exceeds the count) and `SyncPoints` (`SyncPointIsNextWait`).
* `EndInvariant` - `CounterInv`: `g_num_tasks_waiting` is the queued tasks, with those just popped, without
  those just pushed, modulo the word; `g_worker_status_board` is the contexts between the two updates. `DeathInv`:
  `g_sig_worker_alive` is the workers that are not dead. `StructInv`, in structured programs: the children of a task that has
  ended are done, hence all tasks when the main program shuts down.
  `CountersFollow` (`CountersMatch`) and `TypesAreBounded` (`TypeOK`: with the bounds of every counter) follow;
  `AssertsHold` (`CheckDoneAssertsHold`) and `QuietShutdown` (`ShutdownIsQuiet`) with the hypothesis
  `Structured`, without which they are false: the run `tasking_unwaited` shows it for the assertion.

`MirDequeProofs`, for any thieves, any capacity and any number of tasks:

* `DequeInvariant` - with the hypothesis `NoWrap`: the locked `cas` and the fence are compiled in (`HostArch`, which is what
  `x86_64_HOST_ARCH` does), and the indices do not wrap (`MaxTasks < Word`). Without the first the properties are
  false: `deque_built` shows it. The owner's writes reach memory late, so `DequeInv` speaks of three bottoms: the last
  the owner has written (`Bot`), the one below which elements are to be had (`LiveBot`: an element the owner is deciding about
  is still there), and the one below which memory shows every element (`SeenBot`). `BufferInv` says which writes may be on
  their way at each step, `IndexInv` that `top` stays at or below `SeenBot` and that the live elements fit the array,
  `TaskInv` that *the elements from `top` to `LiveBot` are the tasks that nobody has been handed, in order*, and `WorkerInv` what each
  worker has read: a thief that has passed its look at `bottom` holds an index below `SeenBot`, and the owner pops without
  `cas` only above every such index.
* `DequeTypes`, `OneWinner`, `NothingLost`, `CurrentWinner`, `DequeAsserts` - the properties `TypeOK`, `OneReaderWins`,
  `HoldsTheRest`, `WinnerIsCurrent` and `AssertsHold` of the runs, from it.

They assume `OwnerAssumption` (the owner does not steal from itself), `WordAssumption` and `SizeAssumption`: the array has a
positive size, of which the word is a multiple. TLC evaluates the last for each run; the provers know nothing of `2 ^ k`.

`MirRuntimeProofs`, for any number of workers, runtimes, scopes and tasks (`RuntimeAssumption`):

* `LifeInvariant` - the contexts of every worker (`ContextsInv`), where the main program and the workers can stand (`PlaceInv`);
  that `g_sig_worker_alive` counts the
  workers that have reported, up in `mir_create`, down in `mir_destroy`, and each once (`AliveInv`). Tasks nest, so the rest is
  counted over all contexts of all workers (`Marks`): the status board is the number of contexts that execute a task from the
  queues (`BusyInv`); `init_count` is the number of scopes open in all of them (`ScopeInv`); and the
  tasks that have not ended are queued, in hand or running (`TaskInv`), so that in structured programs nobody is inside a
  task when `mir_destroy` goes on.
* `WorkersFollow` - the property `WorkersFollowRuntime`, in unstructured programs too.
* `DestroyedOnce` - the property `DestroyedIsUnused` of structured programs.
* `RuntimeTypes` - the property `TypeOK`: the counters stay within the workers and tasks there are.

`MirTraceProofs`, for buffers of any size, any number of ids, any nesting of tasks, with and without idle task, and for
worker 0 as for the others (`RecorderAssumption`, `TraceAssumption`):

* `StackInvariant` - what the stack of states will be is fixed by where the worker stands, not what it is: `NestInv` says that the
  calls still to come (`Left`, with the one under way) *lead* from what is open above the last context to what that context
  calls for (`Leads`), and `Below` that under each context lies what the one before has open. `HeadsInv` keeps every head two
  short of its buffer's end except inside the call that has just increased it or dumps, although the head may be rewound by
  `mir_destroy` between read and increment.
* `TraceTypes` (`TypeOK`) and `TraceNests` (`StatesNest`) follow.
* `WholeInvariant` - `Whole(r, c, d)`: the file, then the lines of the buffers from where the dump `d` stands to where the call
  `c` has written, are what was recorded (`Sound`). It is inductive as long as one party works on the recorder at a time: up to the
  dump of `mir_destroy`, and through it when the worker had stopped (`owed.all`). `EveryRecorderIsWhole` follows, and from it
  `RecordsWhole` (`RecordsAreWhole`) with the hypothesis `MaxStates + 2 < Ids`: when the 16-bit ids of the code wrap, parents are no longer unique.
* `OwedInvariant` - for the dump of `mir_destroy` with the worker still recording, `Whole` is false: lines may be doubled, and what
  is recorded *during* the dump may be lost. What was there before is not: each such line is in the file, or in the
  buffer at an index that *both* dumps have still to reach (`StatesLive`, `EventsLive`); heads may be rewound only by a dump
  that has passed all lines. Before `mir_destroy` comes, the same is kept about the worker's dump alone (`Passes`).
  `DumpsAreComplete` (`DumpIsComplete`) follows.

`MirSchedPolProofs`, for all six policies, any machine, workers, capacity, footprints and number of tasks:

* `SearchInvariant` - what a search has left behind at a place has had nothing for it. `IsPlace` says where the searches of
  a policy can stand and `IsLeft`, without the loops, what they have left behind there: `Behind(w, n, i)` is the part of
  a ring between start and place, on either side of the wrap-around, and in the neighbourhood it is the queues before the place.
  The heart is `PlaceFollows`: a step of a loop adds no more than the queue it leaves, and a search ends only
  when every queue it can reach is behind it (`RingGoesRound`, `AltsGoRound`, `NextInHood`). The neighbourhood is a concatenation of
  concatenations, so `HoodIs` says what its places are: a map from places to hops that never falls (`IsWalk`). A queue that the
  tables name twice is met with a limit that is not its own (`LimitAt`), but then it is behind already (`HereIs`).
  `QueuesInv` adds that *each task created is queued or handed over*, and *in one place of one queue* (`Apart`).
* `SchedTypes` (`TypeOK`) and `NoTaskIsLost`, from it.
* `ReachableTasksAreFound` - a pop that returns without a task has missed none in a queue that the tables lead to, on every
  machine. `PopsMissNothing` (`PopMissesNothing`) has the hypothesis `VicinitiesComplete`: where ws-de-node or numa
  is used, `vicinity_of` names every other node. It is false on gothmog, as `sched_gothmog` shows, and on tilepro64, whose
  table names no neighbours; `GeneratedTablesAgree` shows it for the machine that the generator writes, with any number of cpus.
* `PopsTakeNearestFirst` (`NearestFirst`) - every queue nearer than the place of a search is left behind there (`NearerIsLeft`),
  because places do not come back to fewer hops.
* `PushesGoByLeastCost` (`LeastCostWins`) - the circle of `push_numa` meets every worker (`CircleIs`), and a worker it does not ask for
  is on the node of the one before (`AskIs`), so the fold finds the least cost wherever it begins (`CheapestIs`).

They assume `SetupAssumption` (the tables are well-typed and agree, the cpus of the workers are cpus of the machine, capacities are
positive, and ws-de-node has the workers that it takes for granted), `FootprintAssumption` (sizes are numbers) and
`DequeAssumption` (`roundUp2` gives a positive number; TLC evaluates it for each setup).

`MirMemPolProofs`, for any machine, any workers on it, any sizes of page, header and blocks:

* `MemInvariant` - `HandInv`: a block in a call is in the hands of one worker and not counted. `NodeInv`: the lock is held by
  whoever advances, and only that worker sees the node at `num_nodes`. `BytesInv`: the counter is the sum
  over the live blocks and over those about to be subtracted. `BlockInv`: where the pages of a block lie, that the cache says so,
  and that a block whose header may name a node lies on one. `MapThenSumSet` takes elements in an order that
  `CHOOSE` decides, so the sums rest on lemmas that a solution of its equation exists, and that any
  element may be taken first (`SumExists`, `SumFacts`, `SumAgrees` in `FoldProofs`).
* `MemTypesHold` (`TypeOK`), with `BytesAccounted` (its part `Accounting`).
* `NodesTakeTurns` (`RoundTurns`) - from `RoundInv`: some function `g` lists the nodes after each turn, and a worker that advances
  is `k` steps past the last of them, with no worker's node in between (`Passing`). It comes around
  because some node has a worker (`NextIs`).
* `DistributionsTell` (`DistributionTells`), with `FootprintsAreCounted` for its part about footprints - about the walk. After `k` pages
  it has told the bytes up to `ifrom`, and all from there to the end of the page lie on the node it has in hand (`WalkTells`); a
  sum of distributions is the distribution of the sums (`SumOfSums`). What the cache and the beginning of a page
  get wrong is the bytes that the header pushes over a page's end, which inject into pages times header bytes (`PushedAre`).

They assume `SizesAssumption` (the header is shorter than a page), `ConfigAssumption` (the machine has a node, and the cpus of the
workers are cpus of the machine, on nodes of it) and `FootprintAssumption` (elements have a size, and a range does not end
before it starts).

Only model-checked:

* The deque as built (where the runs find its properties violated), and when the indices wrap.
* Liveness under fairness (`EveryTaskEnds`, `EveryWaitEnds`, `EveryTaskHanded`, `QueuedIsExecuted`,
  `LockIsReleased`, `DestroyEnds`, `ExitDestroys`), which is out of the prover's reach.

## What the models leave out

* `MirTasking`: the inlining limit (off by default), task lists, statistics, the length of
  back-offs, binding to cpus.
* `MirSchedPol`: ws-de-node with fewer workers than cpus, or with cpus in another order: the code
  takes worker ids for cpu ids there and reads outside its array of queues. `g_num_tasks_waiting` goes
  with the queue here; `MirTasking` keeps the two apart.
* `MirMemPol`: failing allocations, and freeing under a policy that did not allocate.
  `AllocateCoarse` reads `mem_pol->node` once where the code reads it for the mask and again for the placement
  (`mir_mem_pol.c:279` and `281`): the second decides where the pages go. `RoundTurns` is about the node, not about where the pages of two coarse
  allocations at once go: they may read the same node before either advances it.
* `MirRuntime`: which of its tasks a wait waits for is left out (the main program of a structured program waits for all); a program
  whose main thread leaves tasks behind with no other worker to run them spins in `mir_worker_check_done`: every
  instance has another worker.
* `MirTrace`: `mir_destroy` called by the main program, outside every task (by a task: `MirRuntime`); what becomes of the memory of a freed recorder.
  The stack of states is not bounded: no task on top of another takes more than two states (`StatesNest`), but how deep tasks nest
  within waits and creations the code does not bound, and `MIR_RECORDER_STACK_MAX_SIZE` is its limit.
* `MirRecorder`: times are orders; hardware counters and metadata are left out. The name that
  the end of the outermost state reads lies below the stack, in memory nobody has written.

## Not modelled, and the plan

1. *Done*: task queue, tasking core, deque, policies, memory distribution, recorder, life cycle, tables.
2. *Done*: proofs of every invariant of the task queue, the tasking core, the deque and the policies.
3. *Done*: proofs of every invariant of the memory distribution.
4. *Done*: proofs of every invariant of the life cycle.
5. *Done*: proofs of every invariant of the recorders (`MirTrace`).
6. Next: what a team and its barrier promise, once the source of the OpenMP interface is at hand.

Left out for good: loop descriptors, teams and barriers (`mir_loop.c`, `mir_team.c`, `mir_barrier.c`: fields and
wrappers that the OpenMP interface uses, whose source is not in the repository), the OpenMP
interface itself, the profiling scripts (offline), clocks, allocation counters, logging, parsing of options and
file formats.
