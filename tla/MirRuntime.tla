------------------------------ MODULE MirRuntime ------------------------------
(***************************************************************************)
(* The life of the runtime: mir_create, nested scopes, workers that start, *)
(* execute tasks and die, mir_destroy from user code or from atexit, and a *)
(* new mir_create after it (mir_runtime.c, mir_worker.c).                  *)
(*                                                                         *)
(* Tasks are the counters that mir_worker_check_done reads, and where each *)
(* worker stands inside them; MirTasking has the tasks themselves, and     *)
(* shows what its reads can miss.  Of a recorder only its life is here: a  *)
(* worker that uses its recorder after mir_destroy has freed it is noted.  *)
(* What a recorder holds, and how it is dumped, is MirTrace's.             *)
(***************************************************************************)
EXTENDS Integers, Sequences, FiniteSets, SequencesExt

CONSTANTS
    NumWorkers,     \* runtime->num_workers
    Options,        \* values of enable_recorder and idle_task
    Structured,     \* does the main program wait for its tasks before it ends?
    MaxRuntimes, MaxScopes, MaxTasks    \* bounds: runtimes, open scopes, tasks

ASSUME RuntimeAssumption ==
    /\ NumWorkers \in Nat \ {0} /\ Structured \in BOOLEAN
    /\ MaxRuntimes \in Nat /\ MaxScopes \in Nat /\ MaxTasks \in Nat

Workers == 0 .. NumWorkers - 1
Threads == Workers \ {0}        \* worker 0 is the main program

VARIABLES
    options,                    \* the configuration, the same for every runtime
    runtime,                    \* up: is the pointer not NULL?
    g_sig_worker_alive,
    g_num_tasks_waiting, g_worker_status_board,
    sig_die, sig_dying,         \* of each worker: is the lock held, the flag set?
    contexts,                   \* of each worker: below, its loop or the main program; above,
                                \* the tasks it executes within its waits and creations
    loop,                       \* main's loop index
    handlers, exiting,          \* mir_destroy calls left to atexit; are they being made?
    created, finished, runtimes,    \* tasks created and ended, runtimes created
    freed, misused              \* workers whose recorder is freed; history: was used then

taskVars == <<g_num_tasks_waiting, g_worker_status_board, created, finished>>
dieVars == <<sig_die, sig_dying>>
recorderVars == <<freed, misused>>
userVars == <<handlers, exiting, runtimes>>
vars == <<options, runtime, g_sig_worker_alive, taskVars, dieVars, recorderVars, contexts, loop, userVars>>

NoRuntime == [up |-> FALSE, init_count |-> 0, destroyed |-> FALSE]

\* Where code stands, and its mir_create calls not yet undone.
Context(at) == [at |-> at, scopes |-> 0]
Top(w) == Last(contexts[w])
InBase(w) == Len(contexts[w]) = 1
Goto(w, label) == contexts' = [contexts EXCEPT ![w][Len(contexts[w])].at = label]

Init ==
    /\ options \in Options
    /\ runtime = NoRuntime
    /\ g_sig_worker_alive = 0 /\ g_num_tasks_waiting = 0 /\ g_worker_status_board = 0
    /\ sig_die = [w \in Workers |-> FALSE] /\ sig_dying = [w \in Workers |-> FALSE]
    /\ contexts = [w \in Workers |-> <<Context(IF w = 0 THEN "run" ELSE "none")>>] /\ loop = 0
    /\ handlers = 0 /\ exiting = FALSE
    /\ created = 0 /\ finished = 0 /\ runtimes = 0
    /\ freed = {} /\ misused = {}

\* w calls its recorder.
Use(w) ==
    /\ misused' = IF options.enable_recorder /\ w \in freed THEN misused \cup {w} ELSE misused
    /\ UNCHANGED freed
-----------------------------------------------------------------------------
(* mir_create *)

\* mir_worker_local_init
LocalInit(w) ==
    /\ freed' = freed \ {w}
    /\ sig_die' = [sig_die EXCEPT ![w] = TRUE]
    /\ sig_dying' = [sig_dying EXCEPT ![w] = FALSE]
    /\ UNCHANGED misused

\* mir_create_int up to the start of the workers, with worker 0's initialisation.
CreateFirst ==
    /\ Top(0).at = "run" /\ ~runtime.up /\ runtimes < MaxRuntimes
    /\ runtime' = [up |-> TRUE, init_count |-> 1, destroyed |-> FALSE]
    /\ g_sig_worker_alive' = g_sig_worker_alive + NumWorkers - 1
    /\ LocalInit(0)
    /\ runtimes' = runtimes + 1 /\ loop' = 1
    /\ Goto(0, "spawn")
    /\ UNCHANGED <<options, taskVars, handlers, exiting>>

\* mir_worker_master_init
Spawn ==
    /\ Top(0).at = "spawn"
    /\ IF loop < NumWorkers
       THEN Goto(loop, "init") /\ loop' = loop + 1
       ELSE Goto(0, "wait_alive") /\ UNCHANGED loop
    /\ UNCHANGED <<options, runtime, g_sig_worker_alive, taskVars, dieVars, recorderVars, userVars>>

EnterScope == contexts' = [contexts EXCEPT ![0] = <<[at |-> "run", scopes |-> 1]>>]

\* Bug variant: main does not wait for the workers.
NoWaitAlive ==
    /\ Top(0).at = "wait_alive"
    /\ Use(0) /\ EnterScope /\ handlers' = handlers + 1
    /\ UNCHANGED <<options, runtime, g_sig_worker_alive, taskVars, dieVars, loop, exiting, runtimes>>

WaitAlive ==
    /\ Top(0).at = "wait_alive" /\ g_sig_worker_alive = 0
    /\ Use(0) /\ EnterScope /\ handlers' = handlers + 1
    /\ UNCHANGED <<options, runtime, g_sig_worker_alive, taskVars, dieVars, loop, exiting, runtimes>>

\* Any user code: the main program or a task.
InUser(w) == runtime.up /\ Top(w).at = "run"

OpenScope(w) == contexts' = [contexts EXCEPT ![w][Len(contexts[w])].scopes = @ + 1]

\* Bug variant: the nested call returns without counting.
CreateNestedUncounted(w) ==
    /\ InUser(w) /\ ~runtime.destroyed /\ runtime.init_count < MaxScopes /\ Top(w).scopes < MaxScopes
    /\ OpenScope(w)
    /\ UNCHANGED <<options, runtime, g_sig_worker_alive, taskVars, dieVars, recorderVars, loop, userVars>>

CreateNested(w) ==
    /\ InUser(w) /\ ~runtime.destroyed /\ runtime.init_count < MaxScopes
    /\ runtime' = [runtime EXCEPT !.init_count = @ + 1]
    /\ OpenScope(w)
    /\ UNCHANGED <<options, g_sig_worker_alive, taskVars, dieVars, recorderVars, loop, userVars>>
-----------------------------------------------------------------------------
(* User code *)

\* The main program uses tasks within a scope, a task within its own.
MayUse(w) == InUser(w) /\ (w = 0 /\ InBase(0) => Top(0).scopes > 0)

\* mir_task_create_on_worker, up to the push
BeginCreate(w) ==
    /\ MayUse(w) /\ created < MaxTasks
    /\ created' = created + 1
    /\ Use(w) /\ Goto(w, "create")
    /\ UNCHANGED <<options, runtime, g_sig_worker_alive, g_num_tasks_waiting, g_worker_status_board,
                   finished, dieVars, loop, userVars>>

Push(w) ==
    /\ Top(w).at = "create"
    /\ g_num_tasks_waiting' = g_num_tasks_waiting + 1
    /\ Goto(w, "created")
    /\ UNCHANGED <<options, runtime, g_sig_worker_alive, g_worker_status_board, created, finished,
                   dieVars, recorderVars, loop, userVars>>

\* A task is called on top of the context that executes it.
Call(w, label) ==
    contexts' = [contexts EXCEPT
        ![w] = Append([@ EXCEPT ![Len(contexts[w])].at = label], Context("run"))]

\* The policy refuses the task, whose creator executes it and is not marked busy.
PushRefused(w) ==
    /\ Top(w).at = "create"
    /\ Use(w) /\ Call(w, "created")
    /\ UNCHANGED <<options, runtime, g_sig_worker_alive, taskVars, dieVars, loop, userVars>>

EndCreate(w) ==
    /\ Top(w).at = "created"
    /\ Use(w) /\ Goto(w, "run")
    /\ UNCHANGED <<options, runtime, g_sig_worker_alive, taskVars, dieVars, loop, userVars>>

\* mir_task_wait_int
BeginWait(w) ==
    /\ MayUse(w)
    /\ Use(w) /\ Goto(w, "wait")
    /\ UNCHANGED <<options, runtime, g_sig_worker_alive, taskVars, dieVars, loop, userVars>>

\* Which tasks a task has waited for is left out.
EndWait(w) ==
    /\ Top(w).at = "wait" /\ (Structured /\ w = 0 /\ InBase(0) => finished = created)
    /\ Use(w) /\ Goto(w, "run")
    /\ UNCHANGED <<options, runtime, g_sig_worker_alive, taskVars, dieVars, loop, userVars>>

\* A task ends when it leaves no scope open.
EndTask(w) ==
    /\ InUser(w) /\ ~InBase(w) /\ Top(w).scopes = 0
    /\ finished' = finished + 1
    /\ Use(w) /\ contexts' = [contexts EXCEPT ![w] = Front(@)]
    /\ UNCHANGED <<options, runtime, g_sig_worker_alive, g_num_tasks_waiting, g_worker_status_board,
                   created, dieVars, loop, userVars>>

\* Before its last scope ends, a structured program has waited for its tasks.
Waited == Structured => finished = created
CloseScope(w, label) ==
    /\ InUser(w) /\ Top(w).scopes > 0 /\ (w = 0 /\ InBase(0) /\ Top(0).scopes = 1 => Waited)
    /\ contexts' = [contexts EXCEPT ![w][Len(contexts[w])] = [at |-> label, scopes |-> @.scopes - 1]]
    /\ runtime' = [runtime EXCEPT !.init_count = @ - 1]

\* mir_soft_destroy
SoftDestroy(w) ==
    /\ CloseScope(w, "run")
    /\ UNCHANGED <<options, g_sig_worker_alive, taskVars, dieVars, recorderVars, loop, userVars>>
-----------------------------------------------------------------------------
(* Workers *)

LocalInitWorker(w) ==
    /\ Top(w).at = "init"
    /\ LocalInit(w) /\ Goto(w, "signal")
    /\ UNCHANGED <<options, runtime, g_sig_worker_alive, taskVars, loop, userVars>>

SignalAlive(w) ==
    /\ Top(w).at = "signal"
    /\ g_sig_worker_alive' = g_sig_worker_alive - 1
    /\ Goto(w, "begin")
    /\ UNCHANGED <<options, runtime, taskVars, dieVars, recorderVars, loop, userVars>>

\* The idle state begins, and the idle task.
BeginLoop(w) ==
    /\ Top(w).at = "begin"
    /\ Use(w) /\ Goto(w, "loop")
    /\ UNCHANGED <<options, runtime, g_sig_worker_alive, taskVars, dieVars, loop, userVars>>

\* mir_worker_do_work, in the loop of a worker and in the waits of its tasks
Take(w) ==
    /\ Top(w).at \in {"loop", "wait"} /\ g_num_tasks_waiting > 0
    /\ g_num_tasks_waiting' = g_num_tasks_waiting - 1
    /\ Goto(w, "popped")
    /\ UNCHANGED <<options, runtime, g_sig_worker_alive, g_worker_status_board, created, finished,
                   dieVars, recorderVars, loop, userVars>>

FindNone(w) ==
    /\ Top(w).at = "loop" /\ g_num_tasks_waiting = 0
    /\ Goto(w, "look")
    /\ UNCHANGED <<options, runtime, g_sig_worker_alive, taskVars, dieVars, recorderVars, loop, userVars>>

Execute(w) ==
    /\ Top(w).at = "popped"
    /\ g_worker_status_board' = g_worker_status_board + 1
    /\ Use(w) /\ Call(w, "executed")
    /\ UNCHANGED <<options, runtime, g_sig_worker_alive, g_num_tasks_waiting, created, finished,
                   dieVars, loop, userVars>>

NotBusy(w) ==
    /\ Top(w).at = "executed"
    /\ g_worker_status_board' = g_worker_status_board - 1
    /\ Goto(w, IF w # 0 /\ InBase(w) THEN "look" ELSE "wait")
    /\ UNCHANGED <<options, runtime, g_sig_worker_alive, g_num_tasks_waiting, created, finished,
                   dieVars, recorderVars, loop, userVars>>

Look(w) ==
    /\ Top(w).at = "look"
    /\ Goto(w, IF sig_dying[w] THEN "dying" ELSE "loop")
    /\ UNCHANGED <<options, runtime, g_sig_worker_alive, taskVars, dieVars, recorderVars, loop, userVars>>

EndIdleTask(w) ==
    /\ Top(w).at = "dying"
    /\ IF options.idle_task THEN Use(w) ELSE UNCHANGED recorderVars
    /\ Goto(w, "end_idle")
    /\ UNCHANGED <<options, runtime, g_sig_worker_alive, taskVars, dieVars, loop, userVars>>

EndIdle(w) ==
    /\ Top(w).at = "end_idle"
    /\ Use(w) /\ Goto(w, "die")
    /\ UNCHANGED <<options, runtime, g_sig_worker_alive, taskVars, dieVars, loop, userVars>>

\* Bug variant: the worker does not wait for sig_die.
DieAtOnce(w) ==
    /\ Top(w).at = "die"
    /\ sig_die' = [sig_die EXCEPT ![w] = TRUE]
    /\ g_sig_worker_alive' = g_sig_worker_alive - 1
    /\ Goto(w, "none")
    /\ UNCHANGED <<options, runtime, taskVars, sig_dying, recorderVars, loop, userVars>>

\* The lock is free: mir_destroy has unset it.
Die(w) ==
    /\ Top(w).at = "die" /\ ~sig_die[w]
    /\ sig_die' = [sig_die EXCEPT ![w] = TRUE]
    /\ g_sig_worker_alive' = g_sig_worker_alive - 1
    /\ Goto(w, "none")
    /\ UNCHANGED <<options, runtime, taskVars, sig_dying, recorderVars, loop, userVars>>
-----------------------------------------------------------------------------
(* mir_destroy, called by w *)

\* Where the caller goes on: atexit, the main program, or a task.
Caller(w) == IF w = 0 /\ exiting THEN "exit" ELSE "run"

Destroy(w) ==
    /\ CloseScope(w, "reread") /\ ~runtime.destroyed
    /\ UNCHANGED <<options, g_sig_worker_alive, taskVars, dieVars, recorderVars, loop, userVars>>

Exit ==
    /\ Top(0).at = "run" /\ InBase(0) /\ Waited
    /\ exiting' = TRUE
    /\ Goto(0, "exit")
    /\ UNCHANGED <<options, runtime, g_sig_worker_alive, taskVars, dieVars, recorderVars, loop,
                   handlers, runtimes>>

\* atexit calls mir_destroy once for each runtime created.
ExitHandler ==
    /\ Top(0).at = "exit" /\ handlers > 0
    /\ handlers' = handlers - 1
    /\ IF runtime.up /\ ~runtime.destroyed
       THEN runtime' = [runtime EXCEPT !.init_count = @ - 1] /\ Goto(0, "reread")
       ELSE UNCHANGED <<runtime, contexts>>
    /\ UNCHANGED <<options, g_sig_worker_alive, taskVars, dieVars, recorderVars, loop, exiting, runtimes>>

\* Bug variant: only a count of exactly zero destroys.
RereadZero(w) ==
    /\ Top(w).at = "reread"
    /\ IF runtime.init_count = 0
       THEN runtime' = [runtime EXCEPT !.destroyed = TRUE] /\ Use(w) /\ Goto(w, "check_done")
       ELSE Goto(w, Caller(w)) /\ UNCHANGED <<runtime, recorderVars>>
    /\ UNCHANGED <<options, g_sig_worker_alive, taskVars, dieVars, loop, userVars>>

\* The count is read again after its decrement.
Reread(w) ==
    /\ Top(w).at = "reread"
    /\ IF runtime.init_count <= 0
       THEN runtime' = [runtime EXCEPT !.destroyed = TRUE] /\ Use(w) /\ Goto(w, "check_done")
       ELSE Goto(w, Caller(w)) /\ UNCHANGED <<runtime, recorderVars>>
    /\ UNCHANGED <<options, g_sig_worker_alive, taskVars, dieVars, loop, userVars>>

CheckDone(w) ==
    /\ Top(w).at = "check_done" /\ g_num_tasks_waiting = 0 /\ g_worker_status_board = 0
    /\ loop' = 0
    /\ Goto(w, "freeze")
    /\ UNCHANGED <<options, runtime, g_sig_worker_alive, taskVars, dieVars, recorderVars, userVars>>

\* Bug variant: the last worker is not told.
FreezeShort(w) ==
    /\ Top(w).at = "freeze"
    /\ IF loop < NumWorkers - 1
       THEN sig_dying' = [sig_dying EXCEPT ![loop] = TRUE] /\ loop' = loop + 1 /\ UNCHANGED contexts
       ELSE loop' = 0 /\ Goto(w, "recorders") /\ UNCHANGED sig_dying
    /\ UNCHANGED <<options, runtime, g_sig_worker_alive, taskVars, sig_die, recorderVars, userVars>>

\* "Freeze workers"
Freeze(w) ==
    /\ Top(w).at = "freeze"
    /\ IF loop < NumWorkers
       THEN sig_dying' = [sig_dying EXCEPT ![loop] = TRUE] /\ loop' = loop + 1 /\ UNCHANGED contexts
       ELSE loop' = 0 /\ Goto(w, "recorders") /\ UNCHANGED sig_dying
    /\ UNCHANGED <<options, runtime, g_sig_worker_alive, taskVars, sig_die, recorderVars, userVars>>

\* "Shutdown recorders": here each is freed; MirTrace dumps it first.  Then the
\* death count is raised.
ShutRecorders(w) ==
    /\ Top(w).at = "recorders"
    /\ IF loop < NumWorkers /\ options.enable_recorder
       THEN freed' = freed \cup {loop} /\ loop' = loop + 1 /\ UNCHANGED <<contexts, g_sig_worker_alive>>
       ELSE /\ loop' = 0 /\ Goto(w, "kill")
            /\ g_sig_worker_alive' = g_sig_worker_alive + NumWorkers - 1
            /\ UNCHANGED freed
    /\ UNCHANGED <<options, runtime, taskVars, dieVars, misused, userVars>>

Kill(w) ==
    /\ Top(w).at = "kill"
    /\ IF loop < NumWorkers
       THEN sig_die' = [sig_die EXCEPT ![loop] = FALSE] /\ loop' = loop + 1 /\ UNCHANGED contexts
       ELSE Goto(w, "wait_dead") /\ UNCHANGED <<loop, sig_die>>
    /\ UNCHANGED <<options, runtime, g_sig_worker_alive, taskVars, sig_dying, recorderVars, userVars>>

\* All are dead: the rest of mir_destroy, to the reset of the globals.  Scopes
\* that are still open were open in the runtime that is no more.
WaitDead(w) ==
    /\ Top(w).at = "wait_dead" /\ g_sig_worker_alive = 0
    /\ runtime' = NoRuntime
    /\ g_num_tasks_waiting' = 0 /\ g_worker_status_board' = 0
    /\ contexts' = [contexts EXCEPT ![w] = <<Context(Caller(w))>>]
    /\ UNCHANGED <<options, g_sig_worker_alive, created, finished, dieVars, recorderVars, loop, userVars>>
-----------------------------------------------------------------------------
MainStep == CreateFirst \/ Spawn \/ WaitAlive \/ Exit \/ ExitHandler
DestroyStep(w) == Reread(w) \/ CheckDone(w) \/ Freeze(w) \/ ShutRecorders(w) \/ Kill(w) \/ WaitDead(w)
UserStep(w) == CreateNested(w) \/ SoftDestroy(w) \/ Destroy(w)
TaskStep(w) == BeginCreate(w) \/ Push(w) \/ PushRefused(w) \/ EndCreate(w) \/ BeginWait(w) \/ EndWait(w)
                 \/ Take(w) \/ Execute(w) \/ EndTask(w) \/ NotBusy(w)
ThreadStep(w) == LocalInitWorker(w) \/ SignalAlive(w) \/ BeginLoop(w) \/ FindNone(w) \/ Look(w)
                   \/ EndIdleTask(w) \/ EndIdle(w) \/ Die(w)

Next == MainStep \/ (\E w \in Workers : UserStep(w) \/ TaskStep(w) \/ DestroyStep(w))
          \/ (\E w \in Threads : ThreadStep(w))

\* Each thread keeps running; user code need not end.
Spec == Init /\ [][Next]_vars
FairSpec ==
    /\ Spec
    /\ \A w \in Workers : WF_vars(DestroyStep(w))
    /\ \A w \in Threads : WF_vars(ThreadStep(w) \/ NotBusy(w))
    /\ WF_vars(Spawn \/ WaitAlive \/ ExitHandler)
-----------------------------------------------------------------------------
(* Properties *)

TypeOK ==
    /\ runtime \in [up : BOOLEAN, init_count : Int, destroyed : BOOLEAN]
    /\ g_sig_worker_alive \in 0 .. NumWorkers - 1
    /\ g_num_tasks_waiting \in 0 .. MaxTasks /\ g_worker_status_board \in 0 .. MaxTasks
    /\ sig_die \in [Workers -> BOOLEAN] /\ sig_dying \in [Workers -> BOOLEAN]
    /\ freed \subseteq Workers /\ misused \subseteq Workers

InDestroy(w) == Top(w).at \in {"check_done", "freeze", "recorders", "kill", "wait_dead"}

\* "Destroy only once", "only if corresponding to first call to mir_create": the
\* mir_destroy that goes through is the only one and that of the last scope, though
\* the count is decremented and then read again, and tasks open scopes, too.
DestroyedIsUnused ==
    \A w \in Workers : InDestroy(w) =>
        /\ finished = created
        /\ \A v \in Workers \ {w} : Top(v).scopes = 0 /\ ~InDestroy(v)

\* When mir_create returns, every worker is initialised and has the lock that
\* keeps it alive; when mir_destroy has reset the globals, every worker is dead.
WorkersFollowRuntime ==
    /\ Top(0).at \notin {"spawn", "wait_alive", "recorders", "kill", "wait_dead"} /\ runtime.up =>
        /\ g_sig_worker_alive = 0
        /\ \A w \in Threads : Top(w).at \notin {"none", "init", "signal"}
        /\ \A w \in Workers : sig_die[w]
    /\ ~runtime.up => \A w \in Threads : Top(w).at = "none"

\* "Freeze workers", then "Shutdown recorders": no worker uses its recorder after
\* mir_destroy has freed it.
RecordersOutliveUse == misused = {}

\* mir_destroy ends, also in the handlers of atexit, and a program that exits with
\* at most one scope open leaves no runtime behind.
DestroyEnds == \A w \in Workers : InDestroy(w) ~> ~runtime.up
ExitDestroys == exiting /\ Top(0).scopes <= 1 ~> (~runtime.up /\ handlers = 0)
=============================================================================
