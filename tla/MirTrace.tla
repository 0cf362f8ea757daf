------------------------------- MODULE MirTrace -------------------------------
(***************************************************************************)
(* How the trace of one worker comes about: what the worker records about  *)
(* itself and the tasks that it executes, within waits and creations too,  *)
(* and mir_destroy, which dumps and frees its recorder while the worker    *)
(* may still use it (mir_recorder.c, mir_worker.c, mir_task.c,             *)
(* mir_runtime.c).                                                         *)
(*                                                                         *)
(* A recorder is used by its worker and by mir_destroy alone, so one       *)
(* worker says all: a thread, or worker 0, the main program, which calls   *)
(* mir_destroy itself.  User code creates, waits and allocates in any      *)
(* order; which tasks there are is MirTasking's, and when mir_destroy may  *)
(* begin MirRuntime's.  The recorder is not followed after it is freed.    *)
(***************************************************************************)
EXTENDS MirRecorder

CONSTANT MaxStates      \* bound: states after which user code begins nothing new

ASSUME TraceAssumption == MaxStates \in Nat

VARIABLES
    setup,      \* is this worker 0? runtime->idle_task?
    recorder,
    contexts,   \* where the worker stands: below, its loop or the main program; above, its tasks
    todo,       \* calls to the recorder that come before anything else
    call,       \* the call under way, and the head that it has read
    dump,       \* where each call of mir_recorder_write_to_file stands
    phase,      \* of mir_destroy
    owed        \* history: what was recorded when mir_destroy began to dump

vars == <<setup, recorder, contexts, todo, call, dump, phase, owed>>

Names == {"TIDLE", "TIMPLICIT", "TEXEC", "TCREATE", "TSYNC", "TMALLOC"}
Dumpers == {"worker", "mir_destroy"}

\* What prolog and epilog of a task record; a begin is named by its state.
Prolog(name) == <<"event", name>>
Epilog == <<"end", "event">>
IdleProlog == IF setup.idle_task THEN Prolog("TIMPLICIT") ELSE <<>>
IdleEpilog == IF setup.idle_task THEN Epilog ELSE <<>>

NoCall == [step |-> "none", head |-> 0]
NoDump == [step |-> "none", i |-> 0]

\* A context, and how many states were open when it began (history).
Context(at, depth) == [at |-> at, depth |-> depth]

Init ==
    /\ setup \in [main : BOOLEAN, idle_task : BOOLEAN]
    /\ recorder = NewRecorder
    /\ contexts = <<Context(IF setup.main THEN "user" ELSE "loop", 0)>>
    /\ todo = (IF setup.main THEN <<"event">> ELSE <<"event", "TIDLE">>) \o IdleProlog
    /\ call = NoCall
    /\ dump = [t \in Dumpers |-> NoDump]
    /\ phase = "alive"
    /\ owed = [states |-> {}, events |-> {}, all |-> FALSE]
-----------------------------------------------------------------------------
(* The calls of the worker to its recorder *)

UserVars == <<setup, contexts, phase, owed>>

Calls(which) == todo # <<>> /\ call.step = "none" /\ ~recorder.freed /\ Head(todo) \in which
CallEnds == todo' = Tail(todo) /\ call' = NoCall

\* mir_recorder_state_begin: nobody else looks at what it writes.
BeginState ==
    /\ Calls(Names)
    /\ recorder' = state_begin(recorder, Head(todo))
    /\ CallEnds
    /\ UNCHANGED <<UserVars, dump>>

EndState ==
    /\ Calls({"end"})
    /\ recorder' = pop_state(recorder)
    /\ call' = [step |-> "count_state", head |-> recorder.state_buffer_head]
    /\ UNCHANGED <<UserVars, todo, dump>>

NoteEvent ==
    /\ Calls({"event"})
    /\ recorder' = note_event(recorder)
    /\ call' = [step |-> "count_event", head |-> recorder.event_buffer_head]
    /\ UNCHANGED <<UserVars, todo, dump>>

\* head++: compiled to count from the index that the call has read, or to read the
\* head again, which mir_destroy may have rewound.
CountState ==
    /\ call.step = "count_state" /\ ~recorder.freed
    /\ \E head \in {call.head, recorder.state_buffer_head} : recorder' = count_state(recorder, head)
    /\ call' = [call EXCEPT !.step = "check_state"]
    /\ UNCHANGED <<UserVars, todo, dump>>

CountEvent ==
    /\ call.step = "count_event" /\ ~recorder.freed
    /\ \E head \in {call.head, recorder.event_buffer_head} : recorder' = count_event(recorder, head)
    /\ call' = [call EXCEPT !.step = "check_event"]
    /\ UNCHANGED <<UserVars, todo, dump>>

\* Bug variant: full, not near full.
NearFullLate == \/ call.step = "check_state" /\ recorder.state_buffer_head = BufferMax
                \/ call.step = "check_event" /\ recorder.event_buffer_head = BufferMax

NearFull == \/ call.step = "check_state" /\ recorder.state_buffer_head = BufferMax - 1
            \/ call.step = "check_event" /\ recorder.event_buffer_head = BufferMax - 1

\* "If buffer is near full, dump!"
CheckFull ==
    /\ call.step \in {"check_state", "check_event"} /\ ~recorder.freed
    /\ IF NearFull
       THEN /\ call' = [call EXCEPT !.step = "dump"]
            /\ dump' = [dump EXCEPT !["worker"] = [step |-> "states", i |-> 0]]
            /\ UNCHANGED todo
       ELSE CallEnds /\ UNCHANGED dump
    /\ UNCHANGED <<UserVars, recorder>>

\* What becomes of a call to a recorder that is freed is not followed.
CallFreed ==
    /\ todo # <<>> /\ recorder.freed
    /\ CallEnds
    /\ dump' = [dump EXCEPT !["worker"] = NoDump]
    /\ UNCHANGED <<UserVars, recorder>>
-----------------------------------------------------------------------------
(* mir_recorder_write_to_file, called by the worker or by mir_destroy *)

DumpGoes(t, step, i) == dump' = [dump EXCEPT ![t] = [step |-> step, i |-> i]]
Dumps(t, step) == dump[t].step = step /\ ~recorder.freed

\* Bug variant: the last state stays behind.
DumpStatesShort(t) ==
    /\ Dumps(t, "states")
    /\ IF dump[t].i + 1 < recorder.state_buffer_head
       THEN recorder' = dump_state(recorder, dump[t].i) /\ DumpGoes(t, "states", dump[t].i + 1)
       ELSE DumpGoes(t, "events", 0) /\ UNCHANGED recorder
    /\ UNCHANGED <<UserVars, todo, call>>

\* "Dump states": the loop reads the head each time.
DumpStates(t) ==
    /\ Dumps(t, "states")
    /\ IF dump[t].i < recorder.state_buffer_head
       THEN recorder' = dump_state(recorder, dump[t].i) /\ DumpGoes(t, "states", dump[t].i + 1)
       ELSE DumpGoes(t, "events", 0) /\ UNCHANGED recorder
    /\ UNCHANGED <<UserVars, todo, call>>

\* Bug variant: the last event stays behind.
DumpEventsShort(t) ==
    /\ Dumps(t, "events")
    /\ IF dump[t].i + 1 < recorder.event_buffer_head
       THEN recorder' = dump_event(recorder, dump[t].i) /\ DumpGoes(t, "events", dump[t].i + 1)
       ELSE DumpGoes(t, "rewind_events", 0) /\ UNCHANGED recorder
    /\ UNCHANGED <<UserVars, todo, call>>

\* "Dump events"
DumpEvents(t) ==
    /\ Dumps(t, "events")
    /\ IF dump[t].i < recorder.event_buffer_head
       THEN recorder' = dump_event(recorder, dump[t].i) /\ DumpGoes(t, "events", dump[t].i + 1)
       ELSE DumpGoes(t, "rewind_events", 0) /\ UNCHANGED recorder
    /\ UNCHANGED <<UserVars, todo, call>>

RewindEvents(t) ==
    /\ Dumps(t, "rewind_events")
    /\ recorder' = rewind_events(recorder)
    /\ DumpGoes(t, "rewind_states", 0)
    /\ UNCHANGED <<UserVars, todo, call>>

\* The dump returns to the worker's call, or to mir_destroy.
RewindStates(t) ==
    /\ Dumps(t, "rewind_states")
    /\ recorder' = rewind_states(recorder)
    /\ dump' = [dump EXCEPT ![t] = NoDump]
    /\ IF t = "worker"
       THEN CallEnds /\ UNCHANGED phase
       ELSE phase' = "dumped" /\ UNCHANGED <<todo, call>>
    /\ UNCHANGED <<setup, contexts, owed>>
-----------------------------------------------------------------------------
(* The worker and its tasks *)

TopAt == Last(contexts).at
InBase == Len(contexts) = 1
At(label) == todo = <<>> /\ ~recorder.freed /\ TopAt = label
Go(label) == contexts' = [contexts EXCEPT ![Len(contexts)].at = label]
Frame == <<setup, recorder, call, dump, phase, owed>>
MayBegin == recorder.num_states < MaxStates

\* The code of a task is called on top of its worker's context.
Executes(label) ==
    /\ contexts' = Append([contexts EXCEPT ![Len(contexts)].at = label],
                          Context("user", Len(recorder.state_stack)))
    /\ todo' = Prolog("TEXEC")

\* mir_task_create_on_worker, up to the push
BeginCreate ==
    /\ At("user") /\ MayBegin
    /\ Go("create") /\ todo' = <<"TCREATE">>
    /\ UNCHANGED Frame

Push ==
    /\ At("create")
    /\ Go("created")
    /\ UNCHANGED <<Frame, todo>>

\* The policy refuses the task, whose creator executes it within the creation.
PushRefused ==
    /\ At("create") /\ MayBegin
    /\ Executes("created")
    /\ UNCHANGED Frame

\* Bug variant: the creation returns with its state open.
EndCreateOpen ==
    /\ At("created")
    /\ Go("user")
    /\ UNCHANGED <<Frame, todo>>

EndCreate ==
    /\ At("created")
    /\ Go("user") /\ todo' = <<"end">>
    /\ UNCHANGED Frame

\* mir_task_wait_int
BeginWait ==
    /\ At("user") /\ MayBegin
    /\ Go("wait") /\ todo' = <<"TSYNC">>
    /\ UNCHANGED Frame

EndWait ==
    /\ At("wait")
    /\ Go("user") /\ todo' = <<"end">>
    /\ UNCHANGED Frame

\* allocate_coarse, allocate_fine
Allocate ==
    /\ At("user") /\ MayBegin
    /\ todo' = <<"TMALLOC", "end">>
    /\ UNCHANGED <<Frame, contexts>>

\* mir_worker_do_work, of the loop and of waits: there may be a task.
Take ==
    /\ At("loop") \/ At("wait")
    /\ MayBegin
    /\ Go("popped")
    /\ UNCHANGED <<Frame, todo>>

Execute ==
    /\ At("popped")
    /\ Executes("executed")
    /\ UNCHANGED Frame

EndTask ==
    /\ At("user") /\ ~InBase
    /\ contexts' = Front(contexts) /\ todo' = Epilog
    /\ UNCHANGED Frame

NotBusy ==
    /\ At("executed")
    /\ Go(IF InBase /\ ~setup.main THEN "loop" ELSE "wait")
    /\ UNCHANGED <<Frame, todo>>

\* The worker sees its sig_dying.
SeeDying ==
    /\ At("loop") /\ phase # "alive"
    /\ Go("dead") /\ todo' = IdleEpilog \o Epilog
    /\ UNCHANGED Frame
-----------------------------------------------------------------------------
(* mir_destroy *)

\* The main program calls it.
CallDestroy ==
    /\ setup.main /\ At("user") /\ InBase
    /\ Go("destroy") /\ todo' = Append(IdleEpilog, "event")
    /\ UNCHANGED Frame

Busy == \E i \in DOMAIN contexts : contexts[i].at = "executed"

\* mir_worker_check_done has found no worker busy, and sig_dying is set.
Freeze ==
    /\ phase = "alive" /\ ~Busy
    /\ setup.main => At("destroy")
    /\ phase' = "dying"
    /\ UNCHANGED <<setup, recorder, contexts, todo, call, dump, owed>>

\* Will the worker call its recorder no more?
Quiet == todo = <<>> /\ TopAt \in {"dead", "destroy"}

\* "Shutdown recorders", which comes to this worker.
BeginDump ==
    /\ phase = "dying"
    /\ phase' = "dump"
    /\ DumpGoes("mir_destroy", "states", 0)
    /\ owed' = [owed EXCEPT !.states = ToSet(StatesOf(recorder)), !.events = ToSet(EventsOf(recorder)),
                            !.all = Quiet]
    /\ UNCHANGED <<setup, recorder, contexts, todo, call>>

Free ==
    /\ phase = "dumped"
    /\ recorder' = destroy(recorder)
    /\ phase' = "freed"
    /\ UNCHANGED <<setup, contexts, todo, call, dump, owed>>
-----------------------------------------------------------------------------
CallStep == BeginState \/ EndState \/ NoteEvent \/ CountState \/ CountEvent \/ CheckFull \/ CallFreed
DumpStep(t) == DumpStates(t) \/ DumpEvents(t) \/ RewindEvents(t) \/ RewindStates(t)
UserStep == BeginCreate \/ Push \/ PushRefused \/ EndCreate \/ BeginWait \/ EndWait \/ Allocate
WorkerStep == Take \/ Execute \/ EndTask \/ NotBusy \/ SeeDying
DestroyStep == CallDestroy \/ Freeze \/ BeginDump \/ Free

Next == CallStep \/ (\E t \in Dumpers : DumpStep(t)) \/ UserStep \/ WorkerStep \/ DestroyStep
Spec == Init /\ [][Next]_vars
-----------------------------------------------------------------------------
(* Properties *)

TypeOK ==
    /\ recorder.state_buffer_head \in Slots /\ recorder.event_buffer_head \in Slots
    /\ \A t \in Dumpers : dump[t].i \in Slots
    /\ recorder.this_state \in Names \cup {"unwritten"}
    /\ call.step \in {"none", "count_state", "count_event", "check_state", "check_event", "dump"}
    /\ phase \in {"alive", "dying", "dump", "dumped", "freed"}

\* A recorder has lost and doubled nothing, though its buffers are dumped now and
\* then, by the end of a state or by an event, and both are rewound: not between two
\* calls until mir_destroy comes to dump it, nor in its file when it is freed, if the
\* worker had stopped before that, as the main program has.
Undisturbed == phase \in {"alive", "dying"} /\ call.step = "none"
RecordsAreWhole ==
    Undisturbed \/ (recorder.freed /\ owed.all) =>
        NothingLost(recorder) /\ ParentsEnclose(recorder)

\* What is open on the stack is what the worker is inside: whatever a task has
\* executed within its waits and creations, its own state is on top again after it,
\* and no task on top of another takes more than two states, so that only the
\* nesting of tasks can use up MIR_RECORDER_STACK_MAX_SIZE.
TopIdle == IF setup.idle_task THEN <<"TIMPLICIT">> ELSE <<>>
Opened(i) ==
    LET at == contexts[i].at
        own == IF i > 1 THEN <<"TEXEC">> ELSE IF setup.main THEN TopIdle ELSE <<"TIDLE">> \o TopIdle
    IN  IF at \in {"dead", "destroy"} THEN <<>>
        ELSE IF at \in {"create", "created"} THEN Append(own, "TCREATE")
        ELSE IF at = "wait" \/ (at \in {"popped", "executed"} /\ (i > 1 \/ setup.main))
             THEN Append(own, "TSYNC")
        ELSE own
DepthAbove(i) == IF i < Len(contexts) THEN contexts[i + 1].depth ELSE Len(recorder.state_stack)
OpenOf(i) == [j \in 1 .. DepthAbove(i) - contexts[i].depth |->
                recorder.state_stack[contexts[i].depth + j].name]

StatesNest ==
    todo = <<>> /\ ~recorder.freed =>
        /\ \A i \in DOMAIN contexts : OpenOf(i) = Opened(i)
        /\ Len(recorder.state_stack) <= 2 * Len(contexts)
        /\ recorder.state_stack # <<>> => recorder.this_state = Last(recorder.state_stack).name

\* mir_destroy dumps while the worker may still record, and dump itself, with the
\* same heads: what was recorded before it began is in the file none the less.
DumpIsComplete ==
    recorder.freed => /\ owed.states \subseteq ToSet(recorder.buffer_file.s)
                      /\ owed.events \subseteq ToSet(recorder.buffer_file.e)

\* No run checks this, and TLC refutes it: a worker that ends its idle state before
\* its recorder is freed need not have it in the file, because the heads are rewound
\* after the dump, whatever was appended during it.
IdleStateIsDumped ==
    recorder.freed /\ ~setup.main /\ recorder.num_states > 0 /\ recorder.state_stack = <<>> =>
        \E i \in DOMAIN recorder.buffer_file.s : recorder.buffer_file.s[i].name = "TIDLE"
=============================================================================
