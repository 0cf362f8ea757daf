----------------------------- MODULE MirRecorder -----------------------------
(***************************************************************************)
(* The recorder of a worker (mir_recorder.c): states nest on a stack and   *)
(* go to a buffer when they end, events go to another, and both buffers    *)
(* are dumped to the file when one is nearly full.  A recorder is a        *)
(* record, and what a call does to it between two moments at which another *)
(* thread may look is an operator from recorder to recorder.  Of the times *)
(* only the order is kept, in which states end and events happen; hardware *)
(* counters and metadata are left out.                                     *)
(***************************************************************************)
EXTENDS Integers, Sequences, FiniteSets, SequencesExt

CONSTANTS
    BufferMax,      \* MIR_RECORDER_BUFFER_MAX_SIZE
    Ids             \* values of the ids of states and events (2^16)

ASSUME RecorderAssumption == BufferMax \in Nat \ {0, 1} /\ Ids \in Nat \ {0}

Slots == 0 .. BufferMax - 1

\* mir_recorder_create.  The memory of the buffers is as malloc has given it.  A
\* line of the file is marked "s:" or "e:", and the two kinds are kept apart here.
NewRecorder ==
    [state_stack |-> <<>>,
     state_buffer |-> [i \in Slots |-> [name |-> "unwritten", id |-> 0, parent_id |-> 0]],
     event_buffer |-> [i \in Slots |-> [event |-> 0]],
     state_buffer_head |-> 0, event_buffer_head |-> 0,
     buffer_file |-> [s |-> <<>>, e |-> <<>>],
     num_states |-> 0, num_events |-> 0, this_state |-> "TIDLE", freed |-> FALSE]

record_state_transition(r, next_state) == [r EXCEPT !.this_state = next_state]

state_begin(r, name) ==
    LET parent == IF r.state_stack = <<>> THEN 0 ELSE Last(r.state_stack).id
        id == (r.num_states + 1) % Ids
    IN  [record_state_transition(r, name) EXCEPT
            !.num_states = @ + 1,
            !.state_stack = Append(@, [name |-> name, id |-> id, parent_id |-> parent])]

\* mir_recorder_state_end up to the copy into the buffer.  When the outermost
\* state ends, the code reads the name below the stack, in memory that malloc has
\* given and nobody has written: "unwritten" stands for any name.
pop_state(r) ==
    LET below == Front(r.state_stack)
        next_state == IF below = <<>> THEN "unwritten" ELSE Last(below).name
    IN  [record_state_transition(r, next_state) EXCEPT
            !.state_stack = below,
            !.state_buffer[r.state_buffer_head] = Last(r.state_stack)]

\* mir_recorder_event up to the copy into the buffer.
note_event(r) ==
    [r EXCEPT !.num_events = @ + 1,
              !.event_buffer[r.event_buffer_head] = [event |-> (r.num_events + 1) % Ids]]

\* The heads are plain words in memory, increased from the value that was read.
count_state(r, head) == [r EXCEPT !.state_buffer_head = head + 1]
count_event(r, head) == [r EXCEPT !.event_buffer_head = head + 1]

\* Of mir_recorder_write_to_file: one line of each loop, and "Rewind heads".
dump_state(r, i) == [r EXCEPT !.buffer_file.s = Append(@, r.state_buffer[i])]
dump_event(r, i) == [r EXCEPT !.buffer_file.e = Append(@, r.event_buffer[i])]
rewind_events(r) == [r EXCEPT !.event_buffer_head = 0]
rewind_states(r) == [r EXCEPT !.state_buffer_head = 0]

\* Bug variant: the head of the states is left.
rewind_no_states(r) == r

\* mir_recorder_destroy
destroy(r) == [record_state_transition(r, "TIDLE") EXCEPT !.freed = TRUE]
-----------------------------------------------------------------------------
(* What a recorder holds *)

\* The lines of a buffer from one index up to another.
Held(buffer, from, head) == [i \in 1 .. head - from |-> buffer[from + i - 1]]
StatesOf(r) == r.buffer_file.s \o Held(r.state_buffer, 0, r.state_buffer_head)
EventsOf(r) == r.buffer_file.e \o Held(r.event_buffer, 0, r.event_buffer_head)

\* Every state that was begun is recorded once or still open, every event once
\* and in order.
NothingLost(r) ==
    LET all == StatesOf(r) \o r.state_stack
    IN  /\ Len(all) = r.num_states
        /\ {all[i].id : i \in DOMAIN all} = {i % Ids : i \in 1 .. r.num_states}
        /\ EventsOf(r) = [i \in 1 .. r.num_events |-> [event |-> i % Ids]]

\* The parent of a state ends after it, and begins before it.
ParentsEnclose(r) ==
    LET all == StatesOf(r) \o Reverse(r.state_stack)
    IN  \A i \in DOMAIN all :
            all[i].parent_id # 0 =>
                \E j \in i + 1 .. Len(all) : /\ all[j].id = all[i].parent_id
                                             /\ all[j].id < all[i].id
=============================================================================
