---------------------------- MODULE MirTraceProofs ----------------------------
(***************************************************************************)
(* Proofs about the trace of a worker (MirTrace).                          *)
(*                                                                         *)
(* What is open on the stack is said by the contexts of the worker and by  *)
(* the calls that are still to come (NestInv).  What a recorder holds is   *)
(* the file, then the part of the buffers that is not yet dumped; a call   *)
(* under way and a dump under way say which part that is (WholeInv).  From *)
(* the moment at which mir_destroy dumps as well, that holds only if the   *)
(* worker had stopped; in any case what was recorded by then is in the     *)
(* file or still before both dumps (OwedInv).                              *)
(***************************************************************************)
EXTENDS MirTrace, SequenceTheorems, NaturalsInduction, WellFoundedInduction, TLAPS

USE RecorderAssumption, TraceAssumption

StateNames == Names \cup {"unwritten"}
StateRecords == [name : StateNames, id : Nat, parent_id : Nat]
EventRecords == [event : Nat]
Recorders ==
    [state_stack : Seq(StateRecords), state_buffer : [Slots -> StateRecords],
     event_buffer : [Slots -> EventRecords],
     state_buffer_head : Slots, event_buffer_head : Slots,
     buffer_file : [s : Seq(StateRecords), e : Seq(EventRecords)],
     num_states : Nat, num_events : Nat, this_state : StateNames, freed : BOOLEAN]
-----------------------------------------------------------------------------
(* Lists of states and events *)

IdsIn(s) == {s[i].id : i \in DOMAIN s}
EventsUpTo(n) == [i \in 1 .. n |-> [event |-> i % Ids]]

\* The open states are a chain of parents, and a state that has ended has its
\* parent among those that ended later or among the open ones.
Chain(k) == \A i \in 1 .. Len(k) :
    IF i = 1 THEN k[i].parent_id = 0
    ELSE k[i].parent_id = k[i - 1].id /\ k[i - 1].id < k[i].id
IsParent(p, c) == p.id = c.parent_id /\ p.id < c.id
Enclosed(s, k) == \A i \in 1 .. Len(s) : s[i].parent_id # 0 =>
    \/ \E j \in i + 1 .. Len(s) : IsParent(s[j], s[i])
    \/ \E j \in 1 .. Len(k) : IsParent(k[j], s[i])

\* A recorder of which s and e are what has been recorded: states that ended and
\* events.
Sound(r, s, e) ==
    /\ s \in Seq(StateRecords) /\ e \in Seq(EventRecords)
    /\ Len(s) + Len(r.state_stack) = r.num_states
    /\ IdsIn(s) \cup IdsIn(r.state_stack) = {i % Ids : i \in 1 .. r.num_states}
    /\ e = EventsUpTo(r.num_events)
    /\ r.num_states < Ids => Chain(r.state_stack) /\ Enclosed(s, r.state_stack)

LEMMA IdFacts == \A n \in Nat : n % Ids \in Nat /\ (n < Ids => n % Ids = n)
OBVIOUS

LEMMA ListFacts ==
    ASSUME NEW S, NEW s \in Seq(S)
    PROVE  /\ Len(s) \in Nat /\ DOMAIN s = 1 .. Len(s) /\ \A i \in 1 .. Len(s) : s[i] \in S
           /\ s # <<>> <=> Len(s) # 0
           /\ s # <<>> => Last(s) = s[Len(s)] /\ Last(s) \in S
<1>1. /\ Len(s) \in Nat /\ DOMAIN s = 1 .. Len(s) /\ \A i \in 1 .. Len(s) : s[i] \in S
  OBVIOUS
<1>2. s # <<>> <=> Len(s) # 0
  OBVIOUS
<1> QED
  BY <1>1, <1>2 DEF Last

LEMMA AppendFacts ==
    ASSUME NEW S, NEW s \in Seq(S), NEW x \in S
    PROVE  /\ Append(s, x) \in Seq(S) /\ Len(Append(s, x)) = Len(s) + 1 /\ Append(s, x) # <<>>
           /\ Last(Append(s, x)) = x /\ Append(s, x)[Len(s) + 1] = x
           /\ \A i \in 1 .. Len(s) : Append(s, x)[i] = s[i]
<1>1. Append(s, x) \in Seq(S) /\ Len(Append(s, x)) = Len(s) + 1
  OBVIOUS
<1>2. Append(s, x)[Len(s) + 1] = x /\ \A i \in 1 .. Len(s) : Append(s, x)[i] = s[i]
  OBVIOUS
<1>3. Append(s, x) # <<>> /\ Last(Append(s, x)) = x
  BY <1>1, <1>2 DEF Last
<1> QED
  BY <1>1, <1>2, <1>3

LEMMA FrontFacts ==
    ASSUME NEW S, NEW s \in Seq(S), s # <<>>
    PROVE  /\ Front(s) \in Seq(S) /\ Len(Front(s)) = Len(s) - 1 /\ Len(s) > 0
           /\ \A i \in 1 .. Len(s) - 1 : Front(s)[i] = s[i]
           /\ Last(s) = s[Len(s)] /\ Last(s) \in S
<1>1. /\ Len(s) \in Nat \ {0} /\ Last(s) = s[Len(s)] /\ Last(s) \in S
      /\ \A i \in 1 .. Len(s) : s[i] \in S
  BY ListFacts
<1>2. \A i \in 1 .. Len(s) - 1 : s[i] \in S
  BY <1>1
<1> DEFINE f == SubSeq(s, 1, Len(s) - 1)
<1>3. /\ f \in Seq(S)
      /\ Len(f) = IF 1 <= Len(s) - 1 THEN Len(s) - 1 - 1 + 1 ELSE 0
      /\ \A i \in 1 .. Len(s) - 1 - 1 + 1 : f[i] = s[1 + i - 1]
  BY <1>1, <1>2, SubSeqProperties
<1>4. Front(s) = f
  BY DEF Front
<1> HIDE DEF f
<1>5. Len(f) = Len(s) - 1
  <2>1. \A n \in Nat \ {0} : n - 1 = IF 1 <= n - 1 THEN n - 1 - 1 + 1 ELSE 0
    OBVIOUS
  <2> QED
    BY <1>1, <1>3, <2>1
<1>6. \A i \in 1 .. Len(s) - 1 : f[i] = s[i]
  BY <1>1, <1>3
<1> QED
  BY <1>1, <1>3, <1>4, <1>5, <1>6

LEMMA JoinFacts ==
    ASSUME NEW S, NEW s \in Seq(S), NEW t \in Seq(S)
    PROVE  /\ s \o t \in Seq(S) /\ Len(s \o t) = Len(s) + Len(t)
           /\ \A i \in 1 .. Len(s) : (s \o t)[i] = s[i]
           /\ \A i \in 1 .. Len(t) : (s \o t)[Len(s) + i] = t[i]
OBVIOUS

\* What is appended to a list that follows another is appended to both.
LEMMA JoinAppend ==
    ASSUME NEW S, NEW s \in Seq(S), NEW t \in Seq(S), NEW x \in S
    PROVE  s \o Append(t, x) = Append(s \o t, x)
OBVIOUS

LEMMA JoinEmpty ==
    ASSUME NEW S, NEW s \in Seq(S)
    PROVE  s \o <<>> = s /\ <<>> \o s = s
OBVIOUS

LEMMA IdsAppend ==
    ASSUME NEW s \in Seq(StateRecords), NEW x \in StateRecords
    PROVE  IdsIn(Append(s, x)) = IdsIn(s) \cup {x.id}
<1> DEFINE t == Append(s, x)
<1>1. /\ DOMAIN s = 1 .. Len(s) /\ DOMAIN t = 1 .. Len(s) + 1 /\ Len(s) \in Nat
      /\ t[Len(s) + 1] = x /\ \A i \in 1 .. Len(s) : t[i] = s[i]
  BY ListFacts, AppendFacts
<1> HIDE DEF t
<1>2. {t[i].id : i \in 1 .. Len(s) + 1} = {s[i].id : i \in 1 .. Len(s)} \cup {x.id}
  BY <1>1
<1> QED
  BY <1>1, <1>2 DEF IdsIn, t

LEMMA IdsFront ==
    ASSUME NEW s \in Seq(StateRecords), s # <<>>
    PROVE  IdsIn(s) = IdsIn(Front(s)) \cup {Last(s).id}
<1> DEFINE t == Front(s)
<1>1. /\ DOMAIN s = 1 .. Len(s) /\ DOMAIN t = 1 .. Len(s) - 1 /\ Len(s) \in Nat \ {0}
      /\ Last(s) = s[Len(s)] /\ \A i \in 1 .. Len(s) - 1 : t[i] = s[i]
  BY ListFacts, FrontFacts
<1> HIDE DEF t
<1>2. {s[i].id : i \in 1 .. Len(s)} = {t[i].id : i \in 1 .. Len(s) - 1} \cup {s[Len(s)].id}
  BY <1>1
<1> QED
  BY <1>1, <1>2 DEF IdsIn, t

\* The next id is in no list yet.
LEMMA NextIds ==
    ASSUME NEW n \in Nat
    PROVE  {i % Ids : i \in 1 .. n + 1} = {i % Ids : i \in 1 .. n} \cup {(n + 1) % Ids}
<1>1. 1 .. n + 1 = (1 .. n) \cup {n + 1}
  OBVIOUS
<1> QED
  BY <1>1

LEMMA EventsNext ==
    ASSUME NEW n \in Nat
    PROVE  EventsUpTo(n + 1) = Append(EventsUpTo(n), [event |-> (n + 1) % Ids])
<1> DEFINE x == [event |-> (n + 1) % Ids]
<1>1. EventsUpTo(n) \in Seq(EventRecords) /\ Len(EventsUpTo(n)) = n
  BY IdFacts DEF EventsUpTo, EventRecords
<1>2. EventsUpTo(n + 1) \in Seq(EventRecords) /\ Len(EventsUpTo(n + 1)) = n + 1
  BY IdFacts DEF EventsUpTo, EventRecords
<1>3. x \in EventRecords
  BY IdFacts DEF EventRecords
<1>4. \A i \in 1 .. n + 1 : EventsUpTo(n + 1)[i] = IF i = n + 1 THEN x ELSE EventsUpTo(n)[i]
  BY DEF EventsUpTo
<1> HIDE DEF x
<1>5. /\ Append(EventsUpTo(n), x) \in Seq(EventRecords) /\ Len(Append(EventsUpTo(n), x)) = n + 1
      /\ Append(EventsUpTo(n), x)[n + 1] = x
      /\ \A i \in 1 .. n : Append(EventsUpTo(n), x)[i] = EventsUpTo(n)[i]
  BY <1>1, <1>3, AppendFacts
<1>6. \A i \in 1 .. n + 1 : Append(EventsUpTo(n), x)[i] = EventsUpTo(n + 1)[i]
  BY <1>4, <1>5
<1>7. EventsUpTo(n + 1) = Append(EventsUpTo(n), x)
  BY <1>2, <1>5, <1>6, SeqEqual
<1> QED
  BY <1>7 DEF x

LEMMA IdsJoin ==
    ASSUME NEW s \in Seq(StateRecords), NEW t \in Seq(StateRecords)
    PROVE  IdsIn(s \o t) = IdsIn(s) \cup IdsIn(t)
<1> DEFINE u == s \o t
<1>1. /\ Len(s) \in Nat /\ Len(t) \in Nat /\ Len(u) = Len(s) + Len(t) /\ u \in Seq(StateRecords)
      /\ \A i \in 1 .. Len(s) : u[i] = s[i]
      /\ \A i \in 1 .. Len(t) : u[Len(s) + i] = t[i]
  BY JoinFacts, ListFacts
<1>2. DOMAIN s = 1 .. Len(s) /\ DOMAIN t = 1 .. Len(t) /\ DOMAIN u = 1 .. Len(s) + Len(t)
  <2>1. DOMAIN u = 1 .. Len(u)
    BY <1>1
  <2> QED
    BY <1>1, <2>1
<1> HIDE DEF u
<1>3. \A i \in 1 .. Len(s) + Len(t) : i \in 1 .. Len(s)
                                        \/ (i - Len(s) \in 1 .. Len(t) /\ Len(s) + (i - Len(s)) = i)
  BY <1>1
<1>4. ASSUME NEW i \in 1 .. Len(s) + Len(t) PROVE u[i].id \in IdsIn(s) \cup IdsIn(t)
  <2>1. CASE i \in 1 .. Len(s)
    <3>1. u[i] = s[i] /\ i \in DOMAIN s
      BY <1>1, <1>2, <2>1
    <3> QED
      BY <3>1 DEF IdsIn
  <2>2. CASE i - Len(s) \in 1 .. Len(t) /\ Len(s) + (i - Len(s)) = i
    <3>1. u[i] = t[i - Len(s)] /\ i - Len(s) \in DOMAIN t
      BY <1>1, <1>2, <2>2
    <3> QED
      BY <3>1 DEF IdsIn
  <2> QED
    BY <1>3, <2>1, <2>2
<1>5. ASSUME NEW i \in 1 .. Len(s) PROVE s[i].id \in IdsIn(u)
  <2>1. i \in 1 .. Len(s) + Len(t)
    BY <1>1
  <2> QED
    BY <1>1, <1>2, <2>1 DEF IdsIn
<1>6. ASSUME NEW i \in 1 .. Len(t) PROVE t[i].id \in IdsIn(u)
  <2>1. Len(s) + i \in 1 .. Len(s) + Len(t)
    BY <1>1
  <2> QED
    BY <1>1, <1>2, <2>1 DEF IdsIn
<1>7. IdsIn(u) = IdsIn(s) \cup IdsIn(t)
  BY <1>2, <1>4, <1>5, <1>6 DEF IdsIn
<1> QED
  BY <1>7 DEF u
-----------------------------------------------------------------------------
(* The calls to a recorder *)

LEMMA RecorderParts ==
    ASSUME NEW r \in Recorders
    PROVE  /\ r.state_stack \in Seq(StateRecords)
           /\ r.state_buffer \in [Slots -> StateRecords] /\ r.event_buffer \in [Slots -> EventRecords]
           /\ r.state_buffer_head \in Slots /\ r.event_buffer_head \in Slots
           /\ r.buffer_file.s \in Seq(StateRecords) /\ r.buffer_file.e \in Seq(EventRecords)
           /\ r.num_states \in Nat /\ r.num_events \in Nat /\ r.freed \in BOOLEAN
           /\ r.this_state \in StateNames
BY DEF Recorders

\* What the calls leave alone.
SameBuffers(r, t) ==
    /\ t.state_buffer = r.state_buffer /\ t.event_buffer = r.event_buffer
    /\ t.state_buffer_head = r.state_buffer_head /\ t.event_buffer_head = r.event_buffer_head
    /\ t.buffer_file = r.buffer_file /\ t.freed = r.freed
SameStack(r, t) ==
    /\ t.state_stack = r.state_stack /\ t.num_states = r.num_states /\ t.this_state = r.this_state
    /\ t.num_events = r.num_events /\ t.freed = r.freed

\* The record that mir_recorder_state_begin pushes.
Begun(r, name) ==
    [name |-> name, id |-> (r.num_states + 1) % Ids,
     parent_id |-> IF r.state_stack = <<>> THEN 0 ELSE Last(r.state_stack).id]

LEMMA BeginFields ==
    ASSUME NEW r \in Recorders, NEW name \in Names
    PROVE  LET t == state_begin(r, name)
           IN  /\ t \in Recorders /\ SameBuffers(r, t) /\ Begun(r, name) \in StateRecords
               /\ t.state_stack = Append(r.state_stack, Begun(r, name))
               /\ t.num_states = r.num_states + 1 /\ t.num_events = r.num_events
               /\ t.this_state = name
<1> DEFINE t == state_begin(r, name)
           x == Begun(r, name)
<1>1. /\ r.state_stack \in Seq(StateRecords) /\ r.num_states \in Nat
      /\ r.state_stack # <<>> => Last(r.state_stack) \in StateRecords
  BY RecorderParts, ListFacts
<1>2. (r.num_states + 1) % Ids \in Nat
  BY <1>1, IdFacts
<1>3. (IF r.state_stack = <<>> THEN 0 ELSE Last(r.state_stack).id) \in Nat
  BY <1>1 DEF StateRecords
<1>4. x \in StateRecords
  BY <1>2, <1>3 DEF Begun, StateRecords, StateNames
<1>5. t = [[r EXCEPT !.this_state = name] EXCEPT !.num_states = @ + 1, !.state_stack = Append(@, x)]
  BY DEF state_begin, record_state_transition, Begun
<1> HIDE DEF t, x
<1>6. /\ SameBuffers(r, t) /\ t.state_stack = Append(r.state_stack, x)
      /\ t.num_states = r.num_states + 1 /\ t.num_events = r.num_events /\ t.this_state = name
  BY <1>5 DEF Recorders, SameBuffers
<1>7. Append(r.state_stack, x) \in Seq(StateRecords) /\ r.num_states + 1 \in Nat /\ name \in StateNames
  BY <1>1, <1>4 DEF StateNames
<1>8. t \in Recorders
  BY <1>5, <1>7 DEF Recorders
<1> QED
  BY <1>4, <1>6, <1>8 DEF t, x

LEMMA EndFields ==
    ASSUME NEW r \in Recorders, r.state_stack # <<>>
    PROVE  LET t == pop_state(r)
               below == Front(r.state_stack)
           IN  /\ t \in Recorders
               /\ t.state_stack = below /\ t.num_states = r.num_states /\ t.num_events = r.num_events
               /\ t.this_state = IF below = <<>> THEN "unwritten" ELSE Last(below).name
               /\ t.state_buffer = [r.state_buffer EXCEPT ![r.state_buffer_head] = Last(r.state_stack)]
               /\ t.event_buffer = r.event_buffer /\ t.buffer_file = r.buffer_file /\ t.freed = r.freed
               /\ t.state_buffer_head = r.state_buffer_head /\ t.event_buffer_head = r.event_buffer_head
<1> DEFINE t == pop_state(r)
           k == r.state_stack
           below == Front(k)
           next == IF below = <<>> THEN "unwritten" ELSE Last(below).name
           h == r.state_buffer_head
           x == Last(k)
<1>1. k \in Seq(StateRecords) /\ h \in Slots /\ r.state_buffer \in [Slots -> StateRecords]
  BY RecorderParts
<1>2. below \in Seq(StateRecords) /\ x \in StateRecords
  BY <1>1, FrontFacts
<1>3. below # <<>> => Last(below) \in StateRecords
  BY <1>2, ListFacts
<1>4. next \in StateNames
  BY <1>3 DEF StateRecords, StateNames
<1>5. t = [[r EXCEPT !.this_state = next] EXCEPT !.state_stack = below, !.state_buffer[h] = x]
  BY DEF pop_state, record_state_transition
<1> HIDE DEF t, x, below, next
<1>6. [r.state_buffer EXCEPT ![h] = x] \in [Slots -> StateRecords]
  BY <1>1, <1>2
<1>7. /\ t.state_stack = below /\ t.num_states = r.num_states /\ t.num_events = r.num_events
      /\ t.this_state = next /\ t.state_buffer = [r.state_buffer EXCEPT ![h] = x]
      /\ t.event_buffer = r.event_buffer /\ t.buffer_file = r.buffer_file /\ t.freed = r.freed
      /\ t.state_buffer_head = r.state_buffer_head /\ t.event_buffer_head = r.event_buffer_head
  BY <1>5 DEF Recorders
<1>8. t \in Recorders
  BY <1>2, <1>4, <1>5, <1>6 DEF Recorders
<1> QED
  BY <1>7, <1>8 DEF t, x, below, next

NextEvent(r) == [event |-> (r.num_events + 1) % Ids]

LEMMA EventFields ==
    ASSUME NEW r \in Recorders
    PROVE  LET t == note_event(r)
           IN  /\ t \in Recorders /\ NextEvent(r) \in EventRecords
               /\ t.state_stack = r.state_stack /\ t.num_states = r.num_states
               /\ t.num_events = r.num_events + 1 /\ t.this_state = r.this_state
               /\ t.event_buffer = [r.event_buffer EXCEPT ![r.event_buffer_head] = NextEvent(r)]
               /\ t.state_buffer = r.state_buffer /\ t.buffer_file = r.buffer_file /\ t.freed = r.freed
               /\ t.state_buffer_head = r.state_buffer_head /\ t.event_buffer_head = r.event_buffer_head
<1> DEFINE t == note_event(r)
           x == NextEvent(r)
           h == r.event_buffer_head
<1>1. h \in Slots /\ r.event_buffer \in [Slots -> EventRecords] /\ r.num_events \in Nat
  BY RecorderParts
<1>2. x \in EventRecords
  BY <1>1, IdFacts DEF NextEvent, EventRecords
<1>3. t = [r EXCEPT !.num_events = @ + 1, !.event_buffer[h] = x]
  BY DEF note_event, NextEvent
<1> HIDE DEF t, x
<1>4. [r.event_buffer EXCEPT ![h] = x] \in [Slots -> EventRecords] /\ r.num_events + 1 \in Nat
  BY <1>1, <1>2
<1>5. /\ t.state_stack = r.state_stack /\ t.num_states = r.num_states
      /\ t.num_events = r.num_events + 1 /\ t.this_state = r.this_state
      /\ t.event_buffer = [r.event_buffer EXCEPT ![h] = x]
      /\ t.state_buffer = r.state_buffer /\ t.buffer_file = r.buffer_file /\ t.freed = r.freed
      /\ t.state_buffer_head = r.state_buffer_head /\ t.event_buffer_head = r.event_buffer_head
  BY <1>3 DEF Recorders
<1>6. t \in Recorders
  BY <1>3, <1>4 DEF Recorders
<1> QED
  BY <1>2, <1>5, <1>6 DEF t, x

LEMMA BeginSound ==
    ASSUME NEW r \in Recorders, NEW s, NEW e, Sound(r, s, e), NEW name \in Names
    PROVE  Sound(state_begin(r, name), s, e)
<1> DEFINE t == state_begin(r, name)
           id == (r.num_states + 1) % Ids
           parent == IF r.state_stack = <<>> THEN 0 ELSE Last(r.state_stack).id
           x == Begun(r, name)
           k == r.state_stack
           K == Append(k, x)
<1>1. s \in Seq(StateRecords) /\ k \in Seq(StateRecords) /\ r.num_states \in Nat
  BY RecorderParts DEF Sound
<1>2. id \in Nat /\ (r.num_states + 1 < Ids => id = r.num_states + 1)
  BY <1>1, IdFacts
<1>4. x \in StateRecords /\ x.id = id /\ x.parent_id = parent
  BY BeginFields DEF Begun
<1>7. t.state_stack = K /\ t.num_states = r.num_states + 1 /\ t.num_events = r.num_events
  BY BeginFields
<1> HIDE DEF x
<1>5. /\ K \in Seq(StateRecords) /\ Len(K) = Len(k) + 1 /\ K # <<>>
      /\ K[Len(k) + 1] = x /\ (\A i \in 1 .. Len(k) : K[i] = k[i])
  BY <1>1, <1>4, AppendFacts
<1>b. IdsIn(K) = IdsIn(k) \cup {id}
  BY <1>1, <1>4, IdsAppend
<1> HIDE DEF t, id, parent, K
<1>10. IdsIn(s) \cup IdsIn(K) = {i % Ids : i \in 1 .. r.num_states + 1}
  BY <1>1, <1>b, NextIds DEF Sound, id
<1>11. ASSUME r.num_states + 1 < Ids PROVE Chain(K) /\ Enclosed(s, K)
  <2>1. Chain(k) /\ Enclosed(s, k) /\ id = r.num_states + 1
    BY <1>1, <1>2, <1>11 DEF Sound
  <2>2. \A i \in 1 .. Len(k) : k[i].id < id
    <3>1. SUFFICES ASSUME NEW i \in 1 .. Len(k) PROVE k[i].id < id
      OBVIOUS
    <3>2. k[i].id \in {j % Ids : j \in 1 .. r.num_states}
      <4>1. i \in DOMAIN k
        BY <1>1, ListFacts
      <4>2. k[i].id \in IdsIn(k)
        BY <4>1 DEF IdsIn
      <4> QED
        BY <4>2 DEF Sound
    <3>3. PICK j \in 1 .. r.num_states : k[i].id = j % Ids
      BY <3>2
    <3>4. j % Ids = j
      BY <1>1, <1>11, <3>3, IdFacts
    <3> QED
      BY <1>1, <2>1, <3>3, <3>4
  <2>3. Chain(K)
    <3>1. SUFFICES ASSUME NEW i \in 1 .. Len(K)
                   PROVE  IF i = 1 THEN K[i].parent_id = 0
                          ELSE K[i].parent_id = K[i - 1].id /\ K[i - 1].id < K[i].id
      BY DEF Chain
    <3>2. Len(k) \in Nat /\ (k # <<>> <=> Len(k) # 0) /\ (k # <<>> => Last(k) = k[Len(k)])
      BY <1>1, ListFacts
    <3>3. CASE i \in 1 .. Len(k)
      <4>1. K[i] = k[i] /\ (i # 1 => K[i - 1] = k[i - 1])
        BY <1>5, <3>2, <3>3
      <4> QED
        BY <2>1, <3>3, <4>1 DEF Chain
    <3>4. CASE i = Len(k) + 1
      <4>1. K[i] = x /\ (i # 1 => i - 1 \in 1 .. Len(k) /\ K[i - 1] = k[Len(k)])
        BY <1>5, <3>2, <3>4
      <4>2. x.parent_id = IF i = 1 THEN 0 ELSE k[Len(k)].id
        BY <1>4, <3>2, <3>4 DEF parent
      <4> QED
        BY <1>4, <2>2, <3>2, <3>4, <4>1, <4>2
    <3> QED
      BY <1>5, <3>2, <3>3, <3>4
  <2>4. Enclosed(s, K)
    <3>1. Len(k) \in Nat
      BY <1>1, ListFacts
    <3>2. \A j \in 1 .. Len(k) : j \in 1 .. Len(K) /\ K[j] = k[j]
      BY <1>5, <3>1
    <3> QED
      BY <2>1, <3>2 DEF Enclosed
  <2> QED
    BY <2>3, <2>4
<1>12. Len(s) + Len(K) = r.num_states + 1
  BY <1>1, <1>5, ListFacts DEF Sound
<1>13. Sound(t, s, e)
  BY <1>7, <1>10, <1>11, <1>12 DEF Sound
<1> QED
  BY <1>13 DEF t

\* The state that ends is recorded after all others.
LEMMA EndSound ==
    ASSUME NEW r \in Recorders, NEW s, NEW e, Sound(r, s, e), r.state_stack # <<>>
    PROVE  Sound(pop_state(r), Append(s, Last(r.state_stack)), e)
<1> DEFINE k == r.state_stack
           K == Front(k)
           x == Last(k)
           t == pop_state(r)
<1>1. s \in Seq(StateRecords) /\ k \in Seq(StateRecords) /\ r.num_states \in Nat
  BY RecorderParts DEF Sound
<1>2. /\ K \in Seq(StateRecords) /\ Len(K) = Len(k) - 1 /\ Len(k) > 0 /\ Len(k) \in Nat
      /\ (\A i \in 1 .. Len(k) - 1 : K[i] = k[i]) /\ x = k[Len(k)] /\ x \in StateRecords
  <2>1. /\ Front(k) \in Seq(StateRecords) /\ Len(Front(k)) = Len(k) - 1 /\ Len(k) > 0
        /\ \A i \in 1 .. Len(k) - 1 : Front(k)[i] = k[i]
        /\ Last(k) = k[Len(k)] /\ Last(k) \in StateRecords
    BY <1>1, FrontFacts
  <2>2. Len(k) \in Nat
    BY <1>1, ListFacts
  <2> QED
    BY <2>1, <2>2
<1>a. IdsIn(k) = IdsIn(K) \cup {x.id}
  BY <1>1, IdsFront
<1>8. t.state_stack = K /\ t.num_states = r.num_states /\ t.num_events = r.num_events
  BY EndFields
<1> HIDE DEF x, K, t
<1>5. /\ Append(s, x) \in Seq(StateRecords) /\ Len(Append(s, x)) = Len(s) + 1
      /\ Append(s, x)[Len(s) + 1] = x /\ \A i \in 1 .. Len(s) : Append(s, x)[i] = s[i]
  BY <1>1, <1>2, AppendFacts
<1>10. IdsIn(Append(s, x)) \cup IdsIn(K) = IdsIn(s) \cup IdsIn(k)
  <2>1. IdsIn(Append(s, x)) = IdsIn(s) \cup {x.id}
    BY <1>1, <1>2, IdsAppend
  <2> QED
    BY <1>a, <2>1
<1>11. ASSUME r.num_states < Ids PROVE Chain(K) /\ Enclosed(Append(s, x), K)
  <2>1. Chain(k) /\ Enclosed(s, k)
    BY <1>11 DEF Sound
  <2>2. Chain(K)
    <3>1. \A i \in 1 .. Len(K) : i \in 1 .. Len(k) /\ K[i] = k[i] /\ (i # 1 => K[i - 1] = k[i - 1])
      BY <1>2
    <3> QED
      BY <2>1, <3>1 DEF Chain
  <2>3. ASSUME NEW i \in 1 .. Len(s) + 1, Append(s, x)[i].parent_id # 0
        PROVE  \/ \E j \in i + 1 .. Len(s) + 1 : IsParent(Append(s, x)[j], Append(s, x)[i])
               \/ \E j \in 1 .. Len(K) : IsParent(K[j], Append(s, x)[i])
    <3>0. Len(s) \in Nat
      BY <1>1, ListFacts
    <3>1. CASE i = Len(s) + 1
      <4>1. Append(s, x)[i] = k[Len(k)] /\ Len(k) \in 1 .. Len(k)
        BY <1>2, <1>5, <3>1
      <4>2. Len(k) # 1 /\ IsParent(k[Len(k) - 1], k[Len(k)])
        BY <2>1, <2>3, <4>1 DEF Chain, IsParent
      <4>3. Len(k) - 1 \in 1 .. Len(K) /\ K[Len(k) - 1] = k[Len(k) - 1]
        <5>1. \A n \in Nat : n > 0 /\ n # 1 => n - 1 \in 1 .. n - 1
          OBVIOUS
        <5> QED
          BY <1>2, <4>2, <5>1
      <4> QED
        BY <4>1, <4>2, <4>3
    <3>2. CASE i \in 1 .. Len(s)
      <4>1. Append(s, x)[i] = s[i]
        BY <1>5, <3>2
      <4>2. CASE \E j \in i + 1 .. Len(s) : IsParent(s[j], s[i])
        <5>1. PICK j \in i + 1 .. Len(s) : IsParent(s[j], s[i])
          BY <4>2
        <5>2. j \in i + 1 .. Len(s) + 1 /\ Append(s, x)[j] = s[j]
          BY <1>5, <3>0, <3>2
        <5> QED
          BY <4>1, <5>1, <5>2
      <4>3. CASE \E j \in 1 .. Len(k) : IsParent(k[j], s[i])
        <5>1. PICK j \in 1 .. Len(k) : IsParent(k[j], s[i])
          BY <4>3
        <5>2. CASE j = Len(k)
          <6>1. Len(s) + 1 \in i + 1 .. Len(s) + 1 /\ Append(s, x)[Len(s) + 1] = k[j]
            BY <1>2, <1>5, <3>0, <3>2, <5>2
          <6> QED
            BY <4>1, <5>1, <6>1
        <5>3. CASE j # Len(k)
          <6>1. j \in 1 .. Len(K) /\ K[j] = k[j]
            BY <1>2, <5>3
          <6> QED
            BY <4>1, <5>1, <6>1
        <5> QED
          BY <5>2, <5>3
      <4> QED
        BY <2>1, <2>3, <3>2, <4>1, <4>2, <4>3 DEF Enclosed
    <3> QED
      BY <3>0, <3>1, <3>2
  <2>4. Enclosed(Append(s, x), K)
    BY <1>5, <2>3 DEF Enclosed
  <2> QED
    BY <2>2, <2>4
<1>12. Len(Append(s, x)) + Len(K) = r.num_states
  <2>1. Len(s) + Len(k) = r.num_states
    BY DEF Sound
  <2>2. Len(s) \in Nat
    BY <1>1, ListFacts
  <2>3. \A a, b \in Nat : (a + 1) + (b - 1) = a + b
    OBVIOUS
  <2> QED
    BY <1>2, <1>5, <2>1, <2>2, <2>3
<1>13. Sound(t, Append(s, x), e)
  <2>1. IdsIn(Append(s, x)) \cup IdsIn(K) = {i % Ids : i \in 1 .. r.num_states}
    BY <1>10 DEF Sound
  <2> QED
    BY <1>5, <1>8, <1>11, <1>12, <2>1 DEF Sound
<1> QED
  BY <1>13 DEF t, x

LEMMA EventSound ==
    ASSUME NEW r \in Recorders, NEW s, NEW e, Sound(r, s, e)
    PROVE  Sound(note_event(r), s, Append(e, NextEvent(r)))
<1> DEFINE t == note_event(r)
<1>1. r.num_events \in Nat
  BY RecorderParts
<1>2. EventsUpTo(r.num_events + 1) = Append(EventsUpTo(r.num_events), NextEvent(r))
  BY <1>1, EventsNext DEF NextEvent
<1>3. /\ t.state_stack = r.state_stack /\ t.num_states = r.num_states
      /\ t.num_events = r.num_events + 1 /\ NextEvent(r) \in EventRecords
  BY EventFields
<1>4. Append(e, NextEvent(r)) \in Seq(EventRecords)
  BY <1>3, AppendFacts DEF Sound
<1> HIDE DEF t
<1>5. Sound(t, s, Append(e, NextEvent(r)))
  BY <1>2, <1>3, <1>4 DEF Sound
<1> QED
  BY <1>5 DEF t

\* Two recorders with the same stack and counts.
\* A recorder that has recorded what it holds loses and doubles nothing, and knows
\* the parents of its states while its ids have not wrapped.
LEMMA SoundIsWhole ==
    ASSUME NEW r \in Recorders, Sound(r, StatesOf(r), EventsOf(r))
    PROVE  NothingLost(r) /\ (r.num_states < Ids => ParentsEnclose(r))
<1> DEFINE s == StatesOf(r)
           k == r.state_stack
           b == Reverse(k)
           all == s \o b
<1>1. s \in Seq(StateRecords) /\ k \in Seq(StateRecords)
  BY RecorderParts DEF Sound
<1>2. /\ Len(s) \in Nat /\ DOMAIN s = 1 .. Len(s)
      /\ Len(k) \in Nat /\ DOMAIN k = 1 .. Len(k) /\ \A i \in 1 .. Len(k) : k[i] \in StateRecords
  BY <1>1, ListFacts
<1>3. NothingLost(r)
  <2>1. s \o k \in Seq(StateRecords) /\ Len(s \o k) = Len(s) + Len(k)
    BY <1>1, JoinFacts
  <2>2. IdsIn(s \o k) = IdsIn(s) \cup IdsIn(k)
    BY <1>1, IdsJoin
  <2>3. /\ Len(s \o k) = r.num_states
        /\ IdsIn(s \o k) = {i % Ids : i \in 1 .. r.num_states}
        /\ EventsOf(r) = [i \in 1 .. r.num_events |-> [event |-> i % Ids]]
    BY <2>1, <2>2 DEF Sound, EventsUpTo
  <2> QED
    BY <2>3 DEF NothingLost, IdsIn
<1>4. ASSUME r.num_states < Ids PROVE ParentsEnclose(r)
  <2>1. Chain(k) /\ Enclosed(s, k)
    BY <1>4 DEF Sound
  <2>2. b = [i \in 1 .. Len(k) |-> k[(Len(k) - i) + 1]]
    BY DEF Reverse
  <2> HIDE DEF k, s
  <2>3. b \in Seq(StateRecords) /\ Len(b) = Len(k)
    <3>1. \A i \in 1 .. Len(k) : k[(Len(k) - i) + 1] \in StateRecords
      BY <1>2
    <3> QED
      BY <1>2, <2>2, <3>1
  <2>4. \A i \in 1 .. Len(k) : b[i] = k[(Len(k) - i) + 1]
    BY <2>2
  <2> HIDE DEF b
  <2>5. /\ Len(all) = Len(s) + Len(k) /\ DOMAIN all = 1 .. Len(s) + Len(k)
        /\ \A i \in 1 .. Len(s) : all[i] = s[i]
        /\ \A i \in 1 .. Len(k) : all[Len(s) + i] = b[i]
    <3>1. /\ all \in Seq(StateRecords) /\ Len(all) = Len(s) + Len(b)
          /\ \A i \in 1 .. Len(s) : all[i] = s[i]
          /\ \A i \in 1 .. Len(b) : all[Len(s) + i] = b[i]
      <4>1. s \in Seq(StateRecords) /\ b \in Seq(StateRecords)
        BY <1>1, <2>3
      <4> QED
        BY <4>1, JoinFacts
    <3>2. DOMAIN all = 1 .. Len(all)
      BY <3>1
    <3> QED
      BY <2>3, <3>1, <3>2
  <2>6. ParentsEnclose(r) <=> \A i \in DOMAIN all : all[i].parent_id # 0 =>
                                  \E j \in i + 1 .. Len(all) : IsParent(all[j], all[i])
    BY DEF ParentsEnclose, IsParent, s, b, k
  <2> HIDE DEF all
  \* A state of the stack, at its place among all.
  <2>7. \A m \in 1 .. Len(k) : LET i == Len(s) + ((Len(k) - m) + 1)
                                IN  i \in 1 .. Len(s) + Len(k) /\ i > Len(s) /\ all[i] = k[m]
    <3>1. SUFFICES ASSUME NEW m \in 1 .. Len(k)
                   PROVE  LET i == Len(s) + ((Len(k) - m) + 1)
                          IN  i \in 1 .. Len(s) + Len(k) /\ i > Len(s) /\ all[i] = k[m]
      OBVIOUS
    <3>2. /\ (Len(k) - m) + 1 \in 1 .. Len(k)
          /\ (Len(k) - ((Len(k) - m) + 1)) + 1 = m
      BY <1>2
    <3>3. all[Len(s) + ((Len(k) - m) + 1)] = k[m]
      BY <2>4, <2>5, <3>2
    <3> QED
      BY <1>2, <3>2, <3>3
  <2>8. ASSUME NEW i \in 1 .. Len(s) + Len(k), all[i].parent_id # 0
        PROVE  \E j \in i + 1 .. Len(s) + Len(k) : IsParent(all[j], all[i])
    <3>1. CASE i \in 1 .. Len(s)
      <4>1. all[i] = s[i]
        BY <2>5, <3>1
      <4>2. CASE \E j \in i + 1 .. Len(s) : IsParent(s[j], s[i])
        <5>1. PICK j \in i + 1 .. Len(s) : IsParent(s[j], s[i])
          BY <4>2
        <5>2. j \in i + 1 .. Len(s) + Len(k) /\ j \in 1 .. Len(s)
          BY <1>2, <3>1
        <5> QED
          BY <2>5, <4>1, <5>1, <5>2
      <4>3. CASE \E m \in 1 .. Len(k) : IsParent(k[m], s[i])
        <5>1. PICK m \in 1 .. Len(k) : IsParent(k[m], s[i])
          BY <4>3
        <5>2. PICK j \in 1 .. Len(s) + Len(k) : j > Len(s) /\ all[j] = k[m]
          BY <2>7
        <5>3. j \in i + 1 .. Len(s) + Len(k)
          BY <1>2, <3>1, <5>2
        <5> QED
          BY <4>1, <5>1, <5>2, <5>3
      <4> QED
        BY <2>1, <2>8, <3>1, <4>1, <4>2, <4>3 DEF Enclosed
    <3>2. CASE ~(i \in 1 .. Len(s))
      <4> DEFINE m == Len(k) + Len(s) + 1 - i
      <4>1. m \in 1 .. Len(k) /\ Len(s) + ((Len(k) - m) + 1) = i
        BY <1>2, <3>2
      <4>2. all[i] = k[m]
        BY <2>7, <4>1
      <4>3. m # 1 /\ IsParent(k[m - 1], k[m])
        BY <2>1, <2>8, <4>1, <4>2 DEF Chain, IsParent
      <4>4. m - 1 \in 1 .. Len(k) /\ Len(s) + ((Len(k) - (m - 1)) + 1) = i + 1
        BY <1>2, <4>1, <4>3
      <4>5. i + 1 \in 1 .. Len(s) + Len(k) /\ all[i + 1] = k[m - 1]
        BY <2>7, <4>4
      <4>6. i + 1 \in i + 1 .. Len(s) + Len(k)
        BY <1>2, <4>5
      <4> QED
        BY <4>2, <4>3, <4>5, <4>6
    <3> QED
      BY <3>1, <3>2
  <2> QED
    BY <2>5, <2>6, <2>8
<1> QED
  BY <1>3, <1>4
-----------------------------------------------------------------------------
(* The states of the specification *)

CallSteps == {"none", "count_state", "count_event", "check_state", "check_event", "dump"}
DumpSteps == {"none", "states", "events", "rewind_events", "rewind_states"}
Calling == Names \cup {"event", "end"}
TaskLabels == {"user", "create", "created", "wait", "popped", "executed"}

TypesInv ==
    /\ setup \in [main : BOOLEAN, idle_task : BOOLEAN]
    /\ recorder \in Recorders
    /\ todo \in Seq(Calling)
    /\ call \in [step : CallSteps, head : Slots]
    /\ dump \in [Dumpers -> [step : DumpSteps, i : Slots]]
    /\ phase \in {"alive", "dying", "dump", "dumped", "freed"}
    /\ recorder.freed <=> phase = "freed"
    /\ dump["mir_destroy"].step # "none" <=> phase = "dump"
    /\ dump["worker"].step # "none" <=> call.step = "dump"
    /\ call.step \in {"count_state", "check_state"} => todo # <<>> /\ Head(todo) = "end"
    /\ call.step \in {"count_event", "check_event"} => todo # <<>> /\ Head(todo) = "event"
    /\ call.step = "dump" => todo # <<>> /\ Head(todo) \in {"end", "event"}

\* Only a call that has just counted can have filled a buffer.
HeadsInv == ~recorder.freed =>
    /\ call.step \notin {"check_state", "dump"} => recorder.state_buffer_head + 2 <= BufferMax
    /\ call.step \notin {"check_event", "dump"} => recorder.event_buffer_head + 2 <= BufferMax
    /\ dump["worker"].step = "rewind_states" => recorder.event_buffer_head + 2 <= BufferMax
    /\ call.step \in {"count_state", "count_event"} => call.head + 2 <= BufferMax

\* Where the contexts stand that a worker can have, given the setup.
AllLabels == TaskLabels \cup {"loop", "dead", "destroy"}
BaseLabels(s) == IF s.main THEN TaskLabels \cup {"destroy"} ELSE {"loop", "popped", "executed", "dead"}
Placed(s, ctx) ==
    /\ ctx \in Seq([at : AllLabels, depth : Nat]) /\ Len(ctx) # 0
    /\ ctx[1].at \in BaseLabels(s)
    /\ \A i \in 2 .. Len(ctx) : ctx[i].at \in TaskLabels
    /\ \A i \in 1 .. Len(ctx) - 1 : ctx[i].at \in {"executed", "created"}

\* The names of the states that are open, and how many were begun.
Views == [open : Seq(StateNames), num : Nat]

\* What a call that is still to come makes of them.
Does(op, v, u) ==
    IF op = "end" THEN v.open # <<>> /\ u.open = Front(v.open) /\ u.num = v.num
    ELSE IF op = "event" THEN u = v
    ELSE u.open = Append(v.open, op) /\ u.num = v.num + 1
Leads(calls, v, u) ==
    \E path \in [0 .. Len(calls) -> Views] :
        /\ path[0] = v /\ path[Len(calls)] = u
        /\ \A j \in 1 .. Len(calls) : Does(calls[j], path[j - 1], path[j])

\* What a context has on the stack: Opened, of any setup and label.
Idle(s) == IF s.idle_task THEN <<"TIMPLICIT">> ELSE <<>>
Own(s, i) == IF i > 1 THEN <<"TEXEC">> ELSE IF s.main THEN Idle(s) ELSE <<"TIDLE">> \o Idle(s)
OpenedAt(s, i, at) ==
    IF at \in {"dead", "destroy"} THEN <<>>
    ELSE IF at \in {"create", "created"} THEN Append(Own(s, i), "TCREATE")
    ELSE IF at = "wait" \/ (at \in {"popped", "executed"} /\ (i > 1 \/ s.main))
         THEN Append(Own(s, i), "TSYNC")
    ELSE Own(s, i)
NamesAbove(stack, d) == [j \in 1 .. Len(stack) - d |-> stack[d + j].name]
View(ctx, stack, num) == [open |-> NamesAbove(stack, ctx[Len(ctx)].depth), num |-> num]

\* The contexts below the last have on the stack what they have opened.
Below(s, ctx, stack) ==
    /\ ctx[1].depth = 0 /\ Len(stack) >= ctx[Len(ctx)].depth
    /\ \A i \in 1 .. Len(ctx) : ctx[i].depth <= 2 * (i - 1)
    /\ \A i \in 1 .. Len(ctx) : \A j \in 1 .. i : ctx[j].depth <= ctx[i].depth
    /\ \A i \in 1 .. Len(ctx) - 1 :
            /\ ctx[i + 1].depth = ctx[i].depth + Len(OpenedAt(s, i, ctx[i].at))
            /\ \A j \in 1 .. Len(OpenedAt(s, i, ctx[i].at)) :
                    stack[ctx[i].depth + j].name = OpenedAt(s, i, ctx[i].at)[j]

\* The last will have, when what is still to come has been called; one who has a
\* task in hand will begin a state for it.
InHand(at) == IF at = "popped" THEN 1 ELSE 0
Ends(s, ctx, z) ==
    /\ z.open = OpenedAt(s, Len(ctx), ctx[Len(ctx)].at)
    /\ z.num + InHand(ctx[Len(ctx)].at) <= MaxStates + 2
Nested(s, ctx, stack, num, calls) ==
    /\ Placed(s, ctx) /\ Below(s, ctx, stack)
    /\ \E z \in Views : Leads(calls, View(ctx, stack, num), z) /\ Ends(s, ctx, z)

\* The call under way has done what it does to the stack.
Left == IF call.step = "none" THEN todo ELSE Tail(todo)
NestInv ==
    /\ Placed(setup, contexts)
    /\ ~recorder.freed =>
        /\ Nested(setup, contexts, recorder.state_stack, recorder.num_states, Left)
        /\ recorder.state_stack # <<>> => recorder.this_state = Last(recorder.state_stack).name
-----------------------------------------------------------------------------
(* Calls still to come *)

LEMMA ViewsEqual == \A v, u \in Views : v.open = u.open /\ v.num = u.num => v = u
BY DEF Views

LEMMA LeadsNone ==
    ASSUME NEW v \in Views
    PROVE  Leads(<<>>, v, v) /\ \A u : Leads(<<>>, v, u) => u = v
<1>1. Len(<<>>) = 0
  OBVIOUS
<1>2. Leads(<<>>, v, v)
  <2> DEFINE path == [j \in 0 .. 0 |-> v]
  <2>1. path \in [0 .. 0 -> Views] /\ path[0] = v
    OBVIOUS
  <2> HIDE DEF path
  <2> QED
    BY <1>1, <2>1 DEF Leads
<1> QED
  BY <1>1, <1>2 DEF Leads

LEMMA LeadsOne ==
    ASSUME NEW v \in Views, NEW u \in Views, NEW op, Does(op, v, u)
    PROVE  Leads(<<op>>, v, u)
<1> DEFINE path == [j \in 0 .. 1 |-> IF j = 0 THEN v ELSE u]
<1>1. path \in [0 .. 1 -> Views] /\ path[0] = v /\ path[1] = u
  OBVIOUS
<1>2. Len(<<op>>) = 1 /\ <<op>>[1] = op
  OBVIOUS
<1> HIDE DEF path
<1>3. \A j \in 1 .. 1 : Does(<<op>>[j], path[j - 1], path[j])
  BY <1>1, <1>2
<1> QED
  BY <1>1, <1>2, <1>3 DEF Leads

LEMMA LeadsOn ==
    ASSUME NEW v \in Views, NEW u \in Views, NEW z \in Views,
           NEW a \in Seq(Calling), NEW b \in Seq(Calling), Leads(a, v, u), Leads(b, u, z)
    PROVE  Leads(a \o b, v, z)
<1> DEFINE c == a \o b
           m == Len(a)
           n == Len(b)
<1>1. m \in Nat /\ n \in Nat /\ c \in Seq(Calling) /\ Len(c) = m + n
      /\ (\A i \in 1 .. m : c[i] = a[i]) /\ (\A i \in 1 .. n : c[m + i] = b[i])
  BY JoinFacts, ListFacts
<1>2. PICK p \in [0 .. m -> Views] :
        p[0] = v /\ p[m] = u /\ \A j \in 1 .. m : Does(a[j], p[j - 1], p[j])
  BY DEF Leads
<1>3. PICK q \in [0 .. n -> Views] :
        q[0] = u /\ q[n] = z /\ \A j \in 1 .. n : Does(b[j], q[j - 1], q[j])
  BY DEF Leads
<1> HIDE DEF c, m, n
<1> DEFINE path == [j \in 0 .. m + n |-> IF j <= m THEN p[j] ELSE q[j - m]]
<1>4. path \in [0 .. m + n -> Views]
  <2>1. \A j \in 0 .. m + n : (j <= m => j \in 0 .. m) /\ (~(j <= m) => j - m \in 0 .. n)
    BY <1>1
  <2> QED
    BY <1>2, <1>3, <2>1
<1>5. (\A j \in 0 .. m : path[j] = p[j]) /\ (\A j \in 0 .. n : path[m + j] = q[j])
  <2>1. \A j \in 0 .. m : path[j] = p[j]
    BY <1>1
  <2>2. \A j \in 1 .. n : path[m + j] = q[j]
    BY <1>1
  <2>3. path[m + 0] = q[0]
    BY <1>1, <1>2, <1>3, <2>1
  <2> QED
    BY <1>1, <2>1, <2>2, <2>3
<1> HIDE DEF path
<1>6. path[0] = v /\ path[m + n] = z
  BY <1>1, <1>2, <1>3, <1>5
<1>7. ASSUME NEW j \in 1 .. m + n PROVE Does(c[j], path[j - 1], path[j])
  <2>1. CASE j \in 1 .. m
    <3>0. j \in 0 .. m /\ j - 1 \in 0 .. m
      BY <1>1, <2>1
    <3>1. c[j] = a[j] /\ path[j] = p[j] /\ path[j - 1] = p[j - 1]
      BY <1>1, <1>5, <2>1, <3>0
    <3> QED
      BY <1>2, <2>1, <3>1
  <2>2. CASE j \notin 1 .. m
    <3>1. PICK i \in 1 .. n : j = m + i /\ j - 1 = m + (i - 1) /\ i - 1 \in 0 .. n
      <4>1. j - m \in 1 .. n /\ j = m + (j - m) /\ j - 1 = m + ((j - m) - 1) /\ (j - m) - 1 \in 0 .. n
        BY <1>1, <2>2
      <4> QED
        BY <4>1
    <3>2. c[j] = b[i] /\ path[j] = q[i] /\ path[j - 1] = q[i - 1]
      BY <1>1, <1>5, <3>1
    <3> QED
      BY <1>3, <3>1, <3>2
  <2> QED
    BY <2>1, <2>2
<1> QED
  BY <1>1, <1>4, <1>6, <1>7 DEF Leads, c

LEMMA LeadsNext ==
    ASSUME NEW v \in Views, NEW u \in Views, NEW z \in Views, NEW c \in Seq(Calling), c # <<>>,
           Does(Head(c), v, u), Leads(c, v, z)
    PROVE  Leads(Tail(c), u, z)
<1> DEFINE n == Len(c)
<1>1. n \in Nat \ {0} /\ Head(c) = c[1] /\ Tail(c) \in Seq(Calling) /\ Len(Tail(c)) = n - 1
      /\ \A i \in 1 .. n - 1 : Tail(c)[i] = c[i + 1]
  BY HeadTailProperties, ListFacts
<1>2. PICK p \in [0 .. n -> Views] :
        p[0] = v /\ p[n] = z /\ \A j \in 1 .. n : Does(c[j], p[j - 1], p[j])
  BY DEF Leads
<1> HIDE DEF n
<1>3. p[1] = u
  <2>1. Does(c[1], p[1 - 1], p[1]) /\ 1 - 1 = 0 /\ p[1] \in Views
    BY <1>1, <1>2
  <2>2. Does(c[1], v, p[1])
    BY <1>2, <2>1
  <2>3. p[1].open = u.open /\ p[1].num = u.num
    BY <1>1, <2>2 DEF Does
  <2> QED
    BY <2>1, <2>3, ViewsEqual
<1> DEFINE path == [j \in 0 .. n - 1 |-> p[j + 1]]
<1>4. path \in [0 .. n - 1 -> Views] /\ (\A j \in 0 .. n - 1 : path[j] = p[j + 1])
  BY <1>1, <1>2
<1> HIDE DEF path
<1>5. path[0] = u /\ path[n - 1] = z
  BY <1>1, <1>2, <1>3, <1>4
<1>6. ASSUME NEW j \in 1 .. n - 1 PROVE Does(Tail(c)[j], path[j - 1], path[j])
  <2>1. Tail(c)[j] = c[j + 1] /\ path[j] = p[j + 1] /\ path[j - 1] = p[j] /\ j + 1 \in 1 .. n
    BY <1>1, <1>4
  <2>2. Does(c[j + 1], p[(j + 1) - 1], p[j + 1]) /\ (j + 1) - 1 = j
    BY <1>2, <2>1
  <2> QED
    BY <2>1, <2>2
<1> QED
  BY <1>1, <1>4, <1>5, <1>6 DEF Leads
-----------------------------------------------------------------------------
(* Contexts and the stack *)

Setups == [main : BOOLEAN, idle_task : BOOLEAN]

LEMMA PlacedParts ==
    ASSUME NEW s \in Setups, NEW ctx, Placed(s, ctx)
    PROVE  /\ Len(ctx) \in Nat \ {0} /\ DOMAIN ctx = 1 .. Len(ctx)
           /\ \A i \in 1 .. Len(ctx) : ctx[i].at \in AllLabels /\ ctx[i].depth \in Nat
           /\ Len(ctx) \in 1 .. Len(ctx) /\ 1 \in 1 .. Len(ctx) /\ Last(ctx) = ctx[Len(ctx)]
<1>1. /\ Len(ctx) \in Nat /\ DOMAIN ctx = 1 .. Len(ctx)
      /\ \A i \in 1 .. Len(ctx) : ctx[i] \in [at : AllLabels, depth : Nat]
      /\ Len(ctx) # 0
  BY ListFacts DEF Placed
<1>2. Last(ctx) = ctx[Len(ctx)]
  BY <1>1 DEF Last
<1> QED
  BY <1>1, <1>2

LEMMA OpenedFacts ==
    ASSUME NEW s \in Setups, NEW i \in Nat \ {0}, NEW at \in AllLabels
    PROVE  /\ OpenedAt(s, i, at) \in Seq(StateNames) /\ Own(s, i) \in Seq(Names)
           /\ i > 1 => Len(Own(s, i)) = 1
           /\ i = 1 => Len(Own(s, i)) <= IF s.main THEN 1 ELSE 2
<1>1. /\ <<"TEXEC">> \in Seq(Names) /\ <<"TIDLE">> \in Seq(Names) /\ Idle(s) \in Seq(Names)
      /\ Len(<<"TEXEC">>) = 1 /\ Len(<<"TIDLE">>) = 1 /\ Len(Idle(s)) <= 1
  <2>1. \A n \in Names : <<n>> \in Seq(Names) /\ Len(<<n>>) = 1
    OBVIOUS
  <2>2. {"TEXEC", "TIDLE", "TIMPLICIT"} \subseteq Names
    BY DEF Names
  <2>3. <<>> \in Seq(Names) /\ Len(<<>>) = 0
    OBVIOUS
  <2> QED
    BY <2>1, <2>2, <2>3 DEF Idle
<1>2. <<"TIDLE">> \o Idle(s) \in Seq(Names) /\ Len(<<"TIDLE">> \o Idle(s)) <= 2
  BY <1>1, JoinFacts
<1>3. /\ Own(s, i) \in Seq(Names) /\ (i > 1 => Len(Own(s, i)) = 1)
      /\ i = 1 => Len(Own(s, i)) <= IF s.main THEN 1 ELSE 2
  BY <1>1, <1>2 DEF Own
<1>4. /\ Append(Own(s, i), "TCREATE") \in Seq(Names) /\ Append(Own(s, i), "TSYNC") \in Seq(Names)
      /\ <<>> \in Seq(Names)
  BY <1>3, AppendFacts DEF Names
<1>5. OpenedAt(s, i, at) \in Seq(Names)
  BY <1>3, <1>4 DEF OpenedAt
<1>6. OpenedAt(s, i, at) \in Seq(StateNames)
  BY <1>5 DEF StateNames
<1> QED
  BY <1>3, <1>6

\* No context has more than two states on the stack.
LEMMA OpenedIsShort ==
    ASSUME NEW s \in Setups, NEW i \in Nat \ {0}, NEW at \in AllLabels,
           i = 1 => at \in BaseLabels(s)
    PROVE  Len(OpenedAt(s, i, at)) <= 2
<1>1. /\ Own(s, i) \in Seq(Names) /\ Len(Own(s, i)) \in Nat
      /\ i > 1 => Len(Own(s, i)) = 1
      /\ i = 1 => Len(Own(s, i)) <= IF s.main THEN 1 ELSE 2
  BY OpenedFacts, ListFacts
<1>2. /\ Len(Append(Own(s, i), "TCREATE")) = Len(Own(s, i)) + 1
      /\ Len(Append(Own(s, i), "TSYNC")) = Len(Own(s, i)) + 1
  BY <1>1, AppendFacts DEF Names
<1>3. Len(<<>>) = 0 /\ Len(Own(s, i)) <= 2
  BY <1>1
<1>4. ASSUME i > 1 \/ s.main PROVE Len(Own(s, i)) + 1 <= 2
  <2>1. i > 1 => Len(Own(s, i)) = 1
    BY OpenedFacts
  <2>2. i = 1 /\ s.main => Len(Own(s, i)) <= 1
    BY OpenedFacts
  <2>3. PICK n \in Nat : n = Len(Own(s, i))
    BY <1>1
  <2>4. n <= 1
    BY <1>4, <2>1, <2>2, <2>3
  <2> QED
    BY <2>3, <2>4
<1>5. CASE i > 1 \/ s.main
  BY <1>2, <1>3, <1>4, <1>5 DEF OpenedAt
<1>6. CASE ~(i > 1 \/ s.main)
  BY <1>3, <1>6 DEF OpenedAt, BaseLabels
<1> QED
  BY <1>5, <1>6

\* What is on the stack above a depth, when the stack grows and shrinks.
LEMMA AboveFacts ==
    ASSUME NEW k \in Seq(StateRecords), NEW d \in Nat, d <= Len(k)
    PROVE  /\ NamesAbove(k, d) \in Seq(StateNames) /\ Len(NamesAbove(k, d)) = Len(k) - d
           /\ \A j \in 1 .. Len(k) - d : NamesAbove(k, d)[j] = k[d + j].name
           /\ Len(k) = d => NamesAbove(k, d) = <<>>
<1>1. Len(k) \in Nat /\ \A i \in 1 .. Len(k) : k[i] \in StateRecords
  BY ListFacts
<1>2. \A j \in 1 .. Len(k) - d : k[d + j].name \in StateNames
  <2>1. \A j \in 1 .. Len(k) - d : d + j \in 1 .. Len(k)
    BY <1>1
  <2> QED
    BY <1>1, <2>1 DEF StateRecords
<1>3. Len(k) - d \in Nat
  BY <1>1
<1>4. NamesAbove(k, d) = [j \in 1 .. Len(k) - d |-> k[d + j].name]
  BY DEF NamesAbove
<1>5. NamesAbove(k, d) \in Seq(StateNames) /\ Len(NamesAbove(k, d)) = Len(k) - d
  BY <1>2, <1>3, <1>4
<1>6. Len(k) = d => NamesAbove(k, d) = <<>>
  BY <1>3, <1>5, ListFacts
<1> QED
  BY <1>4, <1>5, <1>6

LEMMA AboveAppend ==
    ASSUME NEW k \in Seq(StateRecords), NEW d \in Nat, d <= Len(k), NEW x \in StateRecords
    PROVE  NamesAbove(Append(k, x), d) = Append(NamesAbove(k, d), x.name)
<1> DEFINE K == Append(k, x)
           a == NamesAbove(k, d)
           A == NamesAbove(K, d)
<1>1. /\ Len(k) \in Nat /\ K \in Seq(StateRecords) /\ Len(K) = Len(k) + 1 /\ K[Len(k) + 1] = x
      /\ \A i \in 1 .. Len(k) : K[i] = k[i]
  BY AppendFacts, ListFacts
<1>2. /\ a \in Seq(StateNames) /\ Len(a) = Len(k) - d
      /\ \A j \in 1 .. Len(k) - d : a[j] = k[d + j].name
  BY AboveFacts
<1>3. /\ A \in Seq(StateNames) /\ Len(A) = Len(K) - d
      /\ \A j \in 1 .. Len(K) - d : A[j] = K[d + j].name
  <2>1. d <= Len(K)
    BY <1>1
  <2> QED
    BY <1>1, <2>1, AboveFacts
<1> HIDE DEF K, a, A
<1>4. /\ Append(a, x.name) \in Seq(StateNames) /\ Len(Append(a, x.name)) = (Len(k) - d) + 1
      /\ Append(a, x.name)[(Len(k) - d) + 1] = x.name
      /\ \A j \in 1 .. Len(k) - d : Append(a, x.name)[j] = a[j]
  <2>1. x.name \in StateNames
    BY DEF StateRecords
  <2> QED
    BY <1>2, <2>1, AppendFacts
<1>5. Len(A) = (Len(k) - d) + 1
  BY <1>1, <1>3
<1>6. ASSUME NEW j \in 1 .. (Len(k) - d) + 1 PROVE A[j] = Append(a, x.name)[j]
  <2>1. A[j] = K[d + j].name
    BY <1>1, <1>3
  <2>2. CASE j = (Len(k) - d) + 1
    <3>1. d + j = Len(k) + 1
      BY <1>1, <2>2
    <3>2. A[j] = x.name
      BY <1>1, <2>1, <3>1
    <3> QED
      BY <1>4, <2>2, <3>2
  <2>3. CASE j \in 1 .. Len(k) - d
    <3>1. d + j \in 1 .. Len(k)
      BY <1>1, <2>3
    <3>2. A[j] = k[d + j].name
      BY <1>1, <2>1, <3>1
    <3> QED
      BY <1>2, <1>4, <2>3, <3>2
  <2>4. \A n \in Nat : j \in 1 .. n + 1 => j = n + 1 \/ j \in 1 .. n
    OBVIOUS
  <2>5. Len(k) - d \in Nat
    BY <1>1
  <2> QED
    BY <2>2, <2>3, <2>4, <2>5
<1> QED
  BY <1>3, <1>4, <1>5, <1>6, SeqEqual DEF A, K, a

LEMMA AboveFront ==
    ASSUME NEW k \in Seq(StateRecords), NEW d \in Nat, d < Len(k)
    PROVE  NamesAbove(Front(k), d) = Front(NamesAbove(k, d)) /\ NamesAbove(k, d) # <<>>
<1>1. /\ Front(k) \in Seq(StateRecords) /\ Last(k) \in StateRecords /\ Len(Front(k)) = Len(k) - 1
      /\ Len(k) \in Nat /\ k = Append(Front(k), Last(k)) /\ Last(k).name \in StateNames
  <2>1. k # <<>> /\ Len(k) \in Nat
    BY ListFacts
  <2>2. /\ Front(k) \in Seq(StateRecords) /\ Last(k) \in StateRecords /\ Len(Front(k)) = Len(k) - 1
        /\ \A i \in 1 .. Len(k) - 1 : Front(k)[i] = k[i]
        /\ Last(k) = k[Len(k)]
    BY <2>1, FrontFacts
  <2>3. /\ Append(Front(k), Last(k)) \in Seq(StateRecords)
        /\ Len(Append(Front(k), Last(k))) = Len(k)
        /\ Append(Front(k), Last(k))[Len(k)] = Last(k)
        /\ \A i \in 1 .. Len(k) - 1 : Append(Front(k), Last(k))[i] = Front(k)[i]
    <3>1. (Len(k) - 1) + 1 = Len(k)
      BY <2>1
    <3> QED
      BY <2>2, <3>1, AppendFacts
  <2>4. \A i \in 1 .. Len(k) : Append(Front(k), Last(k))[i] = k[i]
    BY <2>1, <2>2, <2>3
  <2>5. k = Append(Front(k), Last(k))
    BY <2>3, <2>4, SeqEqual
  <2> QED
    BY <2>1, <2>2, <2>5 DEF StateRecords
<1> DEFINE f == Front(k)
           x == Last(k)
           a == NamesAbove(f, d)
<1>2. a \in Seq(StateNames) /\ d <= Len(f)
  <2>1. d <= Len(f)
    BY <1>1
  <2> QED
    BY <1>1, <2>1, AboveFacts
<1>3. NamesAbove(k, d) = Append(a, x.name)
  <2>1. NamesAbove(Append(f, x), d) = Append(NamesAbove(f, d), x.name)
    <3> HIDE DEF f, x
    <3>1. f \in Seq(StateRecords) /\ x \in StateRecords
      BY <1>1 DEF f, x
    <3> QED
      BY <1>2, <3>1, AboveAppend
  <2> QED
    BY <1>1, <2>1
<1> HIDE DEF f, x, a
<1>y. x.name \in StateNames
  BY <1>1 DEF x
<1>4. Front(Append(a, x.name)) = a /\ Append(a, x.name) # <<>>
  <2>1. x.name \in StateNames
    BY <1>1 DEF x
  <2>2. /\ Append(a, x.name) \in Seq(StateNames) /\ Append(a, x.name) # <<>>
        /\ Len(Append(a, x.name)) = Len(a) + 1 /\ Len(a) \in Nat
        /\ \A i \in 1 .. Len(a) : Append(a, x.name)[i] = a[i]
    BY <1>2, <2>1, AppendFacts, ListFacts
  <2> DEFINE b == Append(a, x.name)
  <2> HIDE DEF b
  <2>3. /\ Front(b) \in Seq(StateNames) /\ Len(Front(b)) = Len(b) - 1
        /\ \A i \in 1 .. Len(b) - 1 : Front(b)[i] = b[i]
    BY <2>2, FrontFacts DEF b
  <2>4. Len(b) - 1 = Len(a)
    BY <2>2 DEF b
  <2>5. Front(b) = a
    BY <1>2, <2>2, <2>3, <2>4, SeqEqual DEF b
  <2> QED
    BY <2>2, <2>5 DEF b
<1> QED
  BY <1>3, <1>4 DEF a, f
-----------------------------------------------------------------------------
(* Nesting, one step at a time *)

\* The depth at which the last context begins.
LEMMA NestedParts ==
    ASSUME NEW s \in Setups, NEW ctx, NEW k \in Seq(StateRecords), NEW n \in Nat,
           Placed(s, ctx), Below(s, ctx, k)
    PROVE  /\ ctx[Len(ctx)].depth \in Nat /\ ctx[Len(ctx)].depth <= Len(k)
           /\ View(ctx, k, n) \in Views
           /\ View(ctx, k, n).open = NamesAbove(k, ctx[Len(ctx)].depth)
           /\ View(ctx, k, n).num = n
<1>1. ctx[Len(ctx)].depth \in Nat /\ ctx[Len(ctx)].depth <= Len(k)
  <2>1. Len(k) >= ctx[Len(ctx)].depth /\ Len(k) \in Nat
    BY ListFacts DEF Below
  <2> QED
    BY <2>1, PlacedParts
<1>2. NamesAbove(k, ctx[Len(ctx)].depth) \in Seq(StateNames)
  BY <1>1, AboveFacts
<1> QED
  BY <1>1, <1>2 DEF View, Views

\* Nothing changes for the contexts below when the stack changes above them.
LEMMA BelowStays ==
    ASSUME NEW s \in Setups, NEW ctx, NEW k \in Seq(StateRecords), NEW t \in Seq(StateRecords),
           Placed(s, ctx), Below(s, ctx, k), Len(t) >= ctx[Len(ctx)].depth,
           \A j \in 1 .. ctx[Len(ctx)].depth : t[j] = k[j]
    PROVE  Below(s, ctx, t)
<1> DEFINE L == Len(ctx)
           d == ctx[L].depth
<1>1. /\ L \in Nat \ {0} /\ L \in 1 .. L
      /\ \A i \in 1 .. L : ctx[i].at \in AllLabels /\ ctx[i].depth \in Nat
  BY PlacedParts
<1>2. /\ ctx[1].depth = 0
      /\ \A i \in 1 .. L : ctx[i].depth <= 2 * (i - 1)
      /\ \A i \in 1 .. L : \A j \in 1 .. i : ctx[j].depth <= ctx[i].depth
      /\ \A i \in 1 .. L - 1 :
            /\ ctx[i + 1].depth = ctx[i].depth + Len(OpenedAt(s, i, ctx[i].at))
            /\ \A j \in 1 .. Len(OpenedAt(s, i, ctx[i].at)) :
                    k[ctx[i].depth + j].name = OpenedAt(s, i, ctx[i].at)[j]
  BY DEF Below
<1>3. ASSUME NEW i \in 1 .. L - 1, NEW j \in 1 .. Len(OpenedAt(s, i, ctx[i].at))
      PROVE  t[ctx[i].depth + j] = k[ctx[i].depth + j]
  <2>1. i \in 1 .. L /\ i + 1 \in 1 .. L /\ i \in Nat \ {0}
    BY <1>1
  <2>2. OpenedAt(s, i, ctx[i].at) \in Seq(StateNames)
    BY <1>1, <2>1, OpenedFacts
  <2>3. PICK m \in Nat : m = Len(OpenedAt(s, i, ctx[i].at))
    BY <2>2, ListFacts
  <2>6. ctx[i + 1].depth <= d
    BY <1>1, <1>2, <2>1
  <2>4. ctx[i + 1].depth = ctx[i].depth + m /\ ctx[i + 1].depth <= d /\ ctx[i].depth \in Nat /\ d \in Nat
    BY <1>1, <1>2, <2>1, <2>3, <2>6
  <2>5. ctx[i].depth + j \in 1 .. d
    BY <2>3, <2>4
  <2> QED
    BY <2>5
<1> QED
  BY <1>2, <1>3 DEF Below

\* A call that comes to its turn.
LEMMA NestedCall ==
    ASSUME NEW s \in Setups, NEW ctx, NEW k \in Seq(StateRecords), NEW t \in Seq(StateRecords),
           NEW n \in Nat, NEW m \in Nat, NEW c \in Seq(Calling), c # <<>>,
           Nested(s, ctx, k, n, c), Len(t) >= ctx[Len(ctx)].depth,
           \A j \in 1 .. ctx[Len(ctx)].depth : t[j] = k[j],
           Does(Head(c), View(ctx, k, n), View(ctx, t, m))
    PROVE  Nested(s, ctx, t, m, Tail(c))
<1>1. Placed(s, ctx) /\ Below(s, ctx, k) /\ Below(s, ctx, t)
  BY BelowStays DEF Nested
<1>2. View(ctx, k, n) \in Views /\ View(ctx, t, m) \in Views
  BY <1>1, NestedParts
<1>3. PICK z \in Views : Leads(c, View(ctx, k, n), z) /\ Ends(s, ctx, z)
  BY DEF Nested
<1>4. Leads(Tail(c), View(ctx, t, m), z)
  BY <1>2, <1>3, LeadsNext
<1> QED
  BY <1>1, <1>3, <1>4 DEF Nested

LEMMA NestedEvent ==
    ASSUME NEW s \in Setups, NEW ctx, NEW k \in Seq(StateRecords), NEW n \in Nat,
           NEW c \in Seq(Calling), c # <<>>, Nested(s, ctx, k, n, c), Head(c) = "event"
    PROVE  Nested(s, ctx, k, n, Tail(c))
<1>1. Does(Head(c), View(ctx, k, n), View(ctx, k, n))
  BY DEF Does
<1>2. Len(k) >= ctx[Len(ctx)].depth
  BY DEF Nested, Below
<1> QED
  BY <1>1, <1>2, NestedCall

LEMMA NestedBegin ==
    ASSUME NEW s \in Setups, NEW ctx, NEW k \in Seq(StateRecords), NEW n \in Nat,
           NEW c \in Seq(Calling), c # <<>>, Nested(s, ctx, k, n, c), Head(c) \in Names,
           NEW x \in StateRecords, x.name = Head(c)
    PROVE  Nested(s, ctx, Append(k, x), n + 1, Tail(c))
<1> DEFINE d == ctx[Len(ctx)].depth
<1>1. Placed(s, ctx) /\ Below(s, ctx, k)
  BY DEF Nested
<1>2. d \in Nat /\ d <= Len(k) /\ Len(k) \in Nat
  BY <1>1, NestedParts, ListFacts
<1>3. /\ Append(k, x) \in Seq(StateRecords) /\ Len(Append(k, x)) = Len(k) + 1
      /\ \A j \in 1 .. Len(k) : Append(k, x)[j] = k[j]
  BY AppendFacts
<1>4. Len(Append(k, x)) >= d /\ \A j \in 1 .. d : Append(k, x)[j] = k[j]
  <2>1. \A j \in 1 .. d : j \in 1 .. Len(k)
    BY <1>2
  <2> QED
    BY <1>2, <1>3, <2>1
<1>5. NamesAbove(Append(k, x), d) = Append(NamesAbove(k, d), x.name)
  BY <1>2, AboveAppend
<1>6. Head(c) # "end" /\ Head(c) # "event"
  BY DEF Names
<1>7. Does(Head(c), View(ctx, k, n), View(ctx, Append(k, x), n + 1))
  BY <1>5, <1>6 DEF Does, View
<1>8. PICK t \in Seq(StateRecords), m \in Nat : t = Append(k, x) /\ m = n + 1
  <2>1. n + 1 \in Nat
    OBVIOUS
  <2> QED
    BY <1>3, <2>1, Zenon
<1>9. Nested(s, ctx, t, m, Tail(c))
  BY <1>4, <1>7, <1>8, NestedCall
<1> QED
  BY <1>8, <1>9

\* An end always finds its state, of the context that ends it.
LEMMA NestedEnd ==
    ASSUME NEW s \in Setups, NEW ctx, NEW k \in Seq(StateRecords), NEW n \in Nat,
           NEW c \in Seq(Calling), c # <<>>, Nested(s, ctx, k, n, c), Head(c) = "end"
    PROVE  k # <<>> /\ Nested(s, ctx, Front(k), n, Tail(c))
<1> DEFINE d == ctx[Len(ctx)].depth
           v == View(ctx, k, n)
<1>1. Placed(s, ctx) /\ Below(s, ctx, k)
  BY DEF Nested
<1>2. d \in Nat /\ d <= Len(k) /\ Len(k) \in Nat /\ v \in Views /\ v.open = NamesAbove(k, d) /\ v.num = n
  BY <1>1, NestedParts, ListFacts
<1>3. v.open # <<>>
  <2>1. PICK z \in Views : Leads(c, v, z)
    BY DEF Nested
  <2>2. PICK p \in [0 .. Len(c) -> Views] :
            p[0] = v /\ \A j \in 1 .. Len(c) : Does(c[j], p[j - 1], p[j])
    BY <2>1 DEF Leads
  <2>3. Len(c) \in Nat \ {0} /\ c[1] = "end"
    BY ListFacts
  <2> HIDE DEF v
  <2>4. Does(c[1], p[1 - 1], p[1]) /\ 1 - 1 = 0
    BY <2>2, <2>3
  <2>5. Does("end", v, p[1])
    BY <2>2, <2>3, <2>4
  <2> QED
    BY <2>5 DEF Does
<1>4. d < Len(k)
  <2>1. Len(k) = d => NamesAbove(k, d) = <<>>
    BY <1>2, AboveFacts
  <2> QED
    BY <1>2, <1>3, <2>1
<1>5. NamesAbove(Front(k), d) = Front(NamesAbove(k, d))
  BY <1>2, <1>4, AboveFront
<1>6. /\ k # <<>> /\ Front(k) \in Seq(StateRecords) /\ Len(Front(k)) = Len(k) - 1
      /\ \A j \in 1 .. Len(k) - 1 : Front(k)[j] = k[j]
  <2>1. k # <<>>
    BY <1>2, <1>4, ListFacts
  <2> QED
    BY <2>1, FrontFacts
<1>7. Len(Front(k)) >= d /\ \A j \in 1 .. d : Front(k)[j] = k[j]
  <2>1. \A j \in 1 .. d : j \in 1 .. Len(k) - 1
    BY <1>2, <1>4
  <2> QED
    BY <1>2, <1>4, <1>6, <2>1
<1>8. Does(Head(c), v, View(ctx, Front(k), n))
  BY <1>2, <1>3, <1>5 DEF Does, View
<1> QED
  BY <1>6, <1>7, <1>8, NestedCall
LEMMA FrontAppend ==
    ASSUME NEW S, NEW a \in Seq(S), NEW x \in S
    PROVE  Front(Append(a, x)) = a /\ Append(a, x) # <<>>
<1> DEFINE b == Append(a, x)
<1>1. /\ b \in Seq(S) /\ b # <<>> /\ Len(b) = Len(a) + 1 /\ Len(a) \in Nat
      /\ \A i \in 1 .. Len(a) : b[i] = a[i]
  BY AppendFacts, ListFacts
<1> HIDE DEF b
<1>2. /\ Front(b) \in Seq(S) /\ Len(Front(b)) = Len(b) - 1
      /\ \A i \in 1 .. Len(b) - 1 : Front(b)[i] = b[i]
  BY <1>1, FrontFacts
<1>3. Len(b) - 1 = Len(a)
  BY <1>1
<1>4. Front(b) = a
  BY <1>1, <1>2, <1>3, SeqEqual
<1> QED
  BY <1>1, <1>4 DEF b

\* What calls make of a view.
Seen(o, n) == [open |-> o, num |-> n]

LEMMA SeenIs ==
    ASSUME NEW o \in Seq(StateNames), NEW n \in Nat
    PROVE  Seen(o, n) \in Views /\ Seen(o, n).open = o /\ Seen(o, n).num = n
BY DEF Seen, Views

LEMMA EventLeads ==
    ASSUME NEW v \in Views
    PROVE  Leads(<<"event">>, v, v)
<1>1. Does("event", v, v)
  BY DEF Does
<1> QED
  BY <1>1, LeadsOne

LEMMA BeginLeads ==
    ASSUME NEW o \in Seq(StateNames), NEW n \in Nat, NEW x \in Names
    PROVE  Leads(<<x>>, Seen(o, n), Seen(Append(o, x), n + 1)) /\ Seen(Append(o, x), n + 1) \in Views
<1>1. Append(o, x) \in Seq(StateNames) /\ n + 1 \in Nat
  BY AppendFacts DEF StateNames
<1>2. Seen(Append(o, x), n + 1) \in Views /\ Seen(o, n) \in Views
  BY <1>1, SeenIs
<1>3. x # "end" /\ x # "event"
  BY DEF Names
<1>4. Does(x, Seen(o, n), Seen(Append(o, x), n + 1))
  BY <1>3 DEF Does, Seen
<1> QED
  BY <1>2, <1>4, LeadsOne

LEMMA EndLeads ==
    ASSUME NEW o \in Seq(StateNames), NEW n \in Nat, NEW x \in StateNames
    PROVE  Leads(<<"end">>, Seen(Append(o, x), n), Seen(o, n)) /\ Seen(Append(o, x), n) \in Views
<1>1. Append(o, x) \in Seq(StateNames) /\ Append(o, x) # <<>> /\ Front(Append(o, x)) = o
  BY FrontAppend, AppendFacts
<1>2. Seen(Append(o, x), n) \in Views /\ Seen(o, n) \in Views
  BY <1>1, SeenIs
<1>3. Does("end", Seen(Append(o, x), n), Seen(o, n))
  BY <1>1 DEF Does, Seen
<1> QED
  BY <1>2, <1>3, LeadsOne

LEMMA CallLists ==
    /\ \A x \in Calling : <<x>> \in Seq(Calling)
    /\ Names \subseteq Calling /\ "event" \in Calling /\ "end" \in Calling
    /\ \A x, y \in Calling : <<x>> \o <<y>> = <<x, y>> /\ <<x, y>> \in Seq(Calling)
<1>1. \A S : \A x \in S : <<x>> \in Seq(S)
  OBVIOUS
<1>2. ASSUME NEW S, NEW x \in S, NEW y \in S
      PROVE  <<x>> \o <<y>> = <<x, y>> /\ <<x, y>> \in Seq(S)
  <2>1. <<x, y>> \in Seq(S) /\ Len(<<x, y>>) = 2 /\ <<x, y>>[1] = x /\ <<x, y>>[2] = y
    OBVIOUS
  <2>2. <<x>> \in Seq(S) /\ <<y>> \in Seq(S) /\ Len(<<x>>) = 1 /\ Len(<<y>>) = 1
        /\ <<x>>[1] = x /\ <<y>>[1] = y
    OBVIOUS
  <2>3. PICK a \in Seq(S), b \in Seq(S) : a = <<x>> /\ b = <<y>>
    BY <2>2, Zenon
  <2>4. /\ a \o b \in Seq(S) /\ Len(a \o b) = Len(a) + Len(b)
        /\ (\A i \in 1 .. Len(a) : (a \o b)[i] = a[i])
        /\ (\A i \in 1 .. Len(b) : (a \o b)[Len(a) + i] = b[i])
    BY JoinFacts
  <2>5. PICK c \in Seq(S) : c = a \o b
    BY <2>4
  <2>6. Len(c) = 2 /\ c[1] = x /\ c[2] = y
    <3>1. 1 \in 1 .. 1 /\ Len(a) = 1 /\ Len(b) = 1 /\ a[1] = x /\ b[1] = y
      BY <2>2, <2>3
    <3>2. c[1] = a[1] /\ c[1 + 1] = b[1] /\ Len(c) = 1 + 1
      BY <2>4, <2>5, <3>1
    <3> QED
      BY <3>1, <3>2
  <2>7. \A i \in 1 .. 2 : i = 1 \/ i = 2
    OBVIOUS
  <2>8. \A i \in 1 .. Len(c) : c[i] = <<x, y>>[i]
    BY <2>1, <2>6, <2>7
  <2>9. c = <<x, y>>
    <3> DEFINE e == <<x, y>>
    <3> HIDE DEF e
    <3>1. e \in Seq(S) /\ Len(c) = Len(e) /\ \A i \in 1 .. Len(c) : c[i] = e[i]
      BY <2>1, <2>6, <2>8 DEF e
    <3>2. c = e
      BY <3>1, SeqEqual
    <3> QED
      BY <3>2 DEF e
  <2> QED
    BY <2>1, <2>3, <2>5, <2>9
<1> QED
  BY <1>1, <1>2 DEF Calling

\* "event" and a name, "end" and "event".
LEMMA PrologLeads ==
    ASSUME NEW o \in Seq(StateNames), NEW n \in Nat, NEW x \in Names
    PROVE  Leads(Prolog(x), Seen(o, n), Seen(Append(o, x), n + 1)) /\ Prolog(x) \in Seq(Calling)
<1>1. Leads(<<"event">>, Seen(o, n), Seen(o, n)) /\ Seen(o, n) \in Views
  BY SeenIs, EventLeads
<1>2. Leads(<<x>>, Seen(o, n), Seen(Append(o, x), n + 1)) /\ Seen(Append(o, x), n + 1) \in Views
  BY BeginLeads
<1>3. /\ <<"event">> \in Seq(Calling) /\ <<x>> \in Seq(Calling)
      /\ <<"event">> \o <<x>> = <<"event", x>> /\ <<"event", x>> \in Seq(Calling)
  BY CallLists
<1>4. Leads(<<"event">> \o <<x>>, Seen(o, n), Seen(Append(o, x), n + 1))
  BY <1>1, <1>2, <1>3, LeadsOn
<1> QED
  BY <1>3, <1>4 DEF Prolog

LEMMA EpilogLeads ==
    ASSUME NEW o \in Seq(StateNames), NEW n \in Nat, NEW x \in StateNames
    PROVE  Leads(Epilog, Seen(Append(o, x), n), Seen(o, n)) /\ Epilog \in Seq(Calling)
<1>1. Leads(<<"event">>, Seen(o, n), Seen(o, n)) /\ Seen(o, n) \in Views
  BY SeenIs, EventLeads
<1>2. Leads(<<"end">>, Seen(Append(o, x), n), Seen(o, n)) /\ Seen(Append(o, x), n) \in Views
  BY EndLeads
<1>3. /\ <<"end">> \in Seq(Calling) /\ <<"event">> \in Seq(Calling)
      /\ <<"end">> \o <<"event">> = <<"end", "event">> /\ <<"end", "event">> \in Seq(Calling)
  BY CallLists
<1>4. Leads(<<"end">> \o <<"event">>, Seen(Append(o, x), n), Seen(o, n))
  BY <1>1, <1>2, <1>3, LeadsOn
<1> QED
  BY <1>3, <1>4 DEF Epilog
-----------------------------------------------------------------------------
(* Contexts that change *)

\* When nothing is still to come, the last context has on the stack what it has opened.
LEMMA NestedNow ==
    ASSUME NEW s \in Setups, NEW ctx, NEW k \in Seq(StateRecords), NEW n \in Nat,
           Nested(s, ctx, k, n, <<>>)
    PROVE  LET L == Len(ctx)
               at == ctx[L].at
               o == OpenedAt(s, L, at)
           IN  /\ View(ctx, k, n) = Seen(o, n) /\ o \in Seq(StateNames) /\ at \in AllLabels
               /\ NamesAbove(k, ctx[L].depth) = o
               /\ n + InHand(at) <= MaxStates + 2
<1>1. Placed(s, ctx) /\ Below(s, ctx, k)
  BY DEF Nested
<1>2. View(ctx, k, n) \in Views /\ View(ctx, k, n).open = NamesAbove(k, ctx[Len(ctx)].depth) /\ View(ctx, k, n).num = n
  BY <1>1, NestedParts
<1>3. Ends(s, ctx, View(ctx, k, n))
  BY <1>2, LeadsNone DEF Nested
<1>4. ctx[Len(ctx)].at \in AllLabels /\ Len(ctx) \in Nat \ {0}
  BY <1>1, PlacedParts
<1>5. OpenedAt(s, Len(ctx), ctx[Len(ctx)].at) \in Seq(StateNames)
  BY <1>4, OpenedFacts
<1>6. View(ctx, k, n).open = OpenedAt(s, Len(ctx), ctx[Len(ctx)].at)
  BY <1>3 DEF Ends
<1> QED
  BY <1>2, <1>3, <1>4, <1>5, <1>6 DEF Ends, View, Seen

\* Another label for the last context.
Labelled(ctx, label) == [ctx EXCEPT ![Len(ctx)].at = label]

LEMMA LabelledFacts ==
    ASSUME NEW s \in Setups, NEW ctx, Placed(s, ctx), NEW label \in AllLabels,
           IF Len(ctx) = 1 THEN label \in BaseLabels(s) ELSE label \in TaskLabels
    PROVE  /\ Placed(s, Labelled(ctx, label)) /\ Len(Labelled(ctx, label)) = Len(ctx)
           /\ \A i \in 1 .. Len(ctx) : Labelled(ctx, label)[i].depth = ctx[i].depth
           /\ \A i \in 1 .. Len(ctx) - 1 : Labelled(ctx, label)[i] = ctx[i]
           /\ Labelled(ctx, label)[Len(ctx)].at = label
<1> DEFINE L == Len(ctx)
           C == Labelled(ctx, label)
           T == [at : AllLabels, depth : Nat]
<1>1. L \in Nat \ {0} /\ L \in 1 .. L /\ DOMAIN ctx = 1 .. L /\ ctx \in Seq(T)
      /\ \A i \in 1 .. L : ctx[i] \in T
  BY PlacedParts, ListFacts DEF Placed
<1>2. [ctx[L] EXCEPT !.at = label] \in T /\ [ctx[L] EXCEPT !.at = label].at = label
      /\ [ctx[L] EXCEPT !.at = label].depth = ctx[L].depth
  BY <1>1
<1>3. C = [ctx EXCEPT ![L] = [ctx[L] EXCEPT !.at = label]]
  BY DEF Labelled
<1>4. C \in Seq(T) /\ Len(C) = L
  <2>1. PICK x \in T : x = [ctx[L] EXCEPT !.at = label]
    BY <1>2
  <2>2. [ctx EXCEPT ![L] = x] \in Seq(T) /\ Len([ctx EXCEPT ![L] = x]) = L
    BY <1>1, ExceptSeq
  <2> QED
    BY <1>3, <2>1, <2>2
<1>5. (\A i \in 1 .. L : i # L => C[i] = ctx[i]) /\ C[L] = [ctx[L] EXCEPT !.at = label]
  BY <1>1, <1>3
<1> HIDE DEF C
<1>6. \A i \in 1 .. L : C[i].depth = ctx[i].depth
  BY <1>1, <1>2, <1>5
<1>7. \A i \in 1 .. L - 1 : C[i] = ctx[i] /\ i # L
  BY <1>1, <1>5
<1>8. C[L].at = label
  BY <1>2, <1>5
<1>9. Placed(s, C)
  <2>1. C[1].at \in BaseLabels(s)
    <3>1. CASE L = 1
      BY <1>8, <3>1
    <3>2. CASE L # 1
      <4>1. 1 \in 1 .. L /\ 1 # L
        BY <1>1, <3>2
      <4>2. C[1] = ctx[1]
        BY <1>5, <4>1
      <4> QED
        BY <4>2 DEF Placed
    <3> QED
      BY <3>1, <3>2
  <2>2. \A i \in 2 .. L : C[i].at \in TaskLabels
    <3> SUFFICES ASSUME NEW i \in 2 .. L PROVE C[i].at \in TaskLabels
      OBVIOUS
    <3>0. i \in 1 .. L /\ L # 1
      BY <1>1
    <3>1. CASE i = L
      BY <1>8, <3>0, <3>1
    <3>2. CASE i # L
      BY <1>5, <3>0, <3>2 DEF Placed
    <3> QED
      BY <3>1, <3>2
  <2>3. \A i \in 1 .. L - 1 : C[i].at \in {"executed", "created"}
    BY <1>7 DEF Placed
  <2> QED
    BY <1>1, <1>4, <2>1, <2>2, <2>3 DEF Placed
<1> QED
  BY <1>4, <1>6, <1>7, <1>8, <1>9 DEF C

LEMMA BelowLabelled ==
    ASSUME NEW s \in Setups, NEW ctx, Placed(s, ctx), NEW k \in Seq(StateRecords), NEW C,
           Below(s, ctx, k), Len(C) = Len(ctx),
           \A i \in 1 .. Len(ctx) : C[i].depth = ctx[i].depth,
           \A i \in 1 .. Len(ctx) - 1 : C[i] = ctx[i]
    PROVE  Below(s, C, k)
<1> DEFINE L == Len(ctx)
<1>1. L \in Nat \ {0} /\ L \in 1 .. L /\ 1 \in 1 .. L
  BY PlacedParts
<1>2. \A i \in 1 .. L - 1 : i \in 1 .. L /\ i + 1 \in 1 .. L
  BY <1>1
<1>3. /\ C[1].depth = 0 /\ Len(k) >= C[L].depth
      /\ \A i \in 1 .. L : C[i].depth <= 2 * (i - 1)
      /\ \A i \in 1 .. L : \A j \in 1 .. i : C[j].depth <= C[i].depth
  <2>1. \A i \in 1 .. L : \A j \in 1 .. i : j \in 1 .. L
    BY <1>1
  <2> QED
    BY <1>1, <2>1 DEF Below
<1>4. ASSUME NEW i \in 1 .. L - 1
      PROVE  /\ C[i + 1].depth = C[i].depth + Len(OpenedAt(s, i, C[i].at))
             /\ \A j \in 1 .. Len(OpenedAt(s, i, C[i].at)) :
                    k[C[i].depth + j].name = OpenedAt(s, i, C[i].at)[j]
  <2>1. C[i] = ctx[i] /\ C[i + 1].depth = ctx[i + 1].depth
    BY <1>2
  <2> QED
    BY <2>1 DEF Below
<1> QED
  BY <1>3, <1>4 DEF Below

LEMMA NestedLabelled ==
    ASSUME NEW s \in Setups, NEW ctx, NEW k \in Seq(StateRecords), NEW n \in Nat,
           Nested(s, ctx, k, n, <<>>), NEW label \in AllLabels,
           IF Len(ctx) = 1 THEN label \in BaseLabels(s) ELSE label \in TaskLabels,
           NEW calls, NEW z \in Views,
           Leads(calls, Seen(OpenedAt(s, Len(ctx), ctx[Len(ctx)].at), n), z),
           z.open = OpenedAt(s, Len(ctx), label), z.num + InHand(label) <= MaxStates + 2
    PROVE  Nested(s, Labelled(ctx, label), k, n, calls)
<1> DEFINE L == Len(ctx)
           C == Labelled(ctx, label)
<1>1. Placed(s, ctx) /\ Below(s, ctx, k) /\ L \in 1 .. L
  BY PlacedParts DEF Nested
<1>2. /\ Placed(s, C) /\ Len(C) = L /\ C[L].at = label
      /\ \A i \in 1 .. L : C[i].depth = ctx[i].depth
      /\ \A i \in 1 .. L - 1 : C[i] = ctx[i]
  BY <1>1, LabelledFacts
<1>3. View(ctx, k, n) = Seen(OpenedAt(s, L, ctx[L].at), n)
  BY NestedNow
<1> HIDE DEF C
<1>4. Below(s, C, k)
  BY <1>1, <1>2, BelowLabelled
<1>5. View(C, k, n) = View(ctx, k, n)
  BY <1>1, <1>2 DEF View
<1>6. Leads(calls, View(C, k, n), z) /\ Ends(s, C, z)
  BY <1>2, <1>3, <1>5 DEF Ends
<1> QED
  BY <1>2, <1>4, <1>6 DEF Nested, C

\* A task that is executed on top of the last context.
LEMMA NestedCalled ==
    ASSUME NEW s \in Setups, NEW ctx, NEW k \in Seq(StateRecords), NEW n \in Nat,
           Nested(s, ctx, k, n, <<>>), NEW label \in {"executed", "created"},
           Len(ctx) = 1 => label \in BaseLabels(s),
           OpenedAt(s, Len(ctx), label) = OpenedAt(s, Len(ctx), ctx[Len(ctx)].at),
           n + 1 <= MaxStates + 2
    PROVE  Nested(s, Append(Labelled(ctx, label), Context("user", Len(k))), k, n, Prolog("TEXEC"))
<1> DEFINE L == Len(ctx)
           B == Labelled(ctx, label)
           x == Context("user", Len(k))
           C == Append(B, x)
           T == [at : AllLabels, depth : Nat]
           d == ctx[L].depth
           o == OpenedAt(s, L, label)
<1>1. /\ Placed(s, ctx) /\ Below(s, ctx, k) /\ L \in 1 .. L /\ L \in Nat \ {0} /\ Len(k) \in Nat
      /\ d \in Nat /\ \A i \in 1 .. L : ctx[i].at \in AllLabels /\ ctx[i].depth \in Nat
  BY PlacedParts, ListFacts DEF Nested
<1>2. label \in AllLabels /\ label \in TaskLabels
  BY DEF AllLabels, TaskLabels
<1>3. /\ Placed(s, B) /\ Len(B) = L /\ B[L].at = label
      /\ \A i \in 1 .. L : B[i].depth = ctx[i].depth
      /\ \A i \in 1 .. L - 1 : B[i] = ctx[i]
  BY <1>1, <1>2, LabelledFacts
<1> HIDE DEF B
<1>4. x \in T /\ x.at = "user" /\ x.depth = Len(k)
  BY <1>1 DEF Context, AllLabels, TaskLabels
<1>5. /\ C \in Seq(T) /\ Len(C) = L + 1 /\ C[L + 1] = x
      /\ \A i \in 1 .. L : C[i] = B[i]
  <2>1. B \in Seq(T)
    BY <1>3 DEF Placed
  <2> HIDE DEF x
  <2>2. x \in T
    BY <1>4
  <2> QED
    BY <1>3, <2>1, <2>2, AppendFacts
<1> HIDE DEF C, x
<1>6. Placed(s, C)
  <2>1. 1 \in 1 .. L
    BY <1>1
  <2>2. C[1].at \in BaseLabels(s)
    BY <1>3, <1>5, <2>1 DEF Placed
  <2>3. \A i \in 2 .. L + 1 : C[i].at \in TaskLabels
    <3> SUFFICES ASSUME NEW i \in 2 .. L + 1 PROVE C[i].at \in TaskLabels
      OBVIOUS
    <3>1. CASE i = L + 1
      BY <1>4, <1>5, <3>1 DEF TaskLabels
    <3>2. CASE i # L + 1
      <4>1. i \in 1 .. L /\ i \in 2 .. L
        BY <1>1, <3>2
      <4> QED
        BY <1>3, <1>5, <4>1 DEF Placed
    <3> QED
      BY <3>1, <3>2
  <2>4. \A i \in 1 .. L : C[i].at \in {"executed", "created"}
    <3> SUFFICES ASSUME NEW i \in 1 .. L PROVE C[i].at \in {"executed", "created"}
      OBVIOUS
    <3>1. CASE i = L
      BY <1>3, <1>5, <3>1
    <3>2. CASE i # L
      <4>1. i \in 1 .. L - 1
        BY <1>1, <3>2
      <4> QED
        BY <1>3, <1>5, <4>1 DEF Placed
    <3> QED
      BY <3>1, <3>2
  <2>5. (L + 1) - 1 = L /\ L + 1 # 0
    BY <1>1
  <2> QED
    BY <1>5, <2>2, <2>3, <2>4, <2>5 DEF Placed
<1>7. /\ NamesAbove(k, d) = o /\ o \in Seq(StateNames) /\ d <= Len(k)
  BY <1>1, NestedNow, NestedParts
<1>8. /\ Len(o) = Len(k) - d /\ \A j \in 1 .. Len(k) - d : k[d + j].name = o[j]
  <2>1. ASSUME NEW e \in Nat, e <= Len(k)
        PROVE  /\ Len(NamesAbove(k, e)) = Len(k) - e
               /\ \A j \in 1 .. Len(k) - e : k[e + j].name = NamesAbove(k, e)[j]
    BY <2>1, AboveFacts
  <2> HIDE DEF d, o
  <2> QED
    BY <1>1, <1>7, <2>1
<1>9. Len(o) <= 2
  <2>1. L = 1 => label \in BaseLabels(s)
    OBVIOUS
  <2> QED
    BY <1>1, <1>2, <2>1, OpenedIsShort
<1>10. \A i \in 1 .. L : C[i].depth = ctx[i].depth
  BY <1>3, <1>5
<1>11. Below(s, C, k)
  <2>1. C[1].depth = 0 /\ C[L + 1].depth = Len(k)
    <3>1. 1 \in 1 .. L
      BY <1>1
    <3> QED
      BY <1>1, <1>4, <1>5, <1>10, <3>1 DEF Below
  <2>2. \A i \in 1 .. L + 1 : C[i].depth <= 2 * (i - 1) /\ C[i].depth <= Len(k)
    <3> SUFFICES ASSUME NEW i \in 1 .. L + 1
                 PROVE  C[i].depth <= 2 * (i - 1) /\ C[i].depth <= Len(k)
      OBVIOUS
    <3>1. CASE i \in 1 .. L
      <4>0. i \in 1 .. L /\ i \in 1 .. Len(ctx)
        BY <3>1
      <4>1. C[i].depth = ctx[i].depth /\ ctx[i].depth <= 2 * (i - 1) /\ ctx[i].depth <= d
        BY <1>1, <1>10, <4>0 DEF Below
      <4>2. ctx[i].depth \in Nat
        BY <1>1, <3>1
      <4> QED
        BY <1>1, <1>7, <4>1, <4>2
    <3>2. CASE i = L + 1
      <4>1. d <= 2 * (L - 1)
        BY <1>1 DEF Below
      <4>2. Len(k) <= 2 * (L - 1) + 2
        <5>1. PICK m \in Nat : m = Len(o) /\ m = Len(k) - d
          BY <1>7, <1>8, ListFacts
        <5> QED
          BY <1>1, <1>9, <4>1, <5>1
      <4>3. Len(k) <= 2 * ((L + 1) - 1)
        BY <1>1, <4>2
      <4> QED
        BY <1>1, <2>1, <3>2, <4>3
    <3>3. i \in 1 .. L \/ i = L + 1
      BY <1>1
    <3> QED
      BY <3>1, <3>2, <3>3
  <2>3. ASSUME NEW i \in 1 .. L
        PROVE  /\ C[i + 1].depth = C[i].depth + Len(OpenedAt(s, i, C[i].at))
               /\ \A j \in 1 .. Len(OpenedAt(s, i, C[i].at)) :
                      k[C[i].depth + j].name = OpenedAt(s, i, C[i].at)[j]
    <3>1. CASE i = L
      <4>1. OpenedAt(s, i, C[i].at) = o /\ C[i].depth = d
        BY <1>3, <1>5, <1>10, <3>1
      <4>2. C[i + 1].depth = Len(k)
        BY <2>1, <3>1
      <4>3. Len(k) = d + Len(o)
        BY <1>1, <1>7, <1>8
      <4> QED
        BY <1>8, <4>1, <4>2, <4>3
    <3>2. CASE i # L
      <4>1. i \in 1 .. L - 1 /\ i + 1 \in 1 .. L
        BY <1>1, <3>2
      <4>2. C[i] = ctx[i] /\ C[i + 1].depth = ctx[i + 1].depth
        BY <1>3, <1>5, <1>10, <4>1
      <4> QED
        BY <1>1, <4>1, <4>2 DEF Below
    <3> QED
      BY <3>1, <3>2
  <2>4. (L + 1) - 1 = L /\ Len(k) >= C[L + 1].depth
    BY <1>1, <2>1
  <2>5. ASSUME NEW i \in 1 .. L + 1, NEW j \in 1 .. i PROVE C[j].depth <= C[i].depth
    <3>1. CASE i = L + 1
      <4>1. j \in 1 .. L + 1
        BY <3>1
      <4> QED
        BY <2>1, <2>2, <3>1, <4>1
    <3>2. CASE i # L + 1
      <4>1. i \in 1 .. L /\ j \in 1 .. L
        BY <1>1, <3>2
      <4>2. ctx[j].depth <= ctx[i].depth
        BY <1>1, <4>1 DEF Below
      <4> QED
        BY <1>10, <4>1, <4>2
    <3> QED
      BY <3>1, <3>2
  <2> QED
    BY <1>5, <2>1, <2>2, <2>3, <2>4, <2>5 DEF Below
<1>12. View(C, k, n) = Seen(<<>>, n)
  <2>1. NamesAbove(k, Len(k)) = <<>>
    BY <1>1, AboveFacts
  <2> QED
    BY <1>4, <1>5, <2>1 DEF View, Seen
<1>13. PICK z \in Views : /\ Leads(Prolog("TEXEC"), Seen(<<>>, n), z)
                          /\ z.open = <<"TEXEC">> /\ z.num = n + 1
  <2>1. <<>> \in Seq(StateNames) /\ "TEXEC" \in Names /\ Append(<<>>, "TEXEC") = <<"TEXEC">>
    BY DEF Names
  <2>2. <<"TEXEC">> \in Seq(StateNames) /\ n + 1 \in Nat
    BY DEF StateNames, Names
  <2>3. Leads(Prolog("TEXEC"), Seen(<<>>, n), Seen(<<"TEXEC">>, n + 1))
    BY <2>1, PrologLeads
  <2>4. PICK q \in Seq(StateNames), m \in Nat : q = <<"TEXEC">> /\ m = n + 1
    BY <2>2, Zenon
  <2>5. Seen(q, m) \in Views /\ Seen(q, m).open = q /\ Seen(q, m).num = m
    BY SeenIs
  <2> QED
    BY <2>3, <2>4, <2>5
<1>14. Ends(s, C, z)
  <2>1. OpenedAt(s, L + 1, "user") = <<"TEXEC">>
    BY <1>1 DEF OpenedAt, Own
  <2>2. InHand("user") = 0
    BY DEF InHand
  <2> QED
    BY <1>4, <1>5, <1>13, <2>1, <2>2 DEF Ends
<1> QED
  BY <1>6, <1>11, <1>12, <1>13, <1>14 DEF Nested, C, B, x

\* A task that returns to the context below.
LEMMA NestedReturned ==
    ASSUME NEW s \in Setups, NEW ctx, NEW k \in Seq(StateRecords), NEW n \in Nat,
           Nested(s, ctx, k, n, <<>>), ctx[Len(ctx)].at = "user", Len(ctx) # 1
    PROVE  Nested(s, Front(ctx), k, n, Epilog)
<1> DEFINE L == Len(ctx)
           C == Front(ctx)
           T == [at : AllLabels, depth : Nat]
           d == ctx[L].depth
           e == ctx[L - 1].depth
           o == OpenedAt(s, L - 1, ctx[L - 1].at)
<1>1. /\ Placed(s, ctx) /\ Below(s, ctx, k) /\ L \in Nat \ {0, 1} /\ Len(k) \in Nat /\ ctx \in Seq(T)
      /\ \A i \in 1 .. L : ctx[i].at \in AllLabels /\ ctx[i].depth \in Nat
      /\ L \in 1 .. L /\ L - 1 \in 1 .. L /\ L - 1 \in 1 .. L - 1 /\ (L - 1) + 1 = L
      /\ \A i \in 1 .. L - 1 : i \in 1 .. L
  <2>1. Placed(s, ctx) /\ Below(s, ctx, k) /\ Len(k) \in Nat
    BY ListFacts DEF Nested
  <2>2. L \in Nat \ {0} /\ \A i \in 1 .. L : ctx[i].at \in AllLabels /\ ctx[i].depth \in Nat
    BY <2>1, PlacedParts
  <2>3. ctx \in Seq(T)
    BY <2>1 DEF Placed
  <2> HIDE DEF L, T
  <2>4. L \in Nat \ {0, 1}
    BY <2>2 DEF L
  <2>5. /\ L \in 1 .. L /\ L - 1 \in 1 .. L /\ L - 1 \in 1 .. L - 1 /\ (L - 1) + 1 = L
        /\ \A i \in 1 .. L - 1 : i \in 1 .. L
    BY <2>4
  <2> QED
    BY <2>1, <2>2, <2>3, <2>4, <2>5
<1>2. /\ C \in Seq(T) /\ Len(C) = L - 1 /\ \A i \in 1 .. L - 1 : C[i] = ctx[i]
  <2>1. ctx # <<>>
    BY <1>1, ListFacts
  <2> QED
    BY <1>1, <2>1, FrontFacts
<1> HIDE DEF C
<1>3. Placed(s, C)
  <2>1. C[1].at \in BaseLabels(s)
    <3>1. 1 \in 1 .. L - 1
      BY <1>1
    <3> QED
      BY <1>1, <1>2, <3>1 DEF Placed
  <2>2. \A i \in 2 .. L - 1 : C[i].at \in TaskLabels
    <3>1. \A i \in 2 .. L - 1 : i \in 2 .. L /\ i \in 1 .. L - 1
      BY <1>1
    <3> QED
      BY <1>1, <1>2, <3>1 DEF Placed
  <2>3. \A i \in 1 .. (L - 1) - 1 : C[i].at \in {"executed", "created"}
    <3>1. \A i \in 1 .. (L - 1) - 1 : i \in 1 .. L - 1
      BY <1>1
    <3> QED
      BY <1>1, <1>2, <3>1 DEF Placed
  <2> QED
    BY <1>1, <1>2, <2>1, <2>2, <2>3 DEF Placed
<1>4. /\ NamesAbove(k, d) = <<"TEXEC">> /\ d <= Len(k) /\ d \in Nat
      /\ n <= MaxStates + 2
  <2>1. OpenedAt(s, L, "user") = <<"TEXEC">>
    BY <1>1 DEF OpenedAt, Own
  <2>2. InHand("user") = 0
    BY DEF InHand
  <2> QED
    BY <1>1, <2>1, <2>2, NestedNow, NestedParts
<1>5. Len(k) = d + 1 /\ k[d + 1].name = "TEXEC"
  <2>1. /\ Len(NamesAbove(k, d)) = Len(k) - d
        /\ \A j \in 1 .. Len(k) - d : NamesAbove(k, d)[j] = k[d + j].name
    BY <1>4, AboveFacts
  <2>2. Len(<<"TEXEC">>) = 1 /\ <<"TEXEC">>[1] = "TEXEC"
    OBVIOUS
  <2>3. Len(k) - d = 1
    BY <1>4, <2>1, <2>2
  <2>4. 1 \in 1 .. Len(k) - d
    BY <2>3
  <2>5. NamesAbove(k, d)[1] = k[d + 1].name
    BY <2>1, <2>4
  <2>6. Len(k) = d + 1
    BY <1>1, <1>4, <2>3
  <2> QED
    BY <1>4, <2>2, <2>5, <2>6
<1>6. /\ e \in Nat /\ o \in Seq(StateNames) /\ Len(o) \in Nat /\ d = e + Len(o)
      /\ \A j \in 1 .. Len(o) : k[e + j].name = o[j]
  <2>1. L - 1 \in Nat \ {0} /\ ctx[L - 1].at \in AllLabels
    BY <1>1
  <2>2. o \in Seq(StateNames) /\ Len(o) \in Nat
    BY <2>1, OpenedFacts, ListFacts
  <2>3. ctx[(L - 1) + 1].depth = e + Len(o) /\ \A j \in 1 .. Len(o) : k[e + j].name = o[j]
    BY <1>1 DEF Below
  <2> QED
    BY <1>1, <2>2, <2>3
<1>7. Below(s, C, k)
  <2>1. C[1].depth = 0 /\ C[L - 1].depth = e
    <3>1. 1 \in 1 .. L - 1
      BY <1>1
    <3> QED
      BY <1>1, <1>2, <3>1 DEF Below
  <2>2. e <= d /\ e <= Len(k)
    BY <1>1, <1>4, <1>6
  <2>3. ASSUME NEW i \in 1 .. L - 1
        PROVE  C[i].depth <= 2 * (i - 1) /\ \A j \in 1 .. i : C[j].depth <= C[i].depth
    <3>1. i \in 1 .. L /\ \A j \in 1 .. i : j \in 1 .. L - 1
      BY <1>1
    <3>2. ctx[i].depth <= 2 * (i - 1) /\ \A j \in 1 .. i : ctx[j].depth <= ctx[i].depth
      BY <1>1, <3>1 DEF Below
    <3> QED
      BY <1>2, <3>1, <3>2
  <2>4. ASSUME NEW i \in 1 .. (L - 1) - 1
        PROVE  /\ C[i + 1].depth = C[i].depth + Len(OpenedAt(s, i, C[i].at))
               /\ \A j \in 1 .. Len(OpenedAt(s, i, C[i].at)) :
                      k[C[i].depth + j].name = OpenedAt(s, i, C[i].at)[j]
    <3>1. i \in 1 .. L - 1 /\ i + 1 \in 1 .. L - 1
      BY <1>1
    <3>2. C[i] = ctx[i] /\ C[i + 1] = ctx[i + 1]
      BY <1>2, <3>1
    <3> QED
      BY <1>1, <3>1, <3>2 DEF Below
  <2> QED
    BY <1>1, <1>2, <2>1, <2>2, <2>3, <2>4 DEF Below
<1>8. NamesAbove(k, e) = Append(o, "TEXEC")
  <2>1. e <= Len(k)
    BY <1>1, <1>4, <1>6
  <2>2. /\ NamesAbove(k, e) \in Seq(StateNames) /\ Len(NamesAbove(k, e)) = Len(k) - e
        /\ \A j \in 1 .. Len(k) - e : NamesAbove(k, e)[j] = k[e + j].name
    BY <1>6, <2>1, AboveFacts
  <2>3. "TEXEC" \in StateNames
    BY DEF StateNames, Names
  <2>4. /\ Append(o, "TEXEC") \in Seq(StateNames) /\ Len(Append(o, "TEXEC")) = Len(o) + 1
        /\ Append(o, "TEXEC")[Len(o) + 1] = "TEXEC"
        /\ \A j \in 1 .. Len(o) : Append(o, "TEXEC")[j] = o[j]
    BY <1>6, <2>3, AppendFacts
  <2> HIDE DEF o, e, d
  <2>5. Len(k) - e = Len(o) + 1
    BY <1>4, <1>5, <1>6
  <2>6. ASSUME NEW j \in 1 .. Len(o) + 1 PROVE NamesAbove(k, e)[j] = Append(o, "TEXEC")[j]
    <3>0. NamesAbove(k, e)[j] = k[e + j].name
      BY <2>2, <2>5
    <3>1. CASE j = Len(o) + 1
      <4>1. e + j = d + 1
        BY <1>6, <3>1
      <4>2. Append(o, "TEXEC")[j] = "TEXEC"
        BY <2>4, <3>1
      <4> QED
        BY <1>5, <3>0, <4>1, <4>2
    <3>2. CASE j \in 1 .. Len(o)
      BY <1>6, <2>4, <3>0, <3>2
    <3>3. \A q \in Nat : j \in 1 .. q + 1 => j = q + 1 \/ j \in 1 .. q
      OBVIOUS
    <3> QED
      BY <1>6, <3>1, <3>2, <3>3
  <2> QED
    BY <2>2, <2>4, <2>5, <2>6, SeqEqual
<1>9. View(C, k, n) = Seen(Append(o, "TEXEC"), n)
  <2>1. C[Len(C)].depth = e
    BY <1>1, <1>2
  <2> QED
    BY <1>8, <2>1 DEF View, Seen
<1>10. Leads(Epilog, Seen(Append(o, "TEXEC"), n), Seen(o, n)) /\ Seen(o, n) \in Views
  <2>1. "TEXEC" \in StateNames
    BY DEF StateNames, Names
  <2> HIDE DEF o
  <2> QED
    BY <1>6, <2>1, EpilogLeads, SeenIs
<1>11. Ends(s, C, Seen(o, n))
  <2>1. C[Len(C)].at = ctx[L - 1].at /\ Len(C) = L - 1
    BY <1>1, <1>2
  <2>2. ctx[L - 1].at \in {"executed", "created"}
    BY <1>1 DEF Placed
  <2>3. InHand(C[Len(C)].at) = 0
    BY <2>1, <2>2 DEF InHand
  <2>4. Seen(o, n).open = o /\ Seen(o, n).num = n
    BY DEF Seen
  <2> QED
    BY <1>4, <2>1, <2>3, <2>4 DEF Ends
<1> QED
  BY <1>3, <1>7, <1>9, <1>10, <1>11 DEF Nested, C
-----------------------------------------------------------------------------
(* The calls that touch the buffers alone *)

LEMMA CountFields ==
    ASSUME NEW r \in Recorders, NEW h \in Slots, h + 2 <= BufferMax
    PROVE  /\ LET t == count_state(r, h)
              IN  /\ t \in Recorders /\ SameStack(r, t) /\ t.state_buffer_head = h + 1
                  /\ t.event_buffer_head = r.event_buffer_head /\ t.buffer_file = r.buffer_file
                  /\ t.state_buffer = r.state_buffer /\ t.event_buffer = r.event_buffer
           /\ LET t == count_event(r, h)
              IN  /\ t \in Recorders /\ SameStack(r, t) /\ t.event_buffer_head = h + 1
                  /\ t.state_buffer_head = r.state_buffer_head /\ t.buffer_file = r.buffer_file
                  /\ t.state_buffer = r.state_buffer /\ t.event_buffer = r.event_buffer
<1>1. PICK g \in Slots : g = h + 1
  BY DEF Slots
<1>2. count_state(r, h) = [r EXCEPT !.state_buffer_head = g] /\ count_event(r, h) = [r EXCEPT !.event_buffer_head = g]
  BY <1>1 DEF count_state, count_event
<1> QED
  BY <1>1, <1>2 DEF Recorders, SameStack

LEMMA DumpFields ==
    ASSUME NEW r \in Recorders, NEW i \in Slots
    PROVE  /\ LET t == dump_state(r, i)
              IN  /\ t \in Recorders /\ SameStack(r, t)
                  /\ t.state_buffer_head = r.state_buffer_head /\ t.event_buffer_head = r.event_buffer_head
                  /\ t.state_buffer = r.state_buffer /\ t.event_buffer = r.event_buffer
                  /\ t.buffer_file.s = Append(r.buffer_file.s, r.state_buffer[i])
                  /\ t.buffer_file.e = r.buffer_file.e
           /\ LET t == dump_event(r, i)
              IN  /\ t \in Recorders /\ SameStack(r, t)
                  /\ t.state_buffer_head = r.state_buffer_head /\ t.event_buffer_head = r.event_buffer_head
                  /\ t.state_buffer = r.state_buffer /\ t.event_buffer = r.event_buffer
                  /\ t.buffer_file.e = Append(r.buffer_file.e, r.event_buffer[i])
                  /\ t.buffer_file.s = r.buffer_file.s
<1>1. PICK s \in Seq(StateRecords), e \in Seq(EventRecords) :
        s = Append(r.buffer_file.s, r.state_buffer[i]) /\ e = Append(r.buffer_file.e, r.event_buffer[i])
  <2>1. r.state_buffer[i] \in StateRecords /\ r.event_buffer[i] \in EventRecords
    BY RecorderParts
  <2>2. /\ Append(r.buffer_file.s, r.state_buffer[i]) \in Seq(StateRecords)
        /\ Append(r.buffer_file.e, r.event_buffer[i]) \in Seq(EventRecords)
    BY <2>1, RecorderParts, AppendFacts
  <2> QED
    BY <2>2, Zenon
<1> DEFINE Files == [s : Seq(StateRecords), e : Seq(EventRecords)]
<1>2. r.buffer_file \in Files
  BY DEF Recorders
<1>3. PICK f \in Files, g \in Files :
        /\ f = [r.buffer_file EXCEPT !.s = s] /\ f.s = s /\ f.e = r.buffer_file.e
        /\ g = [r.buffer_file EXCEPT !.e = e] /\ g.e = e /\ g.s = r.buffer_file.s
  <2>1. /\ [r.buffer_file EXCEPT !.s = s] \in Files /\ [r.buffer_file EXCEPT !.s = s].s = s
        /\ [r.buffer_file EXCEPT !.s = s].e = r.buffer_file.e
        /\ [r.buffer_file EXCEPT !.e = e] \in Files /\ [r.buffer_file EXCEPT !.e = e].e = e
        /\ [r.buffer_file EXCEPT !.e = e].s = r.buffer_file.s
    BY <1>2
  <2> QED
    BY <2>1, Zenon
<1>4. dump_state(r, i) = [r EXCEPT !.buffer_file = f] /\ dump_event(r, i) = [r EXCEPT !.buffer_file = g]
  <2>1. /\ dump_state(r, i) = [r EXCEPT !.buffer_file = [r.buffer_file EXCEPT !.s = s]]
        /\ dump_event(r, i) = [r EXCEPT !.buffer_file = [r.buffer_file EXCEPT !.e = e]]
    BY <1>1 DEF dump_state, dump_event
  <2> QED
    BY <1>3, <2>1
<1> HIDE DEF Files
<1>5. /\ dump_state(r, i) \in Recorders /\ dump_state(r, i).buffer_file = f
      /\ SameStack(r, dump_state(r, i))
      /\ dump_state(r, i).state_buffer_head = r.state_buffer_head
      /\ dump_state(r, i).event_buffer_head = r.event_buffer_head
      /\ dump_state(r, i).state_buffer = r.state_buffer /\ dump_state(r, i).event_buffer = r.event_buffer
  BY <1>4 DEF Recorders, SameStack, Files
<1>6. /\ dump_event(r, i) \in Recorders /\ dump_event(r, i).buffer_file = g
      /\ SameStack(r, dump_event(r, i))
      /\ dump_event(r, i).state_buffer_head = r.state_buffer_head
      /\ dump_event(r, i).event_buffer_head = r.event_buffer_head
      /\ dump_event(r, i).state_buffer = r.state_buffer /\ dump_event(r, i).event_buffer = r.event_buffer
  BY <1>4 DEF Recorders, SameStack, Files
<1> QED
  BY <1>1, <1>3, <1>5, <1>6

LEMMA RewindFields ==
    ASSUME NEW r \in Recorders
    PROVE  /\ LET t == rewind_states(r)
              IN  /\ t \in Recorders /\ SameStack(r, t) /\ t.state_buffer_head = 0
                  /\ t.event_buffer_head = r.event_buffer_head /\ t.buffer_file = r.buffer_file
                  /\ t.state_buffer = r.state_buffer /\ t.event_buffer = r.event_buffer
           /\ LET t == rewind_events(r)
              IN  /\ t \in Recorders /\ SameStack(r, t) /\ t.event_buffer_head = 0
                  /\ t.state_buffer_head = r.state_buffer_head /\ t.buffer_file = r.buffer_file
                  /\ t.state_buffer = r.state_buffer /\ t.event_buffer = r.event_buffer
<1>1. 0 \in Slots
  BY DEF Slots
<1> QED
  BY <1>1 DEF Recorders, SameStack, rewind_states, rewind_events

LEMMA DestroyFields ==
    ASSUME NEW r \in Recorders
    PROVE  LET t == destroy(r)
           IN  /\ t \in Recorders /\ t.freed /\ t.state_stack = r.state_stack
               /\ t.num_states = r.num_states /\ t.num_events = r.num_events /\ t.buffer_file = r.buffer_file
               /\ t.state_buffer_head = r.state_buffer_head /\ t.event_buffer_head = r.event_buffer_head
               /\ t.state_buffer = r.state_buffer /\ t.event_buffer = r.event_buffer
<1>1. "TIDLE" \in StateNames
  BY DEF StateNames, Names
<1> QED
  BY <1>1 DEF Recorders, destroy, record_state_transition
-----------------------------------------------------------------------------
(* What is open is what the worker is inside *)

LEMMA OpenedIs ==
    ASSUME NEW s \in Setups, NEW i \in Nat \ {0}
    PROVE  LET o == Own(s, i)
           IN  /\ o \in Seq(StateNames)
               /\ OpenedAt(s, i, "user") = o /\ OpenedAt(s, i, "loop") = o
               /\ OpenedAt(s, i, "create") = Append(o, "TCREATE")
               /\ OpenedAt(s, i, "created") = Append(o, "TCREATE")
               /\ OpenedAt(s, i, "wait") = Append(o, "TSYNC")
               /\ OpenedAt(s, i, "popped") = OpenedAt(s, i, "executed")
               /\ OpenedAt(s, i, "executed") = IF i > 1 \/ s.main THEN Append(o, "TSYNC") ELSE o
               /\ OpenedAt(s, i, "dead") = <<>> /\ OpenedAt(s, i, "destroy") = <<>>
<1>1. Own(s, i) \in Seq(StateNames)
  <2>1. OpenedAt(s, i, "user") \in Seq(StateNames)
    BY OpenedFacts DEF AllLabels, TaskLabels
  <2> QED
    BY <2>1 DEF OpenedAt
<1> QED
  BY <1>1 DEF OpenedAt

LEMMA AtNow ==
    ASSUME TypesInv, NestInv, NEW old, At(old)
    PROVE  /\ setup \in Setups /\ recorder \in Recorders /\ ~recorder.freed /\ call.step = "none"
           /\ recorder.state_stack \in Seq(StateRecords) /\ recorder.num_states \in Nat
           /\ Nested(setup, contexts, recorder.state_stack, recorder.num_states, <<>>)
           /\ Placed(setup, contexts) /\ contexts[Len(contexts)].at = old /\ old \in AllLabels
           /\ Len(contexts) \in Nat \ {0}
           /\ Len(contexts) = 1 => old \in BaseLabels(setup)
           /\ Len(contexts) # 1 => old \in TaskLabels
<1>1. todo = <<>> /\ ~recorder.freed /\ Last(contexts).at = old
  BY DEF At, TopAt
<1>2. setup \in Setups /\ recorder \in Recorders /\ call.step \in CallSteps
  BY DEF TypesInv, Setups
<1>3. call.step = "none"
  BY <1>1, <1>2 DEF TypesInv, CallSteps
<1>4. /\ Placed(setup, contexts)
      /\ Nested(setup, contexts, recorder.state_stack, recorder.num_states, <<>>)
  BY <1>1, <1>3 DEF NestInv, Left
<1>5. /\ Len(contexts) \in Nat \ {0} /\ Last(contexts) = contexts[Len(contexts)]
      /\ contexts[Len(contexts)].at \in AllLabels
  BY <1>2, <1>4, PlacedParts
<1>6. recorder.state_stack \in Seq(StateRecords) /\ recorder.num_states \in Nat
  BY <1>2, RecorderParts
<1>7. Len(contexts) # 1 => Len(contexts) \in 2 .. Len(contexts)
  <2>1. \A n \in Nat \ {0} : n # 1 => n \in 2 .. n
    OBVIOUS
  <2> QED
    BY <1>5, <2>1
<1> QED
  BY <1>1, <1>2, <1>3, <1>4, <1>5, <1>6, <1>7 DEF Placed

\* The context changes its label, and calls come.
LEMMA GoNests ==
    ASSUME TypesInv, NestInv, NEW old, At(old), NEW label \in AllLabels,
           IF Len(contexts) = 1 THEN label \in BaseLabels(setup) ELSE label \in TaskLabels,
           contexts' = Labelled(contexts, label), UNCHANGED Frame,
           NEW calls, todo' = calls, NEW z \in Views,
           Leads(calls, Seen(OpenedAt(setup, Len(contexts), old), recorder.num_states), z),
           z.open = OpenedAt(setup, Len(contexts), label), z.num + InHand(label) <= MaxStates + 2
    PROVE  NestInv'
<1>1. /\ setup \in Setups /\ ~recorder.freed /\ call.step = "none"
      /\ recorder.state_stack \in Seq(StateRecords) /\ recorder.num_states \in Nat
      /\ Nested(setup, contexts, recorder.state_stack, recorder.num_states, <<>>)
      /\ Placed(setup, contexts) /\ contexts[Len(contexts)].at = old
  BY AtNow
<1>2. Nested(setup, Labelled(contexts, label), recorder.state_stack, recorder.num_states, calls)
  BY <1>1, NestedLabelled
<1>3. Placed(setup, Labelled(contexts, label))
  BY <1>2 DEF Nested
<1>4. recorder.state_stack # <<>> => recorder.this_state = Last(recorder.state_stack).name
  BY <1>1 DEF NestInv
<1> QED
  BY <1>1, <1>2, <1>3, <1>4 DEF NestInv, Frame, Left

\* A task is called on top of the context.
LEMMA ExecutesNests ==
    ASSUME TypesInv, NestInv, NEW old, At(old), NEW label \in {"executed", "created"},
           Len(contexts) = 1 => label \in BaseLabels(setup),
           OpenedAt(setup, Len(contexts), label) = OpenedAt(setup, Len(contexts), old),
           recorder.num_states + 1 <= MaxStates + 2, Executes(label), UNCHANGED Frame
    PROVE  NestInv'
<1>1. /\ setup \in Setups /\ ~recorder.freed /\ call.step = "none"
      /\ recorder.state_stack \in Seq(StateRecords) /\ recorder.num_states \in Nat
      /\ Nested(setup, contexts, recorder.state_stack, recorder.num_states, <<>>)
      /\ contexts[Len(contexts)].at = old
  BY AtNow
<1> DEFINE C == Append(Labelled(contexts, label), Context("user", Len(recorder.state_stack)))
<1>2. Nested(setup, C, recorder.state_stack, recorder.num_states, Prolog("TEXEC"))
  BY <1>1, NestedCalled
<1>3. contexts' = C /\ todo' = Prolog("TEXEC")
  BY DEF Executes, Labelled
<1>4. recorder.state_stack # <<>> => recorder.this_state = Last(recorder.state_stack).name
  BY <1>1 DEF NestInv
<1> HIDE DEF C
<1>5. Placed(setup, C)
  BY <1>2 DEF Nested
<1> QED
  BY <1>1, <1>2, <1>3, <1>4, <1>5 DEF NestInv, Frame, Left

LEMMA BeginNests ==
    ASSUME TypesInv, NestInv, BeginState
    PROVE  NestInv'
<1>1. /\ setup \in Setups /\ recorder \in Recorders /\ ~recorder.freed /\ call.step = "none"
      /\ todo \in Seq(Calling) /\ todo # <<>> /\ Head(todo) \in Names
  BY DEF TypesInv, Setups, BeginState, Calls
<1>2. PICK r \in Recorders, name \in Names : r = recorder /\ name = Head(todo)
  BY <1>1
<1>3. /\ recorder' = state_begin(r, name) /\ todo' = Tail(todo) /\ call' = NoCall
      /\ UNCHANGED <<setup, contexts>>
  BY <1>2 DEF BeginState, CallEnds, UserVars
<1>4. /\ recorder'.state_stack = Append(r.state_stack, Begun(r, name)) /\ Begun(r, name) \in StateRecords
      /\ recorder'.num_states = r.num_states + 1 /\ recorder'.this_state = name
      /\ recorder'.freed = r.freed /\ r.state_stack \in Seq(StateRecords) /\ r.num_states \in Nat
  BY <1>3, BeginFields, RecorderParts DEF SameBuffers
<1>5. Nested(setup, contexts, r.state_stack, r.num_states, todo) /\ Placed(setup, contexts)
  BY <1>1, <1>2 DEF NestInv, Left
<1>6. Begun(r, name).name = name
  BY DEF Begun
<1>7. Nested(setup, contexts, Append(r.state_stack, Begun(r, name)), r.num_states + 1, Tail(todo))
  BY <1>1, <1>2, <1>4, <1>5, <1>6, NestedBegin
<1>8. Last(recorder'.state_stack) = Begun(r, name)
  BY <1>4, AppendFacts
<1>9. Left' = Tail(todo)
  BY <1>3 DEF Left, NoCall
<1> QED
  BY <1>3, <1>4, <1>5, <1>6, <1>7, <1>8, <1>9 DEF NestInv

LEMMA EndNests ==
    ASSUME TypesInv, NestInv, EndState
    PROVE  NestInv' /\ recorder.state_stack # <<>>
<1>1. /\ setup \in Setups /\ recorder \in Recorders /\ ~recorder.freed /\ call.step = "none"
      /\ todo \in Seq(Calling) /\ todo # <<>> /\ Head(todo) = "end"
  BY DEF TypesInv, Setups, EndState, Calls
<1>2. PICK r \in Recorders : r = recorder
  BY <1>1
<1>3. /\ recorder' = pop_state(r) /\ todo' = todo /\ call'.step = "count_state"
      /\ UNCHANGED <<setup, contexts>>
  BY <1>2 DEF EndState, UserVars
<1>4. r.state_stack \in Seq(StateRecords) /\ r.num_states \in Nat
  BY RecorderParts
<1>5. Nested(setup, contexts, r.state_stack, r.num_states, todo) /\ Placed(setup, contexts)
  BY <1>1, <1>2 DEF NestInv, Left
<1>6. r.state_stack # <<>> /\ Nested(setup, contexts, Front(r.state_stack), r.num_states, Tail(todo))
  BY <1>1, <1>4, <1>5, NestedEnd
<1>7. /\ recorder'.state_stack = Front(r.state_stack) /\ recorder'.num_states = r.num_states
      /\ recorder'.freed = r.freed
      /\ recorder'.state_stack # <<>> => recorder'.this_state = Last(recorder'.state_stack).name
  BY <1>3, <1>6, EndFields
<1>8. Left' = Tail(todo)
  BY <1>3 DEF Left
<1> QED
  BY <1>2, <1>3, <1>5, <1>6, <1>7, <1>8 DEF NestInv

LEMMA EventNests ==
    ASSUME TypesInv, NestInv, NoteEvent
    PROVE  NestInv'
<1>1. /\ setup \in Setups /\ recorder \in Recorders /\ ~recorder.freed /\ call.step = "none"
      /\ todo \in Seq(Calling) /\ todo # <<>> /\ Head(todo) = "event"
  BY DEF TypesInv, Setups, NoteEvent, Calls
<1>2. PICK r \in Recorders : r = recorder
  BY <1>1
<1>3. /\ recorder' = note_event(r) /\ todo' = todo /\ call'.step = "count_event"
      /\ UNCHANGED <<setup, contexts>>
  BY <1>2 DEF NoteEvent, UserVars
<1>4. r.state_stack \in Seq(StateRecords) /\ r.num_states \in Nat
  BY RecorderParts
<1>5. Nested(setup, contexts, r.state_stack, r.num_states, todo) /\ Placed(setup, contexts)
  BY <1>1, <1>2 DEF NestInv, Left
<1>6. Nested(setup, contexts, r.state_stack, r.num_states, Tail(todo))
  BY <1>1, <1>4, <1>5, NestedEvent
<1>7. /\ recorder'.state_stack = r.state_stack /\ recorder'.num_states = r.num_states
      /\ recorder'.freed = r.freed /\ recorder'.this_state = r.this_state
  BY <1>3, EventFields
<1>8. Left' = Tail(todo)
  BY <1>3 DEF Left
<1>9. r.state_stack # <<>> => r.this_state = Last(r.state_stack).name
  BY <1>1, <1>2 DEF NestInv
<1> QED
  BY <1>2, <1>3, <1>5, <1>6, <1>7, <1>8, <1>9 DEF NestInv

\* What is left alone by the counting of a call, and by dumps.
LEMMA SameNests ==
    ASSUME NestInv, ~recorder.freed, SameStack(recorder, recorder'), Left' = Left,
           UNCHANGED <<setup, contexts>>
    PROVE  NestInv'
BY DEF NestInv, SameStack

LEMMA FreedNests ==
    ASSUME NestInv, recorder'.freed, UNCHANGED <<setup, contexts>>
    PROVE  NestInv'
BY DEF NestInv

\* The calls of a worker from where it stands.
LEMMA UserNests ==
    ASSUME TypesInv, NestInv, UserStep
    PROVE  NestInv'
<1> DEFINE L == Len(contexts)
           n == recorder.num_states
           o == Own(setup, L)
<1> USE DEF AllLabels, TaskLabels, BaseLabels
<1>1. ASSUME NEW old, At(old)
      PROVE  /\ setup \in Setups /\ n \in Nat /\ L \in Nat \ {0} /\ o \in Seq(StateNames)
             /\ Nested(setup, contexts, recorder.state_stack, n, <<>>) /\ contexts[L].at = old
             /\ L = 1 => old \in BaseLabels(setup)
             /\ L # 1 => old \in TaskLabels
  <2>1. setup \in Setups /\ n \in Nat /\ L \in Nat \ {0}
    BY <1>1, AtNow
  <2>2. o \in Seq(StateNames)
    BY <2>1, OpenedIs
  <2> QED
    BY <1>1, <2>1, <2>2, AtNow
<1>2. ASSUME NEW old, At(old)
      PROVE  n + InHand(old) <= MaxStates + 2
  <2>1. Nested(setup, contexts, recorder.state_stack, n, <<>>) /\ contexts[L].at = old
        /\ setup \in Setups /\ n \in Nat /\ recorder.state_stack \in Seq(StateRecords)
    BY <1>2, AtNow
  <2> QED
    BY <2>1, NestedNow
<1>3. CASE BeginCreate
  <2>1. At("user") /\ n < MaxStates /\ contexts' = Labelled(contexts, "create") /\ todo' = <<"TCREATE">>
        /\ UNCHANGED Frame
    BY <1>3 DEF BeginCreate, MayBegin, Go, Labelled
  <2>2. setup \in Setups /\ n \in Nat /\ L \in Nat \ {0} /\ o \in Seq(StateNames)
        /\ (L = 1 => "user" \in BaseLabels(setup))
    BY <1>1, <2>1
  <2>3. IF L = 1 THEN "create" \in BaseLabels(setup) ELSE "create" \in TaskLabels
    BY <2>2
  <2>4. OpenedAt(setup, L, "user") = o /\ OpenedAt(setup, L, "create") = Append(o, "TCREATE")
    BY <2>2, OpenedIs
  <2>5. "TCREATE" \in Names
    BY DEF Names
  <2> HIDE DEF o, n
  <2>6. PICK z \in Views : z = Seen(Append(o, "TCREATE"), n + 1) /\ Leads(<<"TCREATE">>, Seen(o, n), z)
    BY <2>2, <2>5, BeginLeads
  <2>7. z.open = Append(o, "TCREATE") /\ z.num + InHand("create") <= MaxStates + 2
    BY <2>1, <2>2, <2>6 DEF Seen, InHand
  <2> QED
    BY <2>1, <2>3, <2>4, <2>6, <2>7, GoNests DEF n
<1>4. CASE BeginWait
  <2>1. At("user") /\ n < MaxStates /\ contexts' = Labelled(contexts, "wait") /\ todo' = <<"TSYNC">>
        /\ UNCHANGED Frame
    BY <1>4 DEF BeginWait, MayBegin, Go, Labelled
  <2>2. setup \in Setups /\ n \in Nat /\ L \in Nat \ {0} /\ o \in Seq(StateNames)
        /\ (L = 1 => "user" \in BaseLabels(setup))
    BY <1>1, <2>1
  <2>3. IF L = 1 THEN "wait" \in BaseLabels(setup) ELSE "wait" \in TaskLabels
    BY <2>2
  <2>4. OpenedAt(setup, L, "user") = o /\ OpenedAt(setup, L, "wait") = Append(o, "TSYNC")
    BY <2>2, OpenedIs
  <2>5. "TSYNC" \in Names
    BY DEF Names
  <2> HIDE DEF o, n
  <2>6. PICK z \in Views : z = Seen(Append(o, "TSYNC"), n + 1) /\ Leads(<<"TSYNC">>, Seen(o, n), z)
    BY <2>2, <2>5, BeginLeads
  <2>7. z.open = Append(o, "TSYNC") /\ z.num + InHand("wait") <= MaxStates + 2
    BY <2>1, <2>2, <2>6 DEF Seen, InHand
  <2> QED
    BY <2>1, <2>3, <2>4, <2>6, <2>7, GoNests DEF n
<1>5. CASE Push
  <2>1. At("create") /\ contexts' = Labelled(contexts, "created") /\ todo' = todo /\ todo = <<>>
        /\ UNCHANGED Frame
    BY <1>5 DEF Push, At, Go, Labelled
  <2>2. setup \in Setups /\ n \in Nat /\ L \in Nat \ {0} /\ o \in Seq(StateNames)
        /\ (L = 1 => "create" \in BaseLabels(setup)) /\ n + InHand("create") <= MaxStates + 2
    BY <1>1, <1>2, <2>1
  <2>3. IF L = 1 THEN "created" \in BaseLabels(setup) ELSE "created" \in TaskLabels
    BY <2>2
  <2>4. /\ OpenedAt(setup, L, "create") = Append(o, "TCREATE")
        /\ OpenedAt(setup, L, "created") = Append(o, "TCREATE")
    BY <2>2, OpenedIs
  <2>5. "TCREATE" \in StateNames
    BY DEF Names, StateNames
  <2> HIDE DEF o, n
  <2>6. PICK z \in Views : z = Seen(Append(o, "TCREATE"), n) /\ Leads(<<>>, z, z)
    BY <2>2, <2>5, EndLeads, LeadsNone
  <2>7. z.open = Append(o, "TCREATE") /\ z.num + InHand("created") <= MaxStates + 2
    BY <2>2, <2>6 DEF Seen, InHand
  <2> QED
    BY <2>1, <2>3, <2>4, <2>6, <2>7, GoNests DEF n
<1>6. CASE PushRefused
  <2>1. At("create") /\ n < MaxStates /\ Executes("created") /\ UNCHANGED Frame
    BY <1>6 DEF PushRefused, MayBegin
  <2>2. setup \in Setups /\ n \in Nat /\ L \in Nat \ {0} /\ (L = 1 => "create" \in BaseLabels(setup))
    BY <1>1, <2>1
  <2>3. L = 1 => "created" \in BaseLabels(setup)
    BY <2>2
  <2>4. OpenedAt(setup, L, "create") = OpenedAt(setup, L, "created")
    BY <2>2, OpenedIs
  <2>5. n + 1 <= MaxStates + 2
    BY <2>1, <2>2
  <2> QED
    BY <2>1, <2>3, <2>4, <2>5, ExecutesNests
<1>7. CASE EndCreate
  <2>1. At("created") /\ contexts' = Labelled(contexts, "user") /\ todo' = <<"end">> /\ UNCHANGED Frame
    BY <1>7 DEF EndCreate, Go, Labelled
  <2>2. setup \in Setups /\ n \in Nat /\ L \in Nat \ {0} /\ o \in Seq(StateNames)
        /\ (L = 1 => "created" \in BaseLabels(setup)) /\ n + InHand("created") <= MaxStates + 2
    BY <1>1, <1>2, <2>1
  <2>3. IF L = 1 THEN "user" \in BaseLabels(setup) ELSE "user" \in TaskLabels
    BY <2>2
  <2>4. OpenedAt(setup, L, "created") = Append(o, "TCREATE") /\ OpenedAt(setup, L, "user") = o
    BY <2>2, OpenedIs
  <2>5. "TCREATE" \in StateNames
    BY DEF Names, StateNames
  <2> HIDE DEF o, n
  <2>6. PICK z \in Views : z = Seen(o, n) /\ Leads(<<"end">>, Seen(Append(o, "TCREATE"), n), z)
    BY <2>2, <2>5, EndLeads, SeenIs
  <2>7. z.open = o /\ z.num + InHand("user") <= MaxStates + 2
    BY <2>2, <2>6 DEF Seen, InHand
  <2> QED
    BY <2>1, <2>3, <2>4, <2>6, <2>7, GoNests DEF n
<1>8. CASE EndWait
  <2>1. At("wait") /\ contexts' = Labelled(contexts, "user") /\ todo' = <<"end">> /\ UNCHANGED Frame
    BY <1>8 DEF EndWait, Go, Labelled
  <2>2. setup \in Setups /\ n \in Nat /\ L \in Nat \ {0} /\ o \in Seq(StateNames)
        /\ (L = 1 => "wait" \in BaseLabels(setup)) /\ n + InHand("wait") <= MaxStates + 2
    BY <1>1, <1>2, <2>1
  <2>3. IF L = 1 THEN "user" \in BaseLabels(setup) ELSE "user" \in TaskLabels
    BY <2>2
  <2>4. OpenedAt(setup, L, "wait") = Append(o, "TSYNC") /\ OpenedAt(setup, L, "user") = o
    BY <2>2, OpenedIs
  <2>5. "TSYNC" \in StateNames
    BY DEF Names, StateNames
  <2> HIDE DEF o, n
  <2>6. PICK z \in Views : z = Seen(o, n) /\ Leads(<<"end">>, Seen(Append(o, "TSYNC"), n), z)
    BY <2>2, <2>5, EndLeads, SeenIs
  <2>7. z.open = o /\ z.num + InHand("user") <= MaxStates + 2
    BY <2>2, <2>6 DEF Seen, InHand
  <2> QED
    BY <2>1, <2>3, <2>4, <2>6, <2>7, GoNests DEF n
<1>9. CASE Allocate
  <2>1. At("user") /\ n < MaxStates /\ contexts' = contexts /\ todo' = <<"TMALLOC", "end">>
        /\ UNCHANGED Frame
    BY <1>9 DEF Allocate, MayBegin
  <2>2. setup \in Setups /\ n \in Nat /\ L \in Nat \ {0} /\ o \in Seq(StateNames)
        /\ (L = 1 => "user" \in BaseLabels(setup)) /\ (L # 1 => "user" \in TaskLabels)
    BY <1>1, <2>1
  <2>3. OpenedAt(setup, L, "user") = o
    BY <2>2, OpenedIs
  <2>4. contexts = Labelled(contexts, "user")
    <3>1. contexts \in Seq([at : AllLabels, depth : Nat]) /\ contexts[L].at = "user"
      BY <2>1, AtNow DEF Placed
    <3>2. L \in 1 .. Len(contexts) /\ DOMAIN contexts = 1 .. Len(contexts)
      BY <2>2, <3>1, ListFacts
    <3> DEFINE T == [at : AllLabels, depth : Nat]
    <3>3. contexts[L] \in T /\ contexts = [i \in 1 .. Len(contexts) |-> contexts[i]]
      <4>1. contexts \in Seq(T)
        BY <3>1
      <4> HIDE DEF T
      <4>2. contexts = [i \in 1 .. Len(contexts) |-> contexts[i]] /\ \A i \in 1 .. Len(contexts) : contexts[i] \in T
        BY <4>1
      <4> QED
        BY <3>2, <4>2
    <3>4. [contexts[L] EXCEPT !.at = "user"] = contexts[L]
      BY <3>1, <3>3
    <3> HIDE DEF T
    <3>5. [contexts EXCEPT ![L] = contexts[L]] = contexts
      BY <3>3
    <3>6. Labelled(contexts, "user") = [contexts EXCEPT ![L] = [contexts[L] EXCEPT !.at = "user"]]
      BY DEF Labelled
    <3> QED
      BY <3>4, <3>5, <3>6
  <2>5. "TMALLOC" \in Names /\ "TMALLOC" \in StateNames
    BY DEF Names, StateNames
  <2> HIDE DEF o, n
  <2>6. PICK z \in Views : z = Seen(o, n + 1) /\ Leads(<<"TMALLOC", "end">>, Seen(o, n), z)
    <3>1. n + 1 \in Nat
      BY <2>2
    <3>2. /\ Leads(<<"TMALLOC">>, Seen(o, n), Seen(Append(o, "TMALLOC"), n + 1))
          /\ Seen(Append(o, "TMALLOC"), n + 1) \in Views /\ Seen(o, n) \in Views
      BY <2>2, <2>5, BeginLeads, SeenIs
    <3>3. /\ Leads(<<"end">>, Seen(Append(o, "TMALLOC"), n + 1), Seen(o, n + 1))
          /\ Seen(o, n + 1) \in Views
      BY <2>2, <2>5, <3>1, EndLeads, SeenIs
    <3>4. /\ <<"TMALLOC">> \in Seq(Calling) /\ <<"end">> \in Seq(Calling)
          /\ <<"TMALLOC">> \o <<"end">> = <<"TMALLOC", "end">>
      BY <2>5, CallLists
    <3>5. Leads(<<"TMALLOC">> \o <<"end">>, Seen(o, n), Seen(o, n + 1))
      BY <3>2, <3>3, <3>4, LeadsOn
    <3> QED
      BY <3>3, <3>4, <3>5
  <2>7. z.open = o /\ z.num + InHand("user") <= MaxStates + 2
    BY <2>1, <2>2, <2>6 DEF Seen, InHand
  <2> QED
    BY <2>1, <2>2, <2>3, <2>4, <2>6, <2>7, GoNests DEF n
<1> QED
  BY <1>3, <1>4, <1>5, <1>6, <1>7, <1>8, <1>9 DEF UserStep

LEMMA IdleIs == Idle(setup) \in Seq(StateNames) /\ <<>> \o Idle(setup) = Idle(setup)
<1>1. <<>> \in Seq(StateNames) /\ \A x \in StateNames : <<x>> \in Seq(StateNames)
  OBVIOUS
<1>2. "TIMPLICIT" \in StateNames
  BY DEF StateNames, Names
<1>3. Idle(setup) \in Seq(StateNames)
  BY <1>1, <1>2 DEF Idle
<1> QED
  BY <1>3, JoinEmpty

\* Of an idle task, the state and its prolog and epilog.
LEMMA IdleLeads ==
    ASSUME NEW o \in Seq(StateNames), NEW n \in Nat, setup \in Setups
    PROVE  /\ IdleProlog \in Seq(Calling) /\ IdleEpilog \in Seq(Calling)
           /\ o \o Idle(setup) \in Seq(StateNames)
           /\ Leads(IdleEpilog, Seen(o \o Idle(setup), n), Seen(o, n))
           /\ \E m \in {n, n + 1} : Leads(IdleProlog, Seen(o, n), Seen(o \o Idle(setup), m))
<1>1. <<>> \in Seq(Calling) /\ Leads(<<>>, Seen(o, n), Seen(o, n)) /\ o \o <<>> = o
  BY SeenIs, LeadsNone, JoinEmpty
<1>2. "TIMPLICIT" \in Names /\ "TIMPLICIT" \in StateNames
  BY DEF Names, StateNames
<1>3. o \o <<"TIMPLICIT">> = Append(o, "TIMPLICIT") /\ Append(o, "TIMPLICIT") \in Seq(StateNames)
  <2>1. <<>> \in Seq(StateNames) /\ Append(<<>>, "TIMPLICIT") = <<"TIMPLICIT">>
    OBVIOUS
  <2>2. o \o Append(<<>>, "TIMPLICIT") = Append(o \o <<>>, "TIMPLICIT")
    BY <1>2, <2>1, JoinAppend
  <2> QED
    BY <1>1, <1>2, <2>1, <2>2, AppendFacts
<1>4. /\ Leads(Epilog, Seen(Append(o, "TIMPLICIT"), n), Seen(o, n)) /\ Epilog \in Seq(Calling)
      /\ Leads(Prolog("TIMPLICIT"), Seen(o, n), Seen(Append(o, "TIMPLICIT"), n + 1))
      /\ Prolog("TIMPLICIT") \in Seq(Calling)
  BY <1>2, EpilogLeads, PrologLeads
<1>5. CASE setup.idle_task
  BY <1>3, <1>4, <1>5 DEF IdleProlog, IdleEpilog, Idle
<1>6. CASE ~setup.idle_task
  BY <1>1, <1>6 DEF IdleProlog, IdleEpilog, Idle
<1> QED
  BY <1>5, <1>6

LEMMA WorkerNests ==
    ASSUME TypesInv, NestInv, WorkerStep
    PROVE  NestInv'
<1> DEFINE L == Len(contexts)
           n == recorder.num_states
           o == Own(setup, L)
<1> USE DEF AllLabels, TaskLabels, BaseLabels
<1>1. ASSUME NEW old, At(old)
      PROVE  /\ setup \in Setups /\ n \in Nat /\ L \in Nat \ {0} /\ o \in Seq(StateNames)
             /\ contexts[L].at = old
             /\ L = 1 => old \in BaseLabels(setup)
             /\ L # 1 => old \in TaskLabels
             /\ n + InHand(old) <= MaxStates + 2
  <2>1. setup \in Setups /\ n \in Nat /\ L \in Nat \ {0}
    BY <1>1, AtNow
  <2>2. o \in Seq(StateNames)
    BY <2>1, OpenedIs
  <2>3. Nested(setup, contexts, recorder.state_stack, n, <<>>) /\ contexts[L].at = old
        /\ recorder.state_stack \in Seq(StateRecords)
    BY <1>1, AtNow
  <2>4. n + InHand(old) <= MaxStates + 2
    BY <2>1, <2>3, NestedNow
  <2> QED
    BY <1>1, <2>1, <2>2, <2>4, AtNow
<1>2. CASE Take
  <2>1. PICK old \in {"loop", "wait"} : At(old)
    BY <1>2 DEF Take
  <2>2. n < MaxStates /\ contexts' = Labelled(contexts, "popped") /\ todo' = <<>> /\ UNCHANGED Frame
    BY <1>2, <2>1 DEF Take, MayBegin, Go, Labelled, At
  <2>3. setup \in Setups /\ n \in Nat /\ L \in Nat \ {0} /\ o \in Seq(StateNames)
        /\ (L = 1 => old \in BaseLabels(setup)) /\ (L # 1 => old \in TaskLabels)
    BY <1>1, <2>1
  <2>4. IF L = 1 THEN "popped" \in BaseLabels(setup) ELSE "popped" \in TaskLabels
    OBVIOUS
  <2>5. OpenedAt(setup, L, "popped") = OpenedAt(setup, L, old)
    <3>1. CASE old = "loop"
      <4>1. L = 1 /\ ~setup.main
        BY <2>3, <3>1
      <4> QED
        BY <3>1, <4>1, <2>3, OpenedIs
    <3>2. CASE old = "wait"
      <4>1. L > 1 \/ setup.main
        <5>1. \A m \in Nat \ {0} : m = 1 \/ m > 1
          OBVIOUS
        <5>2. L = 1 => setup.main
          BY <2>3, <3>2
        <5> QED
          BY <2>3, <5>1, <5>2
      <4> QED
        BY <3>2, <4>1, <2>3, OpenedIs
    <3> QED
      BY <3>1, <3>2
  <2>6. OpenedAt(setup, L, old) \in Seq(StateNames)
    BY <2>1, <2>3, OpenedFacts
  <2>7. PICK z \in Views : z = Seen(OpenedAt(setup, L, old), n) /\ Leads(<<>>, z, z)
    BY <2>3, <2>6, SeenIs, LeadsNone
  <2>8. z.open = OpenedAt(setup, L, "popped") /\ z.num + InHand("popped") <= MaxStates + 2
    BY <2>2, <2>3, <2>5, <2>7 DEF Seen, InHand
  <2> QED
    BY <2>1, <2>2, <2>4, <2>7, <2>8, GoNests
<1>3. CASE Execute
  <2>1. At("popped") /\ Executes("executed") /\ UNCHANGED Frame
    BY <1>3 DEF Execute
  <2>2. setup \in Setups /\ n \in Nat /\ L \in Nat \ {0} /\ n + InHand("popped") <= MaxStates + 2
    BY <1>1, <2>1
  <2>3. L = 1 => "executed" \in BaseLabels(setup)
    OBVIOUS
  <2>4. OpenedAt(setup, L, "popped") = OpenedAt(setup, L, "executed")
    BY <2>2, OpenedIs
  <2>5. n + 1 <= MaxStates + 2
    BY <2>2 DEF InHand
  <2> QED
    BY <2>1, <2>3, <2>4, <2>5, ExecutesNests
<1>4. CASE EndTask
  <2>1. At("user") /\ L # 1 /\ contexts' = Front(contexts) /\ todo' = Epilog /\ UNCHANGED Frame
    BY <1>4 DEF EndTask, InBase
  <2>2. /\ setup \in Setups /\ ~recorder.freed /\ call.step = "none"
        /\ recorder.state_stack \in Seq(StateRecords) /\ recorder.num_states \in Nat
        /\ Nested(setup, contexts, recorder.state_stack, recorder.num_states, <<>>)
        /\ contexts[L].at = "user"
    BY <2>1, AtNow
  <2>3. Nested(setup, Front(contexts), recorder.state_stack, recorder.num_states, Epilog)
    BY <2>1, <2>2, NestedReturned
  <2>4. Placed(setup, Front(contexts))
    BY <2>3 DEF Nested
  <2>5. recorder.state_stack # <<>> => recorder.this_state = Last(recorder.state_stack).name
    BY <2>2 DEF NestInv
  <2> QED
    BY <2>1, <2>2, <2>3, <2>4, <2>5 DEF NestInv, Frame, Left
<1>5. CASE NotBusy
  <2>1. PICK label \in {"loop", "wait"} : label = IF L = 1 /\ ~setup.main THEN "loop" ELSE "wait"
    OBVIOUS
  <2>2. At("executed") /\ contexts' = Labelled(contexts, label) /\ todo' = <<>> /\ UNCHANGED Frame
    BY <1>5, <2>1 DEF NotBusy, Go, Labelled, At, InBase
  <2>3. /\ setup \in Setups /\ n \in Nat /\ L \in Nat \ {0} /\ o \in Seq(StateNames)
        /\ n + InHand("executed") <= MaxStates + 2
    BY <1>1, <2>2
  <2>4. IF L = 1 THEN label \in BaseLabels(setup) ELSE label \in TaskLabels
    BY <2>1
  <2>5. OpenedAt(setup, L, label) = OpenedAt(setup, L, "executed")
    <3>1. CASE L = 1 /\ ~setup.main
      <4>1. label = "loop" /\ ~(L > 1 \/ setup.main)
        BY <2>1, <3>1
      <4> QED
        BY <4>1, <2>3, OpenedIs
    <3>2. CASE ~(L = 1 /\ ~setup.main)
      <4>1. label = "wait" /\ (L > 1 \/ setup.main)
        <5>1. \A m \in Nat \ {0} : m = 1 \/ m > 1
          OBVIOUS
        <5>2. label = "wait" /\ (L = 1 => setup.main)
          BY <2>1, <3>2
        <5> QED
          BY <2>3, <5>1, <5>2
      <4> QED
        BY <4>1, <2>3, OpenedIs
    <3> QED
      BY <3>1, <3>2
  <2>6. OpenedAt(setup, L, "executed") \in Seq(StateNames)
    BY <2>3, OpenedFacts
  <2>7. PICK z \in Views : z = Seen(OpenedAt(setup, L, "executed"), n) /\ Leads(<<>>, z, z)
    BY <2>3, <2>6, SeenIs, LeadsNone
  <2>8. z.open = OpenedAt(setup, L, label) /\ z.num + InHand(label) <= MaxStates + 2
    BY <2>3, <2>5, <2>7 DEF Seen, InHand
  <2> QED
    BY <2>2, <2>4, <2>7, <2>8, GoNests
<1>6. CASE SeeDying
  <2>1. At("loop") /\ contexts' = Labelled(contexts, "dead") /\ todo' = IdleEpilog \o Epilog /\ UNCHANGED Frame
    BY <1>6 DEF SeeDying, Go, Labelled
  <2>2. /\ setup \in Setups /\ n \in Nat /\ L = 1 /\ ~setup.main
        /\ n + InHand("loop") <= MaxStates + 2
    BY <1>1, <2>1
  <2>3. IF L = 1 THEN "dead" \in BaseLabels(setup) ELSE "dead" \in TaskLabels
    BY <2>2
  <2>4. OpenedAt(setup, L, "loop") = <<"TIDLE">> \o Idle(setup) /\ OpenedAt(setup, L, "dead") = <<>>
    BY <2>2 DEF OpenedAt, Own
  <2>5. /\ <<"TIDLE">> \in Seq(StateNames) /\ <<>> \in Seq(StateNames) /\ "TIDLE" \in StateNames
        /\ Append(<<>>, "TIDLE") = <<"TIDLE">>
    BY DEF StateNames, Names
  <2> HIDE DEF n
  <2>6. PICK z \in Views : z = Seen(<<>>, n) /\ Leads(IdleEpilog \o Epilog, Seen(<<"TIDLE">> \o Idle(setup), n), z)
    <3>1. /\ Leads(IdleEpilog, Seen(<<"TIDLE">> \o Idle(setup), n), Seen(<<"TIDLE">>, n))
          /\ IdleEpilog \in Seq(Calling) /\ <<"TIDLE">> \o Idle(setup) \in Seq(StateNames)
      BY <2>2, <2>5, IdleLeads
    <3>2. Leads(Epilog, Seen(<<"TIDLE">>, n), Seen(<<>>, n)) /\ Epilog \in Seq(Calling)
      BY <2>2, <2>5, EpilogLeads
    <3>3. PICK v \in Views, u \in Views, z \in Views :
            v = Seen(<<"TIDLE">> \o Idle(setup), n) /\ u = Seen(<<"TIDLE">>, n) /\ z = Seen(<<>>, n)
      <4>1. Seen(<<"TIDLE">> \o Idle(setup), n) \in Views /\ Seen(<<"TIDLE">>, n) \in Views /\ Seen(<<>>, n) \in Views
        BY <2>2, <2>5, <3>1, SeenIs
      <4> QED
        BY <4>1, Zenon
    <3>4. Leads(IdleEpilog \o Epilog, v, z)
      BY <3>1, <3>2, <3>3, LeadsOn
    <3> QED
      BY <3>3, <3>4
  <2>7. z.open = <<>> /\ z.num + InHand("dead") <= MaxStates + 2
    BY <2>2, <2>6 DEF Seen, InHand
  <2> QED
    BY <2>1, <2>3, <2>4, <2>6, <2>7, GoNests DEF n
<1> QED
  BY <1>2, <1>3, <1>4, <1>5, <1>6 DEF WorkerStep

\* The main program comes to mir_destroy.
LEMMA DestroyNests ==
    ASSUME TypesInv, NestInv, CallDestroy
    PROVE  NestInv'
<1> DEFINE L == Len(contexts)
           n == recorder.num_states
<1> USE DEF AllLabels, TaskLabels, BaseLabels
<1>1. /\ At("user") /\ L = 1 /\ setup.main /\ contexts' = Labelled(contexts, "destroy")
      /\ todo' = Append(IdleEpilog, "event") /\ UNCHANGED Frame
  BY DEF CallDestroy, InBase, Go, Labelled
<1>2. /\ setup \in Setups /\ n \in Nat /\ recorder.state_stack \in Seq(StateRecords)
      /\ Nested(setup, contexts, recorder.state_stack, n, <<>>) /\ contexts[L].at = "user"
  BY <1>1, AtNow
<1>3. n + InHand("user") <= MaxStates + 2
  BY <1>2, NestedNow
<1>4. IF L = 1 THEN "destroy" \in BaseLabels(setup) ELSE "destroy" \in TaskLabels
  BY <1>1
<1>5. <<>> \in Seq(StateNames)
  OBVIOUS
<1>6. /\ IdleEpilog \in Seq(Calling) /\ <<>> \o Idle(setup) \in Seq(StateNames)
      /\ Leads(IdleEpilog, Seen(<<>> \o Idle(setup), n), Seen(<<>>, n))
  BY <1>2, <1>5, IdleLeads
<1>7. Idle(setup) \in Seq(StateNames)
  BY IdleIs
<1>8. <<>> \o Idle(setup) = Idle(setup)
  BY IdleIs
<1>9. OpenedAt(setup, L, "user") = Idle(setup) /\ OpenedAt(setup, L, "destroy") = <<>>
  BY <1>1 DEF OpenedAt, Own
<1> HIDE DEF n
<1>10. PICK z \in Views : z = Seen(<<>>, n) /\ Leads(Append(IdleEpilog, "event"), Seen(Idle(setup), n), z)
  <2>1. PICK v \in Views, z \in Views : v = Seen(Idle(setup), n) /\ z = Seen(<<>>, n)
    <3>1. Seen(Idle(setup), n) \in Views /\ Seen(<<>>, n) \in Views
      BY <1>2, <1>5, <1>7, SeenIs
    <3> QED
      BY <3>1, Zenon
  <2>2. Leads(<<"event">>, z, z) /\ Leads(IdleEpilog, v, z)
    BY <1>6, <1>8, <2>1, EventLeads
  <2>3. <<"event">> \in Seq(Calling) /\ "event" \in Calling
    BY CallLists
  <2>4. IdleEpilog \o <<"event">> = Append(IdleEpilog, "event")
    <3>1. <<>> \in Seq(Calling) /\ Append(<<>>, "event") = <<"event">>
      OBVIOUS
    <3>2. IdleEpilog \o Append(<<>>, "event") = Append(IdleEpilog \o <<>>, "event") /\ IdleEpilog \o <<>> = IdleEpilog
      BY <1>6, <2>3, <3>1, JoinAppend, JoinEmpty
    <3> QED
      BY <3>1, <3>2
  <2>5. Leads(IdleEpilog \o <<"event">>, v, z)
    BY <1>6, <2>2, <2>3, LeadsOn
  <2> QED
    BY <2>1, <2>4, <2>5
<1>11. z.open = <<>> /\ z.num + InHand("destroy") <= MaxStates + 2
  BY <1>2, <1>3, <1>10 DEF Seen, InHand
<1> QED
  BY <1>1, <1>4, <1>9, <1>10, <1>11, GoNests DEF n
-----------------------------------------------------------------------------
(* Types and heads *)

CallPlaces == [step : CallSteps, head : Slots]
DumpPlaces == [Dumpers -> [step : DumpSteps, i : Slots]]

LEMMA StepTypes ==
    /\ NoCall \in CallPlaces /\ NoCall.step = "none" /\ [step |-> "none", i |-> 0] = NoDump
    /\ \A step \in CallSteps, head \in Slots :
            /\ [step |-> step, head |-> head] \in CallPlaces
            /\ [step |-> step, head |-> head].step = step /\ [step |-> step, head |-> head].head = head
    /\ \A c \in CallPlaces, step \in CallSteps :
            /\ [c EXCEPT !.step = step] \in CallPlaces
            /\ [c EXCEPT !.step = step].step = step /\ [c EXCEPT !.step = step].head = c.head
<1>1. 0 \in Slots
  BY DEF Slots
<1> QED
  BY <1>1 DEF NoCall, NoDump, CallPlaces, CallSteps

\* A dump that has gone on to a step.
\* What calls, dumps and phases say of each other.
Parts(c, d, p, calls) ==
    /\ d["mir_destroy"].step # "none" <=> p = "dump"
    /\ d["worker"].step # "none" <=> c.step = "dump"
    /\ c.step \in {"count_state", "check_state"} => calls # <<>> /\ Head(calls) = "end"
    /\ c.step \in {"count_event", "check_event"} => calls # <<>> /\ Head(calls) = "event"
    /\ c.step = "dump" => calls # <<>> /\ Head(calls) \in {"end", "event"}
HeadsOk(r, c, d) ==
    /\ c.step \notin {"check_state", "dump"} => r.state_buffer_head + 2 <= BufferMax
    /\ c.step \notin {"check_event", "dump"} => r.event_buffer_head + 2 <= BufferMax
    /\ d["worker"].step = "rewind_states" => r.event_buffer_head + 2 <= BufferMax
    /\ c.step \in {"count_state", "count_event"} => c.head + 2 <= BufferMax
Phases == {"alive", "dying", "dump", "dumped", "freed"}

LEMMA TypesAre ==
    /\ TypesInv <=> /\ setup \in Setups /\ recorder \in Recorders /\ todo \in Seq(Calling)
                    /\ call \in CallPlaces /\ dump \in DumpPlaces /\ phase \in Phases
                    /\ recorder.freed <=> phase = "freed"
                    /\ Parts(call, dump, phase, todo)
    /\ HeadsInv <=> (~recorder.freed => HeadsOk(recorder, call, dump))
BY DEF TypesInv, HeadsInv, Parts, HeadsOk, Setups, CallPlaces, DumpPlaces, Phases

LEMMA TypesStep ==
    ASSUME setup' \in Setups, recorder' \in Recorders, todo' \in Seq(Calling),
           call' \in CallPlaces, dump' \in DumpPlaces, phase' \in Phases,
           recorder'.freed <=> phase' = "freed", Parts(call', dump', phase', todo'),
           ~recorder'.freed => HeadsOk(recorder', call', dump')
    PROVE  TypesInv' /\ HeadsInv'
BY DEF TypesInv, HeadsInv, Parts, HeadsOk, Setups, CallPlaces, DumpPlaces, Phases

LEMMA TailTypes ==
    ASSUME NEW S, NEW s \in Seq(S), s # <<>>
    PROVE  Tail(s) \in Seq(S) /\ Head(s) \in S
OBVIOUS

LEMMA BeginTypes ==
    ASSUME TypesInv, HeadsInv, BeginState
    PROVE  TypesInv' /\ HeadsInv'
<1>1. /\ setup \in Setups /\ recorder \in Recorders /\ todo \in Seq(Calling)
      /\ call \in CallPlaces /\ dump \in DumpPlaces /\ phase \in Phases
      /\ recorder.freed <=> phase = "freed"
      /\ Parts(call, dump, phase, todo) /\ (~recorder.freed => HeadsOk(recorder, call, dump))
  BY TypesAre
<1>2. /\ todo # <<>> /\ call.step = "none" /\ ~recorder.freed /\ Head(todo) \in Names
      /\ recorder' = state_begin(recorder, Head(todo)) /\ todo' = Tail(todo) /\ call' = NoCall
      /\ UNCHANGED <<setup, phase, dump>>
  BY DEF BeginState, Calls, CallEnds, UserVars
<1>3. recorder' \in Recorders /\ SameBuffers(recorder, recorder')
  BY <1>1, <1>2, BeginFields
<1>4. todo' \in Seq(Calling) /\ call' \in CallPlaces /\ call'.step = "none"
  BY <1>1, <1>2, TailTypes, StepTypes
<1>5. Parts(call', dump', phase', todo')
  BY <1>1, <1>2, <1>4 DEF Parts
<1>6. HeadsOk(recorder', call', dump')
  BY <1>1, <1>2, <1>3, <1>4 DEF HeadsOk, SameBuffers
<1>7. recorder'.freed = recorder.freed
  BY <1>3 DEF SameBuffers
<1> QED
  BY <1>1, <1>2, <1>3, <1>4, <1>5, <1>6, <1>7, TypesStep

LEMMA EndTypes ==
    ASSUME TypesInv, HeadsInv, EndState, recorder.state_stack # <<>>
    PROVE  TypesInv' /\ HeadsInv'
<1>1. /\ setup \in Setups /\ recorder \in Recorders /\ todo \in Seq(Calling)
      /\ call \in CallPlaces /\ dump \in DumpPlaces /\ phase \in Phases
      /\ recorder.freed <=> phase = "freed"
      /\ Parts(call, dump, phase, todo) /\ (~recorder.freed => HeadsOk(recorder, call, dump))
  BY TypesAre
<1>2. PICK r \in Recorders : r = recorder /\ r.state_stack # <<>>
  BY <1>1
<1>3. /\ todo # <<>> /\ call.step = "none" /\ ~r.freed /\ Head(todo) = "end"
      /\ recorder' = pop_state(r) /\ call' = [step |-> "count_state", head |-> r.state_buffer_head]
      /\ UNCHANGED <<setup, phase, dump, todo>>
  BY <1>2 DEF EndState, Calls, UserVars
<1>4. /\ recorder' \in Recorders /\ recorder'.freed = r.freed
      /\ recorder'.state_buffer_head = r.state_buffer_head /\ recorder'.event_buffer_head = r.event_buffer_head
  BY <1>2, <1>3, EndFields
<1>5. call' \in CallPlaces /\ call'.step = "count_state" /\ call'.head = r.state_buffer_head
  BY <1>3, StepTypes, RecorderParts DEF CallSteps
<1>6. Parts(call', dump', phase', todo')
  BY <1>1, <1>3, <1>5 DEF Parts
<1>7. HeadsOk(recorder', call', dump')
  BY <1>1, <1>2, <1>3, <1>4, <1>5 DEF HeadsOk
<1> QED
  BY <1>1, <1>2, <1>3, <1>4, <1>5, <1>6, <1>7, TypesStep

LEMMA EventTypes ==
    ASSUME TypesInv, HeadsInv, NoteEvent
    PROVE  TypesInv' /\ HeadsInv'
<1>1. /\ setup \in Setups /\ recorder \in Recorders /\ todo \in Seq(Calling)
      /\ call \in CallPlaces /\ dump \in DumpPlaces /\ phase \in Phases
      /\ recorder.freed <=> phase = "freed"
      /\ Parts(call, dump, phase, todo) /\ (~recorder.freed => HeadsOk(recorder, call, dump))
  BY TypesAre
<1>2. PICK r \in Recorders : r = recorder
  BY <1>1
<1>3. /\ todo # <<>> /\ call.step = "none" /\ ~r.freed /\ Head(todo) = "event"
      /\ recorder' = note_event(r) /\ call' = [step |-> "count_event", head |-> r.event_buffer_head]
      /\ UNCHANGED <<setup, phase, dump, todo>>
  BY <1>2 DEF NoteEvent, Calls, UserVars
<1>4. /\ recorder' \in Recorders /\ recorder'.freed = r.freed
      /\ recorder'.state_buffer_head = r.state_buffer_head /\ recorder'.event_buffer_head = r.event_buffer_head
  BY <1>2, <1>3, EventFields
<1>5. call' \in CallPlaces /\ call'.step = "count_event" /\ call'.head = r.event_buffer_head
  BY <1>3, StepTypes, RecorderParts DEF CallSteps
<1>6. Parts(call', dump', phase', todo')
  BY <1>1, <1>3, <1>5 DEF Parts
<1>7. HeadsOk(recorder', call', dump')
  BY <1>1, <1>2, <1>3, <1>4, <1>5 DEF HeadsOk
<1> QED
  BY <1>1, <1>2, <1>3, <1>4, <1>5, <1>6, <1>7, TypesStep

\* The head that is increased, read before or now.
LEMMA CountTypes ==
    ASSUME TypesInv, HeadsInv, CountState \/ CountEvent
    PROVE  TypesInv' /\ HeadsInv' /\ SameStack(recorder, recorder')
<1>1. /\ setup \in Setups /\ recorder \in Recorders /\ todo \in Seq(Calling)
      /\ call \in CallPlaces /\ dump \in DumpPlaces /\ phase \in Phases
      /\ recorder.freed <=> phase = "freed"
      /\ Parts(call, dump, phase, todo) /\ (~recorder.freed => HeadsOk(recorder, call, dump))
  BY TypesAre
<1>2. PICK r \in Recorders : r = recorder
  BY <1>1
<1>3. call.head \in Slots /\ r.state_buffer_head \in Slots /\ r.event_buffer_head \in Slots
  BY <1>1, RecorderParts DEF CallPlaces
<1>4. CASE CountState
  <2>1. call.step = "count_state" /\ ~r.freed /\ UNCHANGED <<setup, phase, dump, todo>>
        /\ call' = [call EXCEPT !.step = "check_state"]
    BY <1>2, <1>4 DEF CountState, UserVars
  <2>2. PICK h \in Slots : recorder' = count_state(r, h) /\ h + 2 <= BufferMax
    BY <1>1, <1>2, <1>3, <1>4, <2>1 DEF CountState, HeadsOk
  <2>3. /\ recorder' \in Recorders /\ SameStack(r, recorder')
        /\ recorder'.event_buffer_head = r.event_buffer_head
    BY <2>2, CountFields
  <2>4. call' \in CallPlaces /\ call'.step = "check_state" /\ recorder'.freed = r.freed
    BY <1>1, <2>1, <2>3, StepTypes DEF CallSteps, SameStack
  <2>5. Parts(call', dump', phase', todo')
    BY <1>1, <2>1, <2>4 DEF Parts
  <2>6. HeadsOk(recorder', call', dump')
    BY <1>1, <1>2, <2>1, <2>3, <2>4 DEF HeadsOk
  <2> QED
    BY <1>1, <1>2, <2>1, <2>3, <2>4, <2>5, <2>6, TypesStep
<1>5. CASE CountEvent
  <2>1. call.step = "count_event" /\ ~r.freed /\ UNCHANGED <<setup, phase, dump, todo>>
        /\ call' = [call EXCEPT !.step = "check_event"]
    BY <1>2, <1>5 DEF CountEvent, UserVars
  <2>2. PICK h \in Slots : recorder' = count_event(r, h) /\ h + 2 <= BufferMax
    BY <1>1, <1>2, <1>3, <1>5, <2>1 DEF CountEvent, HeadsOk
  <2>3. /\ recorder' \in Recorders /\ SameStack(r, recorder')
        /\ recorder'.state_buffer_head = r.state_buffer_head
    BY <2>2, CountFields
  <2>4. call' \in CallPlaces /\ call'.step = "check_event" /\ recorder'.freed = r.freed
    BY <1>1, <2>1, <2>3, StepTypes DEF CallSteps, SameStack
  <2>5. Parts(call', dump', phase', todo')
    BY <1>1, <2>1, <2>4 DEF Parts
  <2>6. dump'["worker"].step = "none"
    BY <1>1, <2>1 DEF Parts
  <2>7. HeadsOk(recorder', call', dump')
    BY <1>1, <1>2, <2>1, <2>3, <2>4, <2>6 DEF HeadsOk
  <2> QED
    BY <1>1, <1>2, <2>1, <2>3, <2>4, <2>5, <2>7, TypesStep
<1> QED
  BY <1>4, <1>5

LEMMA CheckTypes ==
    ASSUME TypesInv, HeadsInv, CheckFull
    PROVE  TypesInv' /\ HeadsInv'
<1>1. /\ setup \in Setups /\ recorder \in Recorders /\ todo \in Seq(Calling)
      /\ call \in CallPlaces /\ dump \in DumpPlaces /\ phase \in Phases
      /\ recorder.freed <=> phase = "freed"
      /\ Parts(call, dump, phase, todo) /\ (~recorder.freed => HeadsOk(recorder, call, dump))
  BY TypesAre
<1>2. /\ call.step \in {"check_state", "check_event"} /\ ~recorder.freed
      /\ UNCHANGED <<setup, phase, recorder>> /\ HeadsOk(recorder, call, dump)
      /\ todo # <<>> /\ Head(todo) \in {"end", "event"}
  BY <1>1 DEF CheckFull, UserVars, Parts
<1>3. CASE NearFull
  <2>1. /\ call' = [call EXCEPT !.step = "dump"] /\ todo' = todo
        /\ dump' = [dump EXCEPT !["worker"] = [step |-> "states", i |-> 0]]
    BY <1>3 DEF CheckFull
  <2>2. call' \in CallPlaces /\ call'.step = "dump"
    BY <1>1, <2>1, StepTypes DEF CallSteps
  <2>3. 0 \in Slots /\ "states" \in DumpSteps /\ "worker" \in Dumpers /\ "mir_destroy" \in Dumpers
    BY DEF Slots, DumpSteps, Dumpers
  <2>4. /\ dump' \in DumpPlaces /\ dump'["worker"].step = "states"
        /\ dump'["mir_destroy"] = dump["mir_destroy"]
    BY <1>1, <2>1, <2>3 DEF DumpPlaces
  <2>5. Parts(call', dump', phase', todo')
    BY <1>1, <1>2, <2>1, <2>2, <2>4 DEF Parts
  <2>6. HeadsOk(recorder', call', dump')
    BY <2>2, <2>4 DEF HeadsOk
  <2> QED
    BY <1>1, <1>2, <2>1, <2>2, <2>4, <2>5, <2>6, TypesStep
<1>4. CASE ~NearFull
  <2>1. todo' = Tail(todo) /\ call' = NoCall /\ dump' = dump
    BY <1>4 DEF CheckFull, CallEnds
  <2>2. call' \in CallPlaces /\ call'.step = "none" /\ todo' \in Seq(Calling)
    BY <1>1, <1>2, <2>1, StepTypes, TailTypes
  <2>3. dump["worker"].step = "none"
    BY <1>1, <1>2 DEF Parts
  <2>4. Parts(call', dump', phase', todo')
    BY <1>1, <1>2, <2>1, <2>2, <2>3 DEF Parts
  <2>5. recorder.state_buffer_head + 2 <= BufferMax /\ recorder.event_buffer_head + 2 <= BufferMax
    <3>1. \A h \in Slots : h = BufferMax - 1 \/ h + 2 <= BufferMax
      BY DEF Slots
    <3>2. recorder.state_buffer_head \in Slots /\ recorder.event_buffer_head \in Slots
      BY <1>1, RecorderParts
    <3> QED
      BY <1>2, <1>4, <3>1, <3>2 DEF NearFull, HeadsOk
  <2>6. HeadsOk(recorder', call', dump')
    BY <1>2, <2>1, <2>2, <2>3, <2>5 DEF HeadsOk
  <2> QED
    BY <1>1, <1>2, <2>1, <2>2, <2>4, <2>6, TypesStep
<1> QED
  BY <1>3, <1>4

LEMMA FreedTypes ==
    ASSUME TypesInv, CallFreed
    PROVE  TypesInv' /\ HeadsInv' /\ recorder'.freed
<1>1. /\ setup \in Setups /\ recorder \in Recorders /\ todo \in Seq(Calling)
      /\ call \in CallPlaces /\ dump \in DumpPlaces /\ phase \in Phases
      /\ recorder.freed <=> phase = "freed"
      /\ Parts(call, dump, phase, todo)
  BY TypesAre
<1>2. /\ todo # <<>> /\ recorder.freed /\ todo' = Tail(todo) /\ call' = NoCall
      /\ dump' = [dump EXCEPT !["worker"] = NoDump] /\ UNCHANGED <<setup, phase, recorder>>
  BY DEF CallFreed, CallEnds, UserVars
<1>3. 0 \in Slots /\ "none" \in DumpSteps /\ "worker" \in Dumpers /\ "mir_destroy" \in Dumpers
  BY DEF Slots, DumpSteps, Dumpers
<1>4. /\ dump' \in DumpPlaces /\ dump'["worker"].step = "none"
      /\ dump'["mir_destroy"] = dump["mir_destroy"]
  BY <1>1, <1>2, <1>3 DEF DumpPlaces, NoDump
<1>5. call' \in CallPlaces /\ call'.step = "none" /\ todo' \in Seq(Calling)
  BY <1>1, <1>2, StepTypes, TailTypes
<1>6. Parts(call', dump', phase', todo')
  BY <1>1, <1>2, <1>4, <1>5 DEF Parts
<1> QED
  BY <1>1, <1>2, <1>4, <1>5, <1>6, TypesStep

\* A line of a dump, or the end of a loop; and the head of the events.
LEMMA DumpStepTypes ==
    ASSUME TypesInv, HeadsInv, NEW t \in Dumpers, DumpStates(t) \/ DumpEvents(t) \/ RewindEvents(t)
    PROVE  /\ TypesInv' /\ HeadsInv' /\ SameStack(recorder, recorder') /\ ~recorder.freed
           /\ UNCHANGED <<setup, contexts, todo, call, phase, owed>>
<1>1. /\ setup \in Setups /\ recorder \in Recorders /\ todo \in Seq(Calling)
      /\ call \in CallPlaces /\ dump \in DumpPlaces /\ phase \in Phases
      /\ recorder.freed <=> phase = "freed"
      /\ Parts(call, dump, phase, todo) /\ (~recorder.freed => HeadsOk(recorder, call, dump))
  BY TypesAre
<1>2. /\ UNCHANGED <<setup, contexts, todo, call, phase, owed>> /\ ~recorder.freed
      /\ dump[t].step \in DumpSteps \ {"none"}
  BY DEF DumpStates, DumpEvents, RewindEvents, Dumps, UserVars, DumpSteps
<1>3. PICK r \in Recorders : r = recorder
  BY <1>1
<1>4. PICK d \in DumpPlaces : d = dump
  BY <1>1
<1>5. /\ r.state_buffer_head \in Slots /\ r.event_buffer_head \in Slots /\ d[t].i \in Slots /\ 0 \in Slots
      /\ \A i \in Slots, h \in Slots : i < h => i + 1 \in Slots
  BY <1>1, RecorderParts DEF DumpPlaces, Slots
<1>6. \E step \in DumpSteps \ {"none"}, i \in Slots :
        /\ dump' = [d EXCEPT ![t] = [step |-> step, i |-> i]]
        /\ step = "rewind_states" => recorder' = rewind_events(r)
        /\ \/ recorder' = r \/ recorder' = rewind_events(r)
           \/ recorder' = dump_state(r, d[t].i) \/ recorder' = dump_event(r, d[t].i)
  <2>1. CASE DumpStates(t)
    <3>1. CASE d[t].i < r.state_buffer_head
      <4>1. dump' = [d EXCEPT ![t] = [step |-> "states", i |-> d[t].i + 1]] /\ recorder' = dump_state(r, d[t].i)
        BY <1>3, <1>4, <2>1, <3>1 DEF DumpStates, DumpGoes
      <4>2. "states" \in DumpSteps \ {"none"} /\ d[t].i + 1 \in Slots
        BY <1>5, <3>1 DEF DumpSteps
      <4> QED
        BY <4>1, <4>2
    <3>2. CASE ~(d[t].i < r.state_buffer_head)
      <4>1. dump' = [d EXCEPT ![t] = [step |-> "events", i |-> 0]] /\ recorder' = r
        BY <1>3, <1>4, <2>1, <3>2 DEF DumpStates, DumpGoes
      <4>2. "events" \in DumpSteps \ {"none"}
        BY DEF DumpSteps
      <4> QED
        BY <1>5, <4>1, <4>2
    <3> QED
      BY <3>1, <3>2
  <2>2. CASE DumpEvents(t)
    <3>1. CASE d[t].i < r.event_buffer_head
      <4>1. dump' = [d EXCEPT ![t] = [step |-> "events", i |-> d[t].i + 1]] /\ recorder' = dump_event(r, d[t].i)
        BY <1>3, <1>4, <2>2, <3>1 DEF DumpEvents, DumpGoes
      <4>2. "events" \in DumpSteps \ {"none"} /\ d[t].i + 1 \in Slots
        BY <1>5, <3>1 DEF DumpSteps
      <4> QED
        BY <4>1, <4>2
    <3>2. CASE ~(d[t].i < r.event_buffer_head)
      <4>1. dump' = [d EXCEPT ![t] = [step |-> "rewind_events", i |-> 0]] /\ recorder' = r
        BY <1>3, <1>4, <2>2, <3>2 DEF DumpEvents, DumpGoes
      <4>2. "rewind_events" \in DumpSteps \ {"none"}
        BY DEF DumpSteps
      <4> QED
        BY <1>5, <4>1, <4>2
    <3> QED
      BY <3>1, <3>2
  <2>3. CASE RewindEvents(t)
    <3>1. dump' = [d EXCEPT ![t] = [step |-> "rewind_states", i |-> 0]] /\ recorder' = rewind_events(r)
      BY <1>3, <1>4, <2>3 DEF RewindEvents, DumpGoes
    <3>2. "rewind_states" \in DumpSteps \ {"none"}
      BY DEF DumpSteps
    <3> QED
      BY <1>5, <3>1, <3>2
  <2> QED
    BY <2>1, <2>2, <2>3
<1>7. PICK step \in DumpSteps \ {"none"}, i \in Slots :
        /\ dump' = [d EXCEPT ![t] = [step |-> step, i |-> i]]
        /\ step = "rewind_states" => recorder' = rewind_events(r)
        /\ \/ recorder' = r \/ recorder' = rewind_events(r)
           \/ recorder' = dump_state(r, d[t].i) \/ recorder' = dump_event(r, d[t].i)
  BY <1>6
<1>8. /\ dump' \in DumpPlaces /\ dump'[t].step = step /\ \A u \in Dumpers : u # t => dump'[u] = d[u]
  BY <1>7 DEF DumpPlaces
<1>9. /\ recorder' \in Recorders /\ SameStack(r, recorder')
      /\ recorder'.state_buffer_head = r.state_buffer_head
      /\ recorder'.event_buffer_head \in {0, r.event_buffer_head}
      /\ step = "rewind_states" => recorder'.event_buffer_head = 0
  <2>1. SameStack(r, r)
    BY DEF SameStack
  <2>2. LET q == rewind_events(r)
        IN  /\ q \in Recorders /\ SameStack(r, q)
            /\ q.state_buffer_head = r.state_buffer_head /\ q.event_buffer_head = 0
    BY RewindFields
  <2>3. /\ LET q == dump_state(r, d[t].i)
           IN  /\ q \in Recorders /\ SameStack(r, q)
               /\ q.state_buffer_head = r.state_buffer_head /\ q.event_buffer_head = r.event_buffer_head
        /\ LET q == dump_event(r, d[t].i)
           IN  /\ q \in Recorders /\ SameStack(r, q)
               /\ q.state_buffer_head = r.state_buffer_head /\ q.event_buffer_head = r.event_buffer_head
    BY <1>5, DumpFields
  <2> QED
    BY <1>7, <2>1, <2>2, <2>3
<1>10. "worker" \in Dumpers /\ "mir_destroy" \in Dumpers /\ \A u \in Dumpers : u = "worker" \/ u = "mir_destroy"
  BY DEF Dumpers
<1>11. Parts(call', dump', phase', todo')
  BY <1>1, <1>2, <1>4, <1>7, <1>8, <1>10 DEF Parts
<1>12. HeadsOk(recorder', call', dump')
  <2>1. HeadsOk(r, call, d) /\ 0 + 2 <= BufferMax
    BY <1>1, <1>2, <1>3, <1>4
  <2>2. r.event_buffer_head + 2 <= BufferMax => recorder'.event_buffer_head + 2 <= BufferMax
    BY <1>9, <2>1
  <2>3. dump'["worker"].step = "rewind_states" => recorder'.event_buffer_head + 2 <= BufferMax
    BY <1>8, <1>9, <1>10, <2>1, <2>2 DEF HeadsOk
  <2> QED
    BY <1>2, <1>9, <2>1, <2>2, <2>3 DEF HeadsOk
<1> QED
  BY <1>1, <1>2, <1>3, <1>8, <1>9, <1>11, <1>12, TypesStep DEF SameStack

LEMMA RewindTypes ==
    ASSUME TypesInv, HeadsInv, NEW t \in Dumpers, RewindStates(t)
    PROVE  /\ TypesInv' /\ HeadsInv' /\ SameStack(recorder, recorder') /\ ~recorder.freed
           /\ Left' = Left /\ UNCHANGED <<setup, contexts>>
<1>1. /\ setup \in Setups /\ recorder \in Recorders /\ todo \in Seq(Calling)
      /\ call \in CallPlaces /\ dump \in DumpPlaces /\ phase \in Phases
      /\ recorder.freed <=> phase = "freed"
      /\ Parts(call, dump, phase, todo) /\ (~recorder.freed => HeadsOk(recorder, call, dump))
  BY TypesAre
<1>2. /\ dump[t].step = "rewind_states" /\ ~recorder.freed /\ recorder' = rewind_states(recorder)
      /\ dump' = [dump EXCEPT ![t] = NoDump] /\ UNCHANGED <<setup, contexts>>
  BY DEF RewindStates, Dumps
<1>3. /\ 0 \in Slots /\ "none" \in DumpSteps /\ "worker" \in Dumpers /\ "mir_destroy" \in Dumpers
      /\ \A u \in Dumpers : u = "worker" \/ u = "mir_destroy"
  BY DEF Slots, DumpSteps, Dumpers
<1>4. dump' \in DumpPlaces /\ dump'[t].step = "none" /\ \A u \in Dumpers : u # t => dump'[u] = dump[u]
  BY <1>1, <1>2, <1>3 DEF DumpPlaces, NoDump
<1>5. /\ recorder' \in Recorders /\ SameStack(recorder, recorder') /\ recorder'.state_buffer_head = 0
      /\ recorder'.event_buffer_head = recorder.event_buffer_head /\ recorder'.freed = recorder.freed
  BY <1>1, <1>2, RewindFields DEF SameStack
<1>6. 0 + 2 <= BufferMax /\ HeadsOk(recorder, call, dump)
  BY <1>1, <1>2
<1>7. CASE t = "worker"
  <2>1. todo' = Tail(todo) /\ call' = NoCall /\ phase' = phase
    BY <1>7 DEF RewindStates, CallEnds
  <2>2. call.step = "dump" /\ todo # <<>>
    BY <1>1, <1>2, <1>7 DEF Parts
  <2>3. call' \in CallPlaces /\ call'.step = "none" /\ todo' \in Seq(Calling)
    BY <1>1, <2>1, <2>2, StepTypes, TailTypes
  <2>4. Parts(call', dump', phase', todo')
    BY <1>1, <1>3, <1>4, <1>7, <2>1, <2>3 DEF Parts
  <2>5. HeadsOk(recorder', call', dump')
    BY <1>2, <1>4, <1>5, <1>6, <1>7, <2>3 DEF HeadsOk
  <2>6. Left' = Left
    BY <2>1, <2>2, <2>3 DEF Left
  <2> QED
    BY <1>1, <1>2, <1>4, <1>5, <2>1, <2>3, <2>4, <2>5, <2>6, TypesStep
<1>8. CASE t # "worker"
  <2>1. todo' = todo /\ call' = call /\ phase' = "dumped" /\ t = "mir_destroy"
    BY <1>3, <1>8 DEF RewindStates
  <2>2. dump'["worker"] = dump["worker"] /\ dump'["mir_destroy"].step = "none"
    BY <1>3, <1>4, <2>1
  <2>3. Parts(call', dump', phase', todo')
    BY <1>1, <2>1, <2>2 DEF Parts
  <2>4. HeadsOk(recorder', call', dump')
    BY <1>5, <1>6, <2>1, <2>2 DEF HeadsOk
  <2>5. Left' = Left /\ phase' \in Phases /\ phase' # "freed"
    BY <2>1 DEF Left, Phases
  <2> QED
    BY <1>1, <1>2, <1>4, <1>5, <2>1, <2>3, <2>4, <2>5, TypesStep
<1> QED
  BY <1>7, <1>8

\* The worker gets to somewhere else, and has calls to make.
LEMMA GoTypes ==
    ASSUME TypesInv, HeadsInv, NEW old, At(old), UNCHANGED Frame, todo' \in Seq(Calling)
    PROVE  TypesInv' /\ HeadsInv'
<1>1. /\ setup \in Setups /\ recorder \in Recorders
      /\ call \in CallPlaces /\ dump \in DumpPlaces /\ phase \in Phases
      /\ recorder.freed <=> phase = "freed"
      /\ Parts(call, dump, phase, todo) /\ (~recorder.freed => HeadsOk(recorder, call, dump))
  BY TypesAre
<1>2. UNCHANGED <<setup, recorder, call, dump, phase>> /\ todo = <<>>
  BY DEF Frame, At
<1>3. call.step = "none"
  BY <1>1, <1>2 DEF Parts, CallPlaces, CallSteps
<1>4. Parts(call', dump', phase', todo')
  BY <1>1, <1>2, <1>3 DEF Parts
<1> QED
  BY <1>1, <1>2, <1>4, TypesStep

LEMMA EpilogCalls ==
    /\ Epilog \in Seq(Calling) /\ IdleEpilog \in Seq(Calling) /\ IdleProlog \in Seq(Calling)
    /\ IdleEpilog \o Epilog \in Seq(Calling) /\ Append(IdleEpilog, "event") \in Seq(Calling)
<1>1. /\ <<"end">> \o <<"event">> = Epilog /\ Epilog \in Seq(Calling) /\ "event" \in Calling
      /\ Prolog("TIMPLICIT") \in Seq(Calling)
  BY CallLists DEF Epilog, Prolog, Names
<1>2. <<>> \in Seq(Calling)
  OBVIOUS
<1>3. IdleEpilog \in Seq(Calling) /\ IdleProlog \in Seq(Calling)
  BY <1>1, <1>2 DEF IdleEpilog, IdleProlog
<1> QED
  BY <1>1, <1>3, JoinFacts, AppendFacts

LEMMA UserTypes ==
    ASSUME TypesInv, HeadsInv, UserStep \/ WorkerStep \/ CallDestroy
    PROVE  TypesInv' /\ HeadsInv'
<1>1. \E old : At(old) /\ UNCHANGED Frame
  BY DEF UserStep, BeginCreate, Push, PushRefused, EndCreate, BeginWait, EndWait, Allocate,
         WorkerStep, Take, Execute, EndTask, NotBusy, SeeDying, CallDestroy
<1>2. todo' \in Seq(Calling)
  <2>1. /\ \A x \in Names : <<x>> \in Seq(Calling) /\ Prolog(x) \in Seq(Calling) /\ <<x, "end">> \in Seq(Calling)
        /\ <<"end">> \in Seq(Calling)
    BY CallLists DEF Prolog
  <2>2. "TCREATE" \in Names /\ "TSYNC" \in Names /\ "TEXEC" \in Names /\ "TMALLOC" \in Names
    BY DEF Names
  <2>3. todo \in Seq(Calling)
    BY TypesAre
  <2>4. CASE UserStep
    BY <2>1, <2>2, <2>3, <2>4
    DEF UserStep, BeginCreate, Push, PushRefused, EndCreate, BeginWait, EndWait, Allocate, Executes
  <2>5. CASE WorkerStep
    BY <2>1, <2>2, <2>3, <2>5, EpilogCalls
    DEF WorkerStep, Take, Execute, EndTask, NotBusy, SeeDying, Executes
  <2>6. CASE CallDestroy
    BY <2>6, EpilogCalls DEF CallDestroy
  <2> QED
    BY <2>4, <2>5, <2>6
<1> QED
  BY <1>1, <1>2, GoTypes

\* Freeze, BeginDump and Free.
LEMMA PhaseTypes ==
    ASSUME TypesInv, HeadsInv, Freeze \/ BeginDump \/ Free
    PROVE  /\ TypesInv' /\ HeadsInv' /\ UNCHANGED <<setup, contexts, todo, call>>
           /\ recorder' = recorder \/ recorder'.freed
<1>1. /\ setup \in Setups /\ recorder \in Recorders /\ todo \in Seq(Calling)
      /\ call \in CallPlaces /\ dump \in DumpPlaces /\ phase \in Phases
      /\ recorder.freed <=> phase = "freed"
      /\ Parts(call, dump, phase, todo) /\ (~recorder.freed => HeadsOk(recorder, call, dump))
  BY TypesAre
<1>2. CASE Freeze
  <2>1. phase = "alive" /\ phase' = "dying" /\ UNCHANGED <<setup, recorder, contexts, todo, call, dump>>
    BY <1>2 DEF Freeze
  <2>2. Parts(call', dump', phase', todo') /\ phase' \in Phases
    BY <1>1, <2>1 DEF Parts, Phases
  <2> QED
    BY <1>1, <2>1, <2>2, TypesStep
<1>3. CASE BeginDump
  <2>1. /\ phase = "dying" /\ phase' = "dump" /\ UNCHANGED <<setup, recorder, contexts, todo, call>>
        /\ dump' = [dump EXCEPT !["mir_destroy"] = [step |-> "states", i |-> 0]]
    BY <1>3 DEF BeginDump, DumpGoes
  <2>2. 0 \in Slots /\ "states" \in DumpSteps /\ "worker" \in Dumpers /\ "mir_destroy" \in Dumpers
    BY DEF Slots, DumpSteps, Dumpers
  <2>3. /\ dump' \in DumpPlaces /\ dump'["mir_destroy"].step = "states"
        /\ dump'["worker"] = dump["worker"]
    BY <1>1, <2>1, <2>2 DEF DumpPlaces
  <2>4. Parts(call', dump', phase', todo') /\ phase' \in Phases
    BY <1>1, <2>1, <2>3 DEF Parts, Phases
  <2>5. ~recorder'.freed /\ HeadsOk(recorder', call', dump')
    BY <1>1, <2>1, <2>3 DEF HeadsOk
  <2> QED
    BY <1>1, <2>1, <2>3, <2>4, <2>5, TypesStep
<1>4. CASE Free
  <2>1. /\ phase = "dumped" /\ phase' = "freed" /\ UNCHANGED <<setup, contexts, todo, call, dump>>
        /\ recorder' = destroy(recorder)
    BY <1>4 DEF Free
  <2>2. recorder' \in Recorders /\ recorder'.freed
    BY <1>1, <2>1, DestroyFields
  <2>3. Parts(call', dump', phase', todo') /\ phase' \in Phases
    BY <1>1, <2>1 DEF Parts, Phases
  <2> QED
    BY <1>1, <2>1, <2>2, <2>3, TypesStep
<1> QED
  BY <1>2, <1>3, <1>4

LEMMA InitTypes == Init => TypesInv /\ HeadsInv
<1> SUFFICES ASSUME Init PROVE TypesInv /\ HeadsInv
  OBVIOUS
<1>1. 0 \in Slots /\ 0 + 2 <= BufferMax
  BY DEF Slots
<1>2. recorder \in Recorders /\ recorder.state_buffer_head = 0 /\ recorder.event_buffer_head = 0 /\ ~recorder.freed
  <2>1. recorder = NewRecorder
    BY DEF Init
  <2>2. [name |-> "unwritten", id |-> 0, parent_id |-> 0] \in StateRecords /\ [event |-> 0] \in EventRecords
    BY DEF StateRecords, EventRecords, StateNames
  <2>3. /\ [i \in Slots |-> [name |-> "unwritten", id |-> 0, parent_id |-> 0]] \in [Slots -> StateRecords]
        /\ [i \in Slots |-> [event |-> 0]] \in [Slots -> EventRecords]
        /\ [s |-> <<>>, e |-> <<>>] \in [s : Seq(StateRecords), e : Seq(EventRecords)]
        /\ "TIDLE" \in StateNames /\ <<>> \in Seq(StateRecords)
    BY <2>2 DEF StateNames, Names
  <2> QED
    BY <1>1, <2>1, <2>3 DEF NewRecorder, Recorders
<1>3. call = NoCall /\ call \in CallPlaces /\ call.step = "none"
  BY StepTypes DEF Init
<1>4. dump \in DumpPlaces /\ dump["worker"].step = "none" /\ dump["mir_destroy"].step = "none"
  BY <1>1 DEF Init, DumpPlaces, Dumpers, NoDump, DumpSteps
<1>5. todo \in Seq(Calling)
  <2>1. <<"event">> \in Seq(Calling) /\ <<"event", "TIDLE">> \in Seq(Calling)
    BY CallLists DEF Names
  <2>2. PICK a \in Seq(Calling) : todo = a \o IdleProlog
    BY <2>1 DEF Init
  <2> QED
    BY <2>2, EpilogCalls, JoinFacts
<1>6. setup \in Setups /\ phase = "alive"
  BY DEF Init, Setups
<1>7. Parts(call, dump, phase, todo) /\ HeadsOk(recorder, call, dump) /\ phase \in Phases
  BY <1>1, <1>2, <1>3, <1>4, <1>6 DEF Parts, HeadsOk, Phases
<1> QED
  BY <1>2, <1>3, <1>4, <1>5, <1>6, <1>7, TypesAre

LEMMA InitNests == Init => NestInv
<1> SUFFICES ASSUME Init PROVE NestInv
  OBVIOUS
<1> DEFINE at == IF setup.main THEN "user" ELSE "loop"
<1>1. /\ setup \in Setups /\ recorder.state_stack = <<>> /\ recorder.num_states = 0
      /\ contexts = <<[at |-> at, depth |-> 0]>> /\ Left = todo
  BY DEF Init, Setups, NewRecorder, Context, Left, NoCall
<1>2. at \in AllLabels /\ at \in BaseLabels(setup) /\ InHand(at) = 0
  BY DEF AllLabels, TaskLabels, BaseLabels, InHand
<1> HIDE DEF at
<1>3. /\ Len(contexts) = 1 /\ contexts[1].at = at /\ contexts[1].depth = 0
      /\ contexts \in Seq([at : AllLabels, depth : Nat])
  BY <1>1, <1>2
<1>4. Placed(setup, contexts)
  BY <1>2, <1>3 DEF Placed
<1>5. Below(setup, contexts, <<>>)
  BY <1>3 DEF Below
<1>6. <<>> \in Seq(StateNames) /\ <<"TIDLE">> \in Seq(StateNames) /\ "TIDLE" \in Names /\ Append(<<>>, "TIDLE") = <<"TIDLE">>
  BY DEF StateNames, Names
<1>7. View(contexts, <<>>, 0) = Seen(<<>>, 0)
  BY <1>3 DEF View, Seen, NamesAbove
<1>8. OpenedAt(setup, 1, at) = IF setup.main THEN Idle(setup) ELSE <<"TIDLE">> \o Idle(setup)
  BY DEF OpenedAt, Own, at
<1>9. \E o \in Seq(StateNames), m \in {0, 1, 2} : o = OpenedAt(setup, 1, at) /\ Leads(todo, Seen(<<>>, 0), Seen(o, m))
  <2>1. CASE setup.main
    <3>1. todo = <<"event">> \o IdleProlog
      BY <2>1 DEF Init
    <3>2. Leads(<<"event">>, Seen(<<>>, 0), Seen(<<>>, 0)) /\ Seen(<<>>, 0) \in Views
      BY <1>6, SeenIs, EventLeads
    <3>0. PICK e \in Seq(StateNames) : e = <<>>
      BY <1>6
    <3>8. /\ \E m \in {0, 0 + 1} : Leads(IdleProlog, Seen(e, 0), Seen(e \o Idle(setup), m))
          /\ e \o Idle(setup) \in Seq(StateNames) /\ IdleProlog \in Seq(Calling)
      <4>1. 0 \in Nat
        OBVIOUS
      <4> QED
        BY <1>1, <4>1, IdleLeads
    <3>3. PICK m \in {0, 0 + 1} : Leads(IdleProlog, Seen(<<>>, 0), Seen(<<>> \o Idle(setup), m))
      BY <3>0, <3>8
    <3>4. <<>> \o Idle(setup) \in Seq(StateNames) /\ <<"event">> \in Seq(Calling) /\ IdleProlog \in Seq(Calling)
      BY <3>0, <3>8, CallLists
    <3>5. Idle(setup) \in Seq(StateNames) /\ <<>> \o Idle(setup) = Idle(setup)
      BY IdleIs
    <3>6. Seen(<<>> \o Idle(setup), m) \in Views
      BY <3>4, SeenIs
    <3>7. Leads(todo, Seen(<<>>, 0), Seen(<<>> \o Idle(setup), m))
      BY <3>1, <3>2, <3>3, <3>4, <3>6, LeadsOn
    <3> QED
      BY <1>8, <2>1, <3>5, <3>7
  <2>2. CASE ~setup.main
    <3>1. todo = Prolog("TIDLE") \o IdleProlog
      BY <2>2 DEF Init, Prolog
    <3>2. /\ Leads(Prolog("TIDLE"), Seen(<<>>, 0), Seen(<<"TIDLE">>, 1)) /\ Prolog("TIDLE") \in Seq(Calling)
      <4>1. 0 + 1 = 1
        OBVIOUS
      <4>2. Leads(Prolog("TIDLE"), Seen(<<>>, 0), Seen(Append(<<>>, "TIDLE"), 0 + 1)) /\ Prolog("TIDLE") \in Seq(Calling)
        BY <1>6, PrologLeads
      <4> QED
        BY <1>6, <4>1, <4>2
    <3>3. PICK m \in {1, 1 + 1} : Leads(IdleProlog, Seen(<<"TIDLE">>, 1), Seen(<<"TIDLE">> \o Idle(setup), m))
      BY <1>1, <1>6, IdleLeads
    <3>4. <<"TIDLE">> \o Idle(setup) \in Seq(StateNames) /\ IdleProlog \in Seq(Calling)
      BY <1>1, <1>6, IdleLeads
    <3>5. m \in {0, 1, 2} /\ m \in Nat
      BY <3>3
    <3>6. Seen(<<"TIDLE">> \o Idle(setup), m) \in Views /\ Seen(<<>>, 0) \in Views /\ Seen(<<"TIDLE">>, 1) \in Views
      BY <1>6, <3>4, <3>5, SeenIs
    <3>7. Leads(todo, Seen(<<>>, 0), Seen(<<"TIDLE">> \o Idle(setup), m))
      BY <3>1, <3>2, <3>3, <3>4, <3>6, LeadsOn
    <3> QED
      BY <1>8, <2>2, <3>4, <3>5, <3>7
  <2> QED
    BY <2>1, <2>2
<1>10. PICK o \in Seq(StateNames), m \in {0, 1, 2} :
        o = OpenedAt(setup, 1, at) /\ Leads(todo, Seen(<<>>, 0), Seen(o, m))
  BY <1>9
<1>11. Seen(o, m) \in Views /\ Seen(o, m).open = o /\ Seen(o, m).num = m
  BY SeenIs
<1>12. m + InHand(at) <= MaxStates + 2
  BY <1>2
<1>13. Ends(setup, contexts, Seen(o, m))
  BY <1>3, <1>10, <1>11, <1>12 DEF Ends
<1>14. Nested(setup, contexts, <<>>, 0, todo)
  BY <1>4, <1>5, <1>7, <1>10, <1>11, <1>13 DEF Nested
<1> QED
  BY <1>1, <1>4, <1>14 DEF NestInv

StackInv == TypesInv /\ HeadsInv /\ NestInv

LEMMA StackNext ==
    ASSUME StackInv, [Next]_vars
    PROVE  StackInv'
<1> USE DEF StackInv
<1>1. CASE BeginState
  BY <1>1, BeginTypes, BeginNests
<1>2. CASE EndState
  BY <1>2, EndTypes, EndNests
<1>3. CASE NoteEvent
  BY <1>3, EventTypes, EventNests
<1>4. CASE CountState \/ CountEvent
  <2>1. TypesInv' /\ HeadsInv' /\ SameStack(recorder, recorder')
    BY <1>4, CountTypes
  <2>2. ~recorder.freed /\ UNCHANGED <<setup, contexts, todo>> /\ call.step # "none"
    BY <1>4 DEF CountState, CountEvent, UserVars
  <2>3. call'.step \in {"check_state", "check_event"}
    <3>1. call \in CallPlaces
      BY TypesAre
    <3> QED
      BY <1>4, <3>1 DEF CountState, CountEvent, CallPlaces
  <2>4. Left' = Left
    BY <2>2, <2>3 DEF Left
  <2> QED
    BY <2>1, <2>2, <2>4, SameNests
<1>5. CASE CheckFull
  <2>1. TypesInv' /\ HeadsInv'
    BY <1>5, CheckTypes
  <2>2. /\ ~recorder.freed /\ UNCHANGED <<setup, contexts, recorder>> /\ call.step # "none"
        /\ \/ todo' = todo /\ call' = [call EXCEPT !.step = "dump"]
           \/ todo' = Tail(todo) /\ call' = NoCall
    BY <1>5 DEF CheckFull, CallEnds, UserVars
  <2>3. call \in CallPlaces /\ "dump" \in CallSteps
    BY TypesAre DEF CallSteps
  <2>4. Left' = Left /\ SameStack(recorder, recorder')
    BY <2>2, <2>3, StepTypes DEF Left, SameStack
  <2> QED
    BY <2>1, <2>2, <2>4, SameNests
<1>6. CASE CallFreed
  BY <1>6, FreedTypes, FreedNests DEF CallFreed, UserVars
<1>7. ASSUME NEW t \in Dumpers, DumpStep(t) PROVE StackInv'
  <2>1. CASE DumpStates(t) \/ DumpEvents(t) \/ RewindEvents(t)
    BY <2>1, DumpStepTypes, SameNests DEF Left
  <2>2. CASE RewindStates(t)
    BY <2>2, RewindTypes, SameNests
  <2> QED
    BY <1>7, <2>1, <2>2 DEF DumpStep
<1>8. CASE UserStep
  BY <1>8, UserTypes, UserNests
<1>9. CASE WorkerStep
  BY <1>9, UserTypes, WorkerNests
<1>10. CASE CallDestroy
  BY <1>10, UserTypes, DestroyNests
<1>11. CASE Freeze \/ BeginDump \/ Free
  <2>1. /\ TypesInv' /\ HeadsInv' /\ UNCHANGED <<setup, contexts, todo, call>>
        /\ recorder' = recorder \/ recorder'.freed
    BY <1>11, PhaseTypes
  <2>2. ~recorder'.freed => ~recorder.freed /\ SameStack(recorder, recorder') /\ Left' = Left
    BY <2>1 DEF SameStack, Left
  <2> QED
    BY <2>1, <2>2, SameNests, FreedNests
<1>12. CASE UNCHANGED vars
  BY <1>12 DEF vars, TypesInv, HeadsInv, NestInv, Left
<1> QED
  BY <1>1, <1>2, <1>3, <1>4, <1>5, <1>6, <1>7, <1>8, <1>9, <1>10, <1>11, <1>12
  DEF Next, CallStep, DestroyStep
-----------------------------------------------------------------------------
(* Theorems about the stack *)

\* Types, where calls and dumps are, and that the stack is what the contexts and
\* the calls to come say.
THEOREM StackInvariant == Spec => []StackInv
<1>1. Init => StackInv
  BY InitTypes, InitNests DEF StackInv
<1>2. StackInv /\ [Next]_vars => StackInv'
  BY StackNext
<1> QED
  BY <1>1, <1>2, PTL DEF Spec

\* No index leaves its buffer, whatever mir_destroy rewinds while a call of the
\* worker counts.
THEOREM TraceTypes == Spec => []TypeOK
<1>1. StackInv => TypeOK
  <2> SUFFICES ASSUME StackInv PROVE TypeOK
    OBVIOUS
  <2>1. /\ recorder \in Recorders /\ call \in CallPlaces /\ dump \in DumpPlaces /\ phase \in Phases
    BY TypesAre DEF StackInv
  <2> QED
    BY <2>1, RecorderParts DEF TypeOK, CallPlaces, DumpPlaces, CallSteps, Phases, StateNames
<1> QED
  BY <1>1, StackInvariant, PTL

\* Between its calls the worker has open what it is inside, however deep its tasks
\* nest in waits and creations, and no task on top of another takes more than two
\* states of the stack.
THEOREM TraceNests == Spec => []StatesNest
<1>1. StackInv => StatesNest
  <2> SUFFICES ASSUME StackInv, todo = <<>>, ~recorder.freed
               PROVE  /\ \A i \in DOMAIN contexts : OpenOf(i) = Opened(i)
                      /\ Len(recorder.state_stack) <= 2 * Len(contexts)
                      /\ recorder.state_stack # <<>> =>
                            recorder.this_state = Last(recorder.state_stack).name
    BY DEF StatesNest
  <2> DEFINE L == Len(contexts)
             k == recorder.state_stack
             n == recorder.num_states
  <2>1. /\ setup \in Setups /\ recorder \in Recorders /\ call \in CallPlaces
        /\ Parts(call, dump, phase, todo)
    BY TypesAre DEF StackInv
  <2>2. call.step = "none"
    BY <2>1 DEF Parts, CallPlaces, CallSteps
  <2>3. /\ k \in Seq(StateRecords) /\ Len(k) \in Nat /\ n \in Nat
    BY <2>1, RecorderParts, ListFacts
  <2>4. /\ Placed(setup, contexts) /\ Nested(setup, contexts, k, n, <<>>) /\ Below(setup, contexts, k)
        /\ k # <<>> => recorder.this_state = Last(k).name
    BY <2>2 DEF StackInv, NestInv, Left, Nested
  <2>5. /\ L \in Nat \ {0} /\ DOMAIN contexts = 1 .. L /\ L \in 1 .. L
        /\ \A i \in 1 .. L : contexts[i].at \in AllLabels /\ contexts[i].depth \in Nat
    BY <2>1, <2>4, PlacedParts
  <2>6. NamesAbove(k, contexts[L].depth) = OpenedAt(setup, L, contexts[L].at)
    BY <2>1, <2>3, <2>4, NestedNow
  <2>7. \A i \in 1 .. L : Opened(i) = OpenedAt(setup, i, contexts[i].at)
    BY DEF Opened, OpenedAt, Own, Idle, TopIdle
  <2>8. ASSUME NEW i \in 1 .. L PROVE OpenOf(i) = Opened(i)
    <3>1. CASE i = L
      <4>1. DepthAbove(i) = Len(k)
        BY <2>5, <3>1 DEF DepthAbove
      <4>2. OpenOf(i) = NamesAbove(k, contexts[L].depth)
        BY <3>1, <4>1 DEF OpenOf, NamesAbove
      <4> QED
        BY <2>6, <2>7, <3>1, <4>2
    <3>2. CASE i # L
      <4>1. i \in 1 .. L - 1 /\ i < L /\ i \in Nat \ {0}
        <5>1. \A m \in Nat \ {0} : \A j \in 1 .. m : j # m => j \in 1 .. m - 1 /\ j < m /\ j \in Nat \ {0}
          OBVIOUS
        <5> QED
          BY <2>5, <3>2, <5>1
      <4>2. PICK o \in Seq(StateNames) : o = OpenedAt(setup, i, contexts[i].at)
        BY <2>1, <2>5, <4>1, OpenedFacts
      <4>3. /\ contexts[i + 1].depth = contexts[i].depth + Len(o)
            /\ \A j \in 1 .. Len(o) : k[contexts[i].depth + j].name = o[j]
        BY <2>4, <4>1, <4>2 DEF Below
      <4>4. DepthAbove(i) = contexts[i + 1].depth /\ Len(o) \in Nat
        BY <4>1, <4>2, ListFacts DEF DepthAbove
      <4>5. DepthAbove(i) - contexts[i].depth = Len(o)
        BY <2>5, <4>3, <4>4
      <4>6. OpenOf(i) = [j \in 1 .. Len(o) |-> k[contexts[i].depth + j].name]
        BY <4>5 DEF OpenOf
      <4>7. OpenOf(i) = [j \in 1 .. Len(o) |-> o[j]]
        BY <4>3, <4>6
      <4>8. o = [j \in 1 .. Len(o) |-> o[j]]
        OBVIOUS
      <4> QED
        BY <2>7, <4>2, <4>7, <4>8
    <3> QED
      BY <3>1, <3>2
  <2>9. Len(k) <= 2 * L
    <3>1. contexts[L].depth <= 2 * (L - 1) /\ contexts[L].depth <= Len(k) /\ contexts[L].depth \in Nat
      BY <2>4, <2>5 DEF Below
    <3>2. Len(NamesAbove(k, contexts[L].depth)) = Len(k) - contexts[L].depth
      BY <2>3, <3>1, AboveFacts
    <3>3. L = 1 => contexts[L].at \in BaseLabels(setup)
      BY <2>4 DEF Placed
    <3>4. Len(OpenedAt(setup, L, contexts[L].at)) <= 2
      BY <2>1, <2>5, <3>3, OpenedIsShort
    <3> QED
      BY <2>3, <2>5, <2>6, <3>1, <3>2, <3>4
  <2> QED
    BY <2>4, <2>5, <2>8, <2>9
<1> QED
  BY <1>1, StackInvariant, PTL
-----------------------------------------------------------------------------
(* What a recorder holds, while a call and a dump are under way *)

Buffers(S) == [Slots -> S]
FitsMore(from, head) == from \in Nat /\ head \in Nat /\ from < head /\ head <= BufferMax
Fits(from, head) == from \in Nat /\ head \in Nat /\ from <= head /\ head <= BufferMax

LEMMA BufferParts ==
    ASSUME NEW r \in Recorders
    PROVE  r.state_buffer \in Buffers(StateRecords) /\ r.event_buffer \in Buffers(EventRecords)
BY DEF Recorders, Buffers

LEMMA HeldFacts ==
    ASSUME NEW S, NEW b \in Buffers(S), NEW from, NEW head, Fits(from, head)
    PROVE  /\ Held(b, from, head) \in Seq(S) /\ Len(Held(b, from, head)) = head - from
           /\ \A i \in 1 .. head - from : Held(b, from, head)[i] = b[from + i - 1]
           /\ from = head => Held(b, from, head) = <<>>
<1>1. head - from \in Nat /\ \A i \in 1 .. head - from : from + i - 1 \in Slots
  BY DEF Slots, Fits
<1>2. Held(b, from, head) = [i \in 1 .. head - from |-> b[from + i - 1]]
  BY DEF Held
<1>3. \A i \in 1 .. head - from : b[from + i - 1] \in S
  BY <1>1 DEF Buffers
<1>4. Held(b, from, head) \in Seq(S) /\ Len(Held(b, from, head)) = head - from
  BY <1>1, <1>2, <1>3
<1>5. from = head => Held(b, from, head) = <<>>
  <2>1. PICK s \in Seq(S) : s = Held(b, from, head) /\ Len(s) = head - from
    BY <1>4
  <2>2. from = head => Len(s) = 0
    BY <2>1 DEF Fits
  <2>3. Len(s) = 0 => s = <<>>
    OBVIOUS
  <2> QED
    BY <2>1, <2>2, <2>3
<1> QED
  BY <1>2, <1>4, <1>5

\* A line that is written at the head.
LEMMA HeldAppend ==
    ASSUME NEW S, NEW b \in Buffers(S), NEW from, NEW head \in Slots, Fits(from, head), NEW x \in S
    PROVE  Held([b EXCEPT ![head] = x], from, head + 1) = Append(Held(b, from, head), x)
<1> DEFINE B == [b EXCEPT ![head] = x]
           h == Held(b, from, head)
           H == Held(B, from, head + 1)
           A == Append(h, x)
           n == head - from
<1>1. /\ head \in Nat /\ head <= BufferMax /\ head + 1 \in Nat /\ head + 1 <= BufferMax /\ from <= head + 1
      /\ n \in Nat /\ (head + 1) - from = n + 1 /\ from \in Nat /\ from <= head
  BY DEF Slots, Fits
<1>2. B \in Buffers(S) /\ B[head] = x /\ \A i \in Slots : i # head => B[i] = b[i]
  BY DEF Buffers
<1>3. h \in Seq(S) /\ Len(h) = n /\ \A i \in 1 .. n : h[i] = b[from + i - 1]
  <2>1. Fits(from, head)
    BY <1>1 DEF Fits
  <2> QED
    BY <2>1, HeldFacts
<1> HIDE DEF B
<1>4. H \in Seq(S) /\ Len(H) = n + 1 /\ \A i \in 1 .. n + 1 : H[i] = B[from + i - 1]
  <2>1. Fits(from, head + 1)
    BY <1>1 DEF Fits
  <2>2. /\ H \in Seq(S) /\ Len(H) = (head + 1) - from
        /\ \A i \in 1 .. (head + 1) - from : H[i] = B[from + i - 1]
    BY <1>2, <2>1, HeldFacts
  <2> QED
    BY <1>1, <2>2
<1> HIDE DEF h, H
<1>5. A \in Seq(S) /\ Len(A) = n + 1 /\ A[n + 1] = x /\ \A i \in 1 .. n : A[i] = h[i]
  BY <1>3, AppendFacts
<1> HIDE DEF A
<1>6. H[n + 1] = x
  <2>1. from + (n + 1) - 1 = head /\ n + 1 \in 1 .. n + 1
    BY <1>1
  <2> QED
    BY <1>2, <1>4, <2>1
<1>7. ASSUME NEW i \in 1 .. n PROVE H[i] = A[i]
  <2>1. i \in 1 .. n + 1 /\ from + i - 1 \in Slots /\ from + i - 1 # head
    BY <1>1 DEF Slots
  <2>2. H[i] = b[from + i - 1]
    BY <1>2, <1>4, <2>1
  <2> QED
    BY <1>3, <1>5, <2>2
<1>8. \A i \in 1 .. n + 1 : i = n + 1 \/ i \in 1 .. n
  BY <1>1
<1>9. \A i \in 1 .. Len(H) : H[i] = A[i]
  BY <1>4, <1>5, <1>6, <1>7, <1>8
<1>10. H = A
  BY <1>4, <1>5, <1>9, SeqEqual
<1> QED
  BY <1>10 DEF H, A, h, B

\* A line that goes to the file.
Moved(f, b, from, head) == Append(f, b[from]) \o Held(b, from + 1, head) = f \o Held(b, from, head)
LEMMA HeldMoves ==
    ASSUME NEW S, NEW b \in Buffers(S), NEW from, NEW head, FitsMore(from, head), NEW f \in Seq(S)
    PROVE  Moved(f, b, from, head)
<1> DEFINE g == Append(f, b[from])
           h == Held(b, from, head)
           t == Held(b, from + 1, head)
           u == g \o t
           v == f \o h
           m == Len(f)
           n == head - from
<1>1. /\ from \in Nat /\ head \in Nat /\ from <= head /\ head <= BufferMax
      /\ from + 1 \in Nat /\ from + 1 <= head
      /\ n \in Nat \ {0} /\ head - (from + 1) = n - 1 /\ b[from] \in S
  BY DEF Slots, Buffers, FitsMore
<1>2. h \in Seq(S) /\ Len(h) = n /\ \A i \in 1 .. n : h[i] = b[from + i - 1]
  <2>1. Fits(from, head)
    BY <1>1 DEF Fits
  <2> QED
    BY <2>1, HeldFacts
<1>3. t \in Seq(S) /\ Len(t) = n - 1 /\ \A i \in 1 .. n - 1 : t[i] = b[(from + 1) + i - 1]
  <2>1. Fits(from + 1, head)
    BY <1>1 DEF Fits
  <2>2. /\ t \in Seq(S) /\ Len(t) = head - (from + 1)
        /\ \A i \in 1 .. head - (from + 1) : t[i] = b[(from + 1) + i - 1]
    BY <2>1, HeldFacts
  <2> QED
    BY <1>1, <2>2
<1> HIDE DEF h, t, n, m
<1>4. /\ m \in Nat /\ m = Len(f) /\ g \in Seq(S) /\ Len(g) = m + 1 /\ g[m + 1] = b[from]
      /\ \A i \in 1 .. m : g[i] = f[i]
  BY <1>1, AppendFacts, ListFacts DEF m
<1> HIDE DEF g
<1>5. /\ u \in Seq(S) /\ Len(u) = (m + 1) + (n - 1)
      /\ (\A i \in 1 .. m + 1 : u[i] = g[i])
      /\ \A i \in 1 .. n - 1 : u[(m + 1) + i] = t[i]
  <2>1. g \in Seq(S) /\ t \in Seq(S)
    BY <1>3, <1>4
  <2>2. /\ u \in Seq(S) /\ Len(u) = Len(g) + Len(t)
        /\ (\A i \in 1 .. Len(g) : u[i] = g[i]) /\ \A i \in 1 .. Len(t) : u[Len(g) + i] = t[i]
    BY <2>1, JoinFacts
  <2> QED
    BY <1>3, <1>4, <2>2
<1>6. /\ v \in Seq(S) /\ Len(v) = m + n
      /\ (\A i \in 1 .. m : v[i] = f[i])
      /\ \A i \in 1 .. n : v[m + i] = h[i]
  <2>1. h \in Seq(S)
    BY <1>2
  <2>2. /\ v \in Seq(S) /\ Len(v) = Len(f) + Len(h)
        /\ (\A i \in 1 .. Len(f) : v[i] = f[i]) /\ \A i \in 1 .. Len(h) : v[Len(f) + i] = h[i]
    BY <2>1, JoinFacts
  <2> QED
    BY <1>2, <1>4, <2>2
<1> HIDE DEF u, v
<1>7. Len(u) = Len(v)
  BY <1>1, <1>4, <1>5, <1>6
<1>8. ASSUME NEW i \in 1 .. m PROVE u[i] = v[i]
  <2>1. i \in 1 .. m + 1
    BY <1>4
  <2> QED
    BY <1>4, <1>5, <1>6, <2>1
<1>9. u[m + 1] = v[m + 1]
  <2>1. m + 1 \in 1 .. m + 1 /\ 1 \in 1 .. n /\ from + 1 - 1 = from
    BY <1>1, <1>4
  <2> QED
    BY <1>2, <1>4, <1>5, <1>6, <2>1
<1>10. ASSUME NEW i \in 1 .. n - 1 PROVE u[(m + 1) + i] = v[(m + 1) + i]
  <2>0. \A z \in Nat \ {0}, x, y \in Nat : \A j \in 1 .. z - 1 :
            j + 1 \in 1 .. z /\ x + (j + 1) = (x + 1) + j /\ y + (j + 1) - 1 = (y + 1) + j - 1
    OBVIOUS
  <2>1. i + 1 \in 1 .. n /\ m + (i + 1) = (m + 1) + i /\ from + (i + 1) - 1 = (from + 1) + i - 1
    BY <1>1, <1>4, <2>0
  <2>2. v[(m + 1) + i] = b[(from + 1) + i - 1]
    BY <1>2, <1>6, <2>1
  <2> QED
    BY <1>3, <1>5, <2>2
<1>11. \A j \in 1 .. m + n : j \in 1 .. m \/ j = m + 1 \/ (j - (m + 1) \in 1 .. n - 1 /\ (m + 1) + (j - (m + 1)) = j)
  BY <1>1, <1>4
<1>12. ASSUME NEW j \in 1 .. m + n PROVE u[j] = v[j]
  <2>1. CASE j \in 1 .. m
    BY <1>8, <2>1
  <2>2. CASE j = m + 1
    BY <1>9, <2>2
  <2>3. CASE j - (m + 1) \in 1 .. n - 1 /\ (m + 1) + (j - (m + 1)) = j
    BY <1>10, <2>3
  <2> QED
    BY <1>11, <2>1, <2>2, <2>3
<1>13. u = v
  BY <1>5, <1>6, <1>7, <1>12, SeqEqual
<1> QED
  BY <1>13 DEF u, v, g, h, t, Moved

\* The part of each buffer that is recorded and not yet in the file: a dump has
\* done the lines before its index, and a call may have written one that it has not
\* counted.
DumpPlace == [step : DumpSteps, i : Slots]
StatesFrom(r, d) == IF d.step = "states" THEN d.i ELSE IF d.step = "none" THEN 0 ELSE r.state_buffer_head
EventsFrom(r, d) == IF d.step = "events" THEN d.i
                    ELSE IF d.step = "rewind_events" THEN r.event_buffer_head ELSE 0
StatesTo(r, c) == r.state_buffer_head + (IF c.step = "count_state" THEN 1 ELSE 0)
EventsTo(r, c) == r.event_buffer_head + (IF c.step = "count_event" THEN 1 ELSE 0)
StatesShown(r, c, d) == r.buffer_file.s \o Held(r.state_buffer, StatesFrom(r, d), StatesTo(r, c))
EventsShown(r, c, d) == r.buffer_file.e \o Held(r.event_buffer, EventsFrom(r, d), EventsTo(r, c))
Whole(r, c, d) ==
    /\ Sound(r, StatesShown(r, c, d), EventsShown(r, c, d))
    /\ c.step = "count_state" => c.head = r.state_buffer_head
    /\ c.step = "count_event" => c.head = r.event_buffer_head
    /\ d.step = "states" => d.i <= r.state_buffer_head
    /\ d.step = "events" => d.i <= r.event_buffer_head

LEMMA WholeSame ==
    ASSUME NEW r, NEW t, NEW c, NEW d, NEW a, NEW b, Whole(r, c, d),
           t.state_stack = r.state_stack, t.num_states = r.num_states, t.num_events = r.num_events,
           StatesShown(t, a, b) = StatesShown(r, c, d), EventsShown(t, a, b) = EventsShown(r, c, d),
           a.step \notin {"count_state", "count_event"},
           b.step = "states" => b.i <= t.state_buffer_head,
           b.step = "events" => b.i <= t.event_buffer_head
    PROVE  Whole(t, a, b)
BY DEF Whole, Sound

LEMMA WholeBegins ==
    ASSUME NEW r \in Recorders, NEW c \in CallPlaces, NEW d \in DumpPlace, Whole(r, c, d),
           c.step = "none", NEW name \in Names
    PROVE  Whole(state_begin(r, name), NoCall, d)
<1> DEFINE t == state_begin(r, name)
<1>1. SameBuffers(r, t)
  BY BeginFields
<1>2. Sound(t, StatesShown(r, c, d), EventsShown(r, c, d))
  BY BeginSound DEF Whole
<1> HIDE DEF t
<1>3. NoCall.step = "none"
  BY DEF NoCall
<1>4. StatesShown(t, NoCall, d) = StatesShown(r, c, d) /\ EventsShown(t, NoCall, d) = EventsShown(r, c, d)
  BY <1>1, <1>3
  DEF SameBuffers, StatesShown, EventsShown, StatesFrom, EventsFrom, StatesTo, EventsTo
<1>5. /\ d.step = "states" => d.i <= t.state_buffer_head
      /\ d.step = "events" => d.i <= t.event_buffer_head
  BY <1>1 DEF SameBuffers, Whole
<1>6. Whole(t, NoCall, d)
  BY <1>2, <1>3, <1>4, <1>5 DEF Whole
<1> QED
  BY <1>6 DEF t

LEMMA WholeEnds ==
    ASSUME NEW r \in Recorders, NEW c \in CallPlaces, NEW d \in DumpPlace, Whole(r, c, d),
           c.step = "none", d.step = "none", r.state_stack # <<>>
    PROVE  Whole(pop_state(r), [step |-> "count_state", head |-> r.state_buffer_head], d)
<1> DEFINE t == pop_state(r)
           x == Last(r.state_stack)
           h == r.state_buffer_head
           a == [step |-> "count_state", head |-> h]
<1>1. h \in Slots /\ r.state_buffer \in Buffers(StateRecords) /\ r.buffer_file.s \in Seq(StateRecords)
  BY RecorderParts, BufferParts
<1>2. /\ t.state_buffer = [r.state_buffer EXCEPT ![h] = x] /\ t.event_buffer = r.event_buffer
      /\ t.buffer_file = r.buffer_file /\ t.state_buffer_head = h /\ t.event_buffer_head = r.event_buffer_head
  BY EndFields
<1>3. x \in StateRecords
  BY RecorderParts, ListFacts
<1>4. Sound(t, Append(StatesShown(r, c, d), x), EventsShown(r, c, d))
  BY EndSound DEF Whole
<1> HIDE DEF t, x
<1>5. Held(t.state_buffer, 0, h + 1) = Append(Held(r.state_buffer, 0, h), x)
  <2>1. Fits(0, h)
    BY <1>1 DEF Slots, Fits
  <2> QED
    BY <1>1, <1>2, <1>3, <2>1, HeldAppend
<1>6. h + 0 = h /\ r.event_buffer_head + 0 = r.event_buffer_head
  BY RecorderParts DEF Slots
<1>7. StatesShown(r, c, d) = r.buffer_file.s \o Held(r.state_buffer, 0, h)
  BY <1>6 DEF StatesShown, StatesFrom, StatesTo
<1>8. Held(r.state_buffer, 0, h) \in Seq(StateRecords)
  <2>1. Fits(0, h)
    BY <1>1 DEF Slots, Fits
  <2> QED
    BY <1>1, <2>1, HeldFacts
<1>9. StatesShown(t, a, d) = Append(StatesShown(r, c, d), x)
  <2>1. StatesShown(t, a, d) = r.buffer_file.s \o Held(t.state_buffer, 0, h + 1)
    BY <1>2 DEF StatesShown, StatesFrom, StatesTo
  <2>2. PICK f \in Seq(StateRecords), g \in Seq(StateRecords), y \in StateRecords :
            f = r.buffer_file.s /\ g = Held(r.state_buffer, 0, h) /\ y = x
    BY <1>1, <1>3, <1>8
  <2>3. f \o Append(g, y) = Append(f \o g, y)
    BY JoinAppend
  <2> QED
    BY <1>5, <1>7, <2>1, <2>2, <2>3
<1>10. EventsShown(t, a, d) = EventsShown(r, c, d)
  BY <1>2, <1>6 DEF EventsShown, EventsFrom, EventsTo
<1>11. Whole(t, a, d)
  BY <1>2, <1>4, <1>9, <1>10 DEF Whole
<1> QED
  BY <1>11 DEF t

LEMMA WholeNotes ==
    ASSUME NEW r \in Recorders, NEW c \in CallPlaces, NEW d \in DumpPlace, Whole(r, c, d),
           c.step = "none", d.step = "none"
    PROVE  Whole(note_event(r), [step |-> "count_event", head |-> r.event_buffer_head], d)
<1> DEFINE t == note_event(r)
           x == NextEvent(r)
           h == r.event_buffer_head
           a == [step |-> "count_event", head |-> h]
<1>1. h \in Slots /\ r.event_buffer \in Buffers(EventRecords) /\ r.buffer_file.e \in Seq(EventRecords)
  BY RecorderParts, BufferParts
<1>2. /\ t.event_buffer = [r.event_buffer EXCEPT ![h] = x] /\ t.state_buffer = r.state_buffer
      /\ t.buffer_file = r.buffer_file /\ t.event_buffer_head = h /\ t.state_buffer_head = r.state_buffer_head
      /\ x \in EventRecords
  BY EventFields
<1>4. Sound(t, StatesShown(r, c, d), Append(EventsShown(r, c, d), x))
  BY EventSound DEF Whole
<1> HIDE DEF t, x
<1>5. Held(t.event_buffer, 0, h + 1) = Append(Held(r.event_buffer, 0, h), x)
  <2>1. Fits(0, h)
    BY <1>1 DEF Slots, Fits
  <2>2. PICK y \in EventRecords, b \in Buffers(EventRecords), z \in Slots :
            y = x /\ b = r.event_buffer /\ z = h /\ Fits(0, z)
    BY <1>1, <1>2, <2>1
  <2>3. Held([b EXCEPT ![z] = y], 0, z + 1) = Append(Held(b, 0, z), y)
    BY <2>2, HeldAppend
  <2> QED
    BY <1>2, <2>2, <2>3
<1>6. h + 0 = h /\ r.state_buffer_head + 0 = r.state_buffer_head
  BY RecorderParts DEF Slots
<1>7. EventsShown(r, c, d) = r.buffer_file.e \o Held(r.event_buffer, 0, h)
  BY <1>6 DEF EventsShown, EventsFrom, EventsTo
<1>8. Held(r.event_buffer, 0, h) \in Seq(EventRecords)
  <2>1. Fits(0, h)
    BY <1>1 DEF Slots, Fits
  <2> QED
    BY <1>1, <2>1, HeldFacts
<1>9. EventsShown(t, a, d) = Append(EventsShown(r, c, d), x)
  <2>1. EventsShown(t, a, d) = r.buffer_file.e \o Held(t.event_buffer, 0, h + 1)
    BY <1>2 DEF EventsShown, EventsFrom, EventsTo
  <2>2. PICK f \in Seq(EventRecords), g \in Seq(EventRecords), y \in EventRecords :
            f = r.buffer_file.e /\ g = Held(r.event_buffer, 0, h) /\ y = x
    BY <1>1, <1>2, <1>8
  <2>3. f \o Append(g, y) = Append(f \o g, y)
    BY JoinAppend
  <2> QED
    BY <1>5, <1>7, <2>1, <2>2, <2>3
<1>10. StatesShown(t, a, d) = StatesShown(r, c, d)
  BY <1>2, <1>6 DEF StatesShown, StatesFrom, StatesTo
<1>11. Whole(t, a, d)
  BY <1>2, <1>4, <1>9, <1>10 DEF Whole
<1> QED
  BY <1>11 DEF t

\* The counting of what has been written.
LEMMA WholeCounts ==
    ASSUME NEW r \in Recorders, NEW c \in CallPlaces, NEW d \in DumpPlace, Whole(r, c, d),
           d.step = "none", c.head + 2 <= BufferMax
    PROVE  /\ c.step = "count_state" => Whole(count_state(r, c.head), [c EXCEPT !.step = "check_state"], d)
           /\ c.step = "count_event" => Whole(count_event(r, c.head), [c EXCEPT !.step = "check_event"], d)
<1> DEFINE h == c.head
<1>1. h \in Slots /\ r.state_buffer_head \in Slots /\ r.event_buffer_head \in Slots
  BY RecorderParts DEF CallPlaces
<1>2. /\ r.state_buffer_head + 0 = r.state_buffer_head /\ r.event_buffer_head + 0 = r.event_buffer_head
      /\ (h + 1) + 0 = h + 1
  BY <1>1 DEF Slots
<1>3. ASSUME c.step = "count_state" PROVE Whole(count_state(r, h), [c EXCEPT !.step = "check_state"], d)
  <2>1. PICK t \in Recorders :
            /\ t = count_state(r, h) /\ SameStack(r, t) /\ t.state_buffer_head = h + 1
            /\ t.event_buffer_head = r.event_buffer_head /\ t.buffer_file = r.buffer_file
            /\ t.state_buffer = r.state_buffer /\ t.event_buffer = r.event_buffer
    BY <1>1, CountFields
  <2>2. PICK a \in CallPlaces : a = [c EXCEPT !.step = "check_state"] /\ a.step = "check_state"
    BY StepTypes DEF CallSteps
  <2>3. h = r.state_buffer_head
    BY <1>3 DEF Whole
  <2>4. StatesShown(t, a, d) = StatesShown(r, c, d) /\ EventsShown(t, a, d) = EventsShown(r, c, d)
    BY <1>2, <1>3, <2>1, <2>2, <2>3 DEF StatesShown, EventsShown, StatesFrom, EventsFrom, StatesTo, EventsTo
  <2>5. /\ t.state_stack = r.state_stack /\ t.num_states = r.num_states /\ t.num_events = r.num_events
        /\ StatesShown(t, a, d) = StatesShown(r, c, d) /\ EventsShown(t, a, d) = EventsShown(r, c, d)
    BY <2>1, <2>4 DEF SameStack
  <2>6. a.step \notin {"count_state", "count_event"} /\ d.step # "states" /\ d.step # "events"
    BY <2>2
  <2>7. Whole(t, a, d)
    BY <2>5, <2>6 DEF Whole, Sound
  <2> QED
    BY <2>1, <2>2, <2>7
<1>4. ASSUME c.step = "count_event" PROVE Whole(count_event(r, h), [c EXCEPT !.step = "check_event"], d)
  <2>1. PICK t \in Recorders :
            /\ t = count_event(r, h) /\ SameStack(r, t) /\ t.event_buffer_head = h + 1
            /\ t.state_buffer_head = r.state_buffer_head /\ t.buffer_file = r.buffer_file
            /\ t.state_buffer = r.state_buffer /\ t.event_buffer = r.event_buffer
    BY <1>1, CountFields
  <2>2. PICK a \in CallPlaces : a = [c EXCEPT !.step = "check_event"] /\ a.step = "check_event"
    BY StepTypes DEF CallSteps
  <2>3. h = r.event_buffer_head
    BY <1>4 DEF Whole
  <2>4. StatesShown(t, a, d) = StatesShown(r, c, d) /\ EventsShown(t, a, d) = EventsShown(r, c, d)
    BY <1>2, <1>4, <2>1, <2>2, <2>3 DEF StatesShown, EventsShown, StatesFrom, EventsFrom, StatesTo, EventsTo
  <2>5. /\ t.state_stack = r.state_stack /\ t.num_states = r.num_states /\ t.num_events = r.num_events
        /\ StatesShown(t, a, d) = StatesShown(r, c, d) /\ EventsShown(t, a, d) = EventsShown(r, c, d)
    BY <2>1, <2>4 DEF SameStack
  <2>6. a.step \notin {"count_state", "count_event"} /\ d.step # "states" /\ d.step # "events"
    BY <2>2
  <2>7. Whole(t, a, d)
    BY <2>5, <2>6 DEF Whole, Sound
  <2> QED
    BY <2>1, <2>2, <2>7
<1> QED
  BY <1>3, <1>4

\* A call that ends or dumps, and a dump that begins.
LEMMA WholeChecked ==
    ASSUME NEW r \in Recorders, NEW c \in CallPlaces, NEW d \in DumpPlace, Whole(r, c, d),
           c.step \notin {"count_state", "count_event"}, d.step = "none",
           NEW a \in CallPlaces, a.step \notin {"count_state", "count_event"},
           NEW b \in DumpPlace, b.step = "none" \/ (b.step = "states" /\ b.i = 0)
    PROVE  Whole(r, a, b)
<1>1. StatesShown(r, a, b) = StatesShown(r, c, d) /\ EventsShown(r, a, b) = EventsShown(r, c, d)
  BY DEF StatesShown, EventsShown, StatesFrom, EventsFrom, StatesTo, EventsTo
<1>2. 0 <= r.state_buffer_head
  BY RecorderParts DEF Slots
<1> QED
  BY <1>1, <1>2, WholeSame

\* Each step of a dump.
LEMMA WholeDumps ==
    ASSUME NEW r \in Recorders, NEW c \in CallPlaces, NEW d \in DumpPlace, Whole(r, c, d),
           c.step \notin {"count_state", "count_event"}, NEW b \in DumpPlace
    PROVE  /\ /\ d.step = "states" /\ d.i < r.state_buffer_head /\ b.step = "states" /\ b.i = d.i + 1
              => Whole(dump_state(r, d.i), c, b)
           /\ /\ d.step = "states" /\ ~(d.i < r.state_buffer_head) /\ b.step = "events" /\ b.i = 0
              => Whole(r, c, b)
           /\ /\ d.step = "events" /\ d.i < r.event_buffer_head /\ b.step = "events" /\ b.i = d.i + 1
              => Whole(dump_event(r, d.i), c, b)
           /\ /\ d.step = "events" /\ ~(d.i < r.event_buffer_head) /\ b.step = "rewind_events"
              => Whole(r, c, b)
           /\ d.step = "rewind_events" /\ b.step = "rewind_states" => Whole(rewind_events(r), c, b)
           /\ d.step = "rewind_states" /\ b.step = "none" => Whole(rewind_states(r), c, b)
<1> DEFINE sh == r.state_buffer_head
           eh == r.event_buffer_head
           i == d.i
<1>1. /\ sh \in Slots /\ eh \in Slots /\ i \in Slots
      /\ r.state_buffer \in Buffers(StateRecords) /\ r.event_buffer \in Buffers(EventRecords)
      /\ r.buffer_file.s \in Seq(StateRecords) /\ r.buffer_file.e \in Seq(EventRecords)
  BY RecorderParts, BufferParts DEF DumpPlace
<1>2. sh + 0 = sh /\ eh + 0 = eh /\ 0 + 0 = 0 /\ 0 <= sh /\ 0 <= eh /\ 0 \in Slots
  BY <1>1 DEF Slots
<1>3. /\ Held(r.state_buffer, sh, sh) = <<>> /\ Held(r.event_buffer, eh, eh) = <<>>
      /\ Held(r.state_buffer, 0, 0) = <<>> /\ Held(r.event_buffer, 0, 0) = <<>>
  <2>1. \A h \in Slots : Fits(h, h)
    BY DEF Slots, Fits
  <2> QED
    BY <1>1, <1>2, <2>1, HeldFacts
<1> USE DEF StatesShown, EventsShown, StatesFrom, EventsFrom, StatesTo, EventsTo
<1>4. ASSUME d.step = "states", i < sh, b.step = "states", b.i = i + 1
      PROVE  Whole(dump_state(r, i), c, b)
  <2>1. PICK t \in Recorders :
            /\ t = dump_state(r, i) /\ SameStack(r, t)
            /\ t.state_buffer_head = sh /\ t.event_buffer_head = eh
            /\ t.state_buffer = r.state_buffer /\ t.event_buffer = r.event_buffer
            /\ t.buffer_file.s = Append(r.buffer_file.s, r.state_buffer[i])
            /\ t.buffer_file.e = r.buffer_file.e
    BY <1>1, DumpFields
  <2>5. FitsMore(i, sh)
    BY <1>1, <1>4 DEF Slots, FitsMore
  <2>2. Append(r.buffer_file.s, r.state_buffer[i]) \o Held(r.state_buffer, i + 1, sh)
            = r.buffer_file.s \o Held(r.state_buffer, i, sh)
    <3>1. PICK f \in Seq(StateRecords), y \in Buffers(StateRecords), j \in Slots, z \in Slots :
              f = r.buffer_file.s /\ y = r.state_buffer /\ j = i /\ z = sh /\ FitsMore(j, z)
      BY <1>1, <2>5
    <3>2. FitsMore(j, z)
      BY <3>1
    <3>3. Moved(f, y, j, z)
      BY <3>2, HeldMoves
    <3> QED
      BY <3>1, <3>3 DEF Moved
  <2>3. StatesShown(t, c, b) = StatesShown(r, c, d) /\ EventsShown(t, c, b) = EventsShown(r, c, d)
    BY <1>2, <1>4, <2>1, <2>2
  <2>4. b.i <= sh
    BY <1>1, <1>4 DEF Slots
  <2> QED
    BY <1>4, <2>1, <2>3, <2>4, WholeSame DEF SameStack
<1>5. ASSUME d.step = "states", ~(i < sh), b.step = "events", b.i = 0
      PROVE  Whole(r, c, b)
  <2>1. i = sh
    BY <1>1, <1>5 DEF Whole, Slots
  <2>2. StatesShown(r, c, b) = StatesShown(r, c, d) /\ EventsShown(r, c, b) = EventsShown(r, c, d)
    BY <1>5, <2>1
  <2> QED
    BY <1>2, <1>5, <2>2, WholeSame
<1>6. ASSUME d.step = "events", i < eh, b.step = "events", b.i = i + 1
      PROVE  Whole(dump_event(r, i), c, b)
  <2>1. PICK t \in Recorders :
            /\ t = dump_event(r, i) /\ SameStack(r, t)
            /\ t.state_buffer_head = sh /\ t.event_buffer_head = eh
            /\ t.state_buffer = r.state_buffer /\ t.event_buffer = r.event_buffer
            /\ t.buffer_file.e = Append(r.buffer_file.e, r.event_buffer[i])
            /\ t.buffer_file.s = r.buffer_file.s
    BY <1>1, DumpFields
  <2>5. FitsMore(i, eh)
    BY <1>1, <1>6 DEF Slots, FitsMore
  <2>2. Append(r.buffer_file.e, r.event_buffer[i]) \o Held(r.event_buffer, i + 1, eh)
            = r.buffer_file.e \o Held(r.event_buffer, i, eh)
    <3>1. PICK f \in Seq(EventRecords), y \in Buffers(EventRecords), j \in Slots, z \in Slots :
              f = r.buffer_file.e /\ y = r.event_buffer /\ j = i /\ z = eh /\ FitsMore(j, z)
      BY <1>1, <2>5
    <3>2. FitsMore(j, z)
      BY <3>1
    <3>3. Moved(f, y, j, z)
      BY <3>2, HeldMoves
    <3> QED
      BY <3>1, <3>3 DEF Moved
  <2>3. StatesShown(t, c, b) = StatesShown(r, c, d) /\ EventsShown(t, c, b) = EventsShown(r, c, d)
    BY <1>2, <1>6, <2>1, <2>2
  <2>4. b.i <= eh
    BY <1>1, <1>6 DEF Slots
  <2> QED
    BY <1>6, <2>1, <2>3, <2>4, WholeSame DEF SameStack
<1>7. ASSUME d.step = "events", ~(i < eh), b.step = "rewind_events"
      PROVE  Whole(r, c, b)
  <2>1. i = eh
    BY <1>1, <1>7 DEF Whole, Slots
  <2>2. StatesShown(r, c, b) = StatesShown(r, c, d) /\ EventsShown(r, c, b) = EventsShown(r, c, d)
    BY <1>7, <2>1
  <2> QED
    BY <1>7, <2>2, WholeSame
<1>8. ASSUME d.step = "rewind_events", b.step = "rewind_states"
      PROVE  Whole(rewind_events(r), c, b)
  <2>1. PICK t \in Recorders :
            /\ t = rewind_events(r) /\ SameStack(r, t) /\ t.event_buffer_head = 0
            /\ t.state_buffer_head = sh /\ t.buffer_file = r.buffer_file
            /\ t.state_buffer = r.state_buffer /\ t.event_buffer = r.event_buffer
    BY RewindFields
  <2>2. StatesShown(t, c, b) = StatesShown(r, c, d) /\ EventsShown(t, c, b) = EventsShown(r, c, d)
    BY <1>2, <1>3, <1>8, <2>1
  <2> QED
    BY <1>8, <2>1, <2>2, WholeSame DEF SameStack
<1>9. ASSUME d.step = "rewind_states", b.step = "none"
      PROVE  Whole(rewind_states(r), c, b)
  <2>1. PICK t \in Recorders :
            /\ t = rewind_states(r) /\ SameStack(r, t) /\ t.state_buffer_head = 0
            /\ t.event_buffer_head = eh /\ t.buffer_file = r.buffer_file
            /\ t.state_buffer = r.state_buffer /\ t.event_buffer = r.event_buffer
    BY RewindFields
  <2>2. StatesShown(t, c, b) = StatesShown(r, c, d) /\ EventsShown(t, c, b) = EventsShown(r, c, d)
    BY <1>2, <1>3, <1>9, <2>1
  <2> QED
    BY <1>9, <2>1, <2>2, WholeSame DEF SameStack
<1> QED
  BY <1>4, <1>5, <1>6, <1>7, <1>8, <1>9
-----------------------------------------------------------------------------
(* No state is begun beyond the bound *)

LEMMA FirstOf ==
    ASSUME NEW T \in SUBSET Nat, T # {}
    PROVE  \E x \in T : \A y \in T : x <= y
<1> DEFINE R == {ss \in Nat \X Nat : ss[1] < ss[2]}
<1>1. \E x \in T : \A y \in T : ~(<<y, x>> \in OpToRel(<, Nat))
  BY NatLessThanWellFounded, WFMin
<1>2. OpToRel(<, Nat) = R
  BY DEF OpToRel
<1>3. PICK x \in T : \A y \in T : ~(<<y, x>> \in R)
  BY <1>1, <1>2
<1>4. ASSUME NEW y \in T PROVE x <= y
  <2>1. ~(<<y, x>> \in R) /\ <<y, x>> \in Nat \X Nat
    BY <1>3
  <2> QED
    BY <2>1
<1> QED
  BY <1>4

LEMMA LeadsGrows ==
    ASSUME NEW v \in Views, NEW z \in Views, NEW c \in Seq(Calling), Leads(c, v, z)
    PROVE  v.num <= z.num
<1> DEFINE n == Len(c)
<1>1. n \in Nat
  BY ListFacts
<1>2. PICK p \in [0 .. n -> Views] :
        p[0] = v /\ p[n] = z /\ \A j \in 1 .. n : Does(c[j], p[j - 1], p[j])
  BY DEF Leads
<1> HIDE DEF n
<1>3. \A j \in 0 .. n : p[j].num \in Nat
  BY <1>2 DEF Views
<1> DEFINE T == {j \in 0 .. n : ~(v.num <= p[j].num)}
<1>4. T = {}
  <2> SUFFICES ASSUME T # {} PROVE FALSE
    OBVIOUS
  <2>1. T \in SUBSET Nat
    BY <1>1
  <2>2. PICK m \in T : \A y \in T : m <= y
    BY <2>1, FirstOf
  <2>3. m \in 0 .. n /\ ~(v.num <= p[m].num) /\ v.num \in Nat
    BY <2>2 DEF Views
  <2>4. m # 0
    BY <1>2, <2>3
  <2>5. m \in 1 .. n /\ m - 1 \in 0 .. n /\ m - 1 < m
    BY <1>1, <2>3, <2>4
  <2>6. m - 1 \notin T
    BY <2>2, <2>5
  <2>7. v.num <= p[m - 1].num
    BY <2>5, <2>6
  <2>8. Does(c[m], p[m - 1], p[m])
    BY <1>2, <2>5
  <2>9. p[m].num = p[m - 1].num \/ p[m].num = p[m - 1].num + 1
    BY <2>8 DEF Does
  <2> QED
    BY <1>3, <2>3, <2>5, <2>7, <2>9
<1>5. n \in 0 .. n
  BY <1>1
<1> QED
  BY <1>2, <1>4, <1>5

LEMMA NumIsBounded ==
    ASSUME TypesInv, NestInv, ~recorder.freed
    PROVE  recorder.num_states <= MaxStates + 2
<1> DEFINE n == recorder.num_states
           k == recorder.state_stack
           v == View(contexts, k, n)
<1>1. /\ setup \in Setups /\ recorder \in Recorders /\ todo \in Seq(Calling) /\ call \in CallPlaces
      /\ Parts(call, dump, phase, todo)
  BY TypesAre
<1>2. call.step # "none" => todo # <<>>
  BY <1>1 DEF Parts, CallPlaces, CallSteps
<1>3. Left \in Seq(Calling)
  BY <1>1, <1>2, TailTypes DEF Left
<1>4. n \in Nat /\ k \in Seq(StateRecords)
  BY <1>1, RecorderParts
<1>5. Nested(setup, contexts, k, n, Left) /\ Placed(setup, contexts) /\ Below(setup, contexts, k)
  BY DEF NestInv, Nested
<1>6. v \in Views /\ v.num = n
  BY <1>1, <1>4, <1>5, NestedParts
<1>7. PICK z \in Views : Leads(Left, v, z) /\ Ends(setup, contexts, z)
  BY <1>5 DEF Nested
<1>8. n <= z.num /\ z.num \in Nat
  BY <1>3, <1>6, <1>7, LeadsGrows DEF Views
<1>9. z.num + InHand(contexts[Len(contexts)].at) <= MaxStates + 2 /\ InHand(contexts[Len(contexts)].at) \in {0, 1}
  BY <1>7 DEF Ends, InHand
<1> QED
  BY <1>4, <1>8, <1>9
-----------------------------------------------------------------------------
(* What the recorder holds is all that was recorded *)

\* The dump that counts: that of mir_destroy when there is one.
Current == IF phase = "dump" THEN dump["mir_destroy"] ELSE dump["worker"]

\* Until mir_destroy dumps, and on if the worker had stopped by then.
Followed == phase \in {"alive", "dying"} \/ owed.all
WholeInv ==
    /\ Followed => Whole(recorder, call, Current)
    /\ owed = [states |-> owed.states, events |-> owed.events, all |-> owed.all]
    /\ owed.all => todo = <<>> /\ TopAt \in {"dead", "destroy"} /\ phase \notin {"alive", "dying"}

LEMMA DumpPlaceIs == \A d \in DumpPlaces, t \in Dumpers : d[t] \in DumpPlace
BY DEF DumpPlaces, DumpPlace

\* A worker that has stopped makes no call, and its dump is over.
LEMMA Stopped ==
    ASSUME TypesInv, WholeInv, owed.all
    PROVE  /\ todo = <<>> /\ call.step = "none" /\ dump["worker"].step = "none"
           /\ TopAt \notin TaskLabels \cup {"loop"} /\ phase \notin {"alive", "dying"}
           /\ \A label \in TaskLabels \cup {"loop"} : ~At(label)
<1>1. call \in CallPlaces /\ dump \in DumpPlaces /\ Parts(call, dump, phase, todo)
  BY TypesAre
<1>2. todo = <<>> /\ TopAt \in {"dead", "destroy"} /\ phase \notin {"alive", "dying"}
  BY DEF WholeInv
<1>3. call.step = "none" /\ dump["worker"].step = "none"
  BY <1>1, <1>2 DEF Parts, CallPlaces, CallSteps
<1> QED
  BY <1>2, <1>3 DEF At, TaskLabels

\* A worker that makes a call is followed while mir_destroy does not dump.
LEMMA CallFollowed ==
    ASSUME TypesInv, WholeInv, todo # <<>>
    PROVE  /\ ~owed.all /\ (Followed => phase \in {"alive", "dying"} /\ Current = dump["worker"])
           /\ Current \in DumpPlace
           /\ Followed /\ call.step # "dump" => Current.step = "none"
<1>1. call \in CallPlaces /\ dump \in DumpPlaces /\ Parts(call, dump, phase, todo)
  BY TypesAre
<1>2. ~owed.all
  BY DEF WholeInv
<1>3. Followed => phase \in {"alive", "dying"} /\ Current = dump["worker"]
  BY <1>2 DEF Followed, Current
<1>4. Current \in DumpPlace
  BY <1>1, DumpPlaceIs DEF Current, Dumpers
<1> QED
  BY <1>1, <1>2, <1>3, <1>4 DEF Parts

LEMMA InitWhole == Init => WholeInv
<1> SUFFICES ASSUME Init PROVE WholeInv
  OBVIOUS
<1>1. TypesInv /\ recorder \in Recorders /\ recorder = NewRecorder /\ Fits(0, 0)
  BY InitTypes, TypesAre DEF Init, Fits
<1>2. /\ Current = NoDump /\ call.step = "none"
      /\ recorder.state_buffer_head = 0 /\ recorder.event_buffer_head = 0
      /\ recorder.state_stack = <<>> /\ recorder.num_states = 0 /\ recorder.num_events = 0
      /\ recorder.buffer_file.s = <<>> /\ recorder.buffer_file.e = <<>>
      /\ recorder.state_buffer \in Buffers(StateRecords) /\ recorder.event_buffer \in Buffers(EventRecords)
  BY <1>1, BufferParts DEF Init, NewRecorder, Current, Dumpers, NoCall
<1>3. NoDump.step = "none"
  BY DEF NoDump
<1>4. 0 + 0 = 0 /\ 0 <= 0
  OBVIOUS
<1>5. /\ Held(recorder.state_buffer, 0, 0) = <<>> /\ Held(recorder.event_buffer, 0, 0) = <<>>
      /\ <<>> \o <<>> = <<>>
  BY <1>1, <1>2, <1>4, HeldFacts
<1>6. StatesShown(recorder, call, Current) = <<>> /\ EventsShown(recorder, call, Current) = <<>>
  BY <1>2, <1>3, <1>4, <1>5 DEF StatesShown, EventsShown, StatesFrom, EventsFrom, StatesTo, EventsTo
<1>7. Sound(recorder, <<>>, <<>>)
  <2>1. /\ <<>> \in Seq(StateRecords) /\ <<>> \in Seq(EventRecords) /\ Len(<<>>) = 0
        /\ 1 .. 0 = {} /\ 0 + 0 = 0
    OBVIOUS
  <2>2. IdsIn(<<>>) = {}
    BY DEF IdsIn
  <2>3. EventsUpTo(0) = <<>>
    BY DEF EventsUpTo
  <2>4. Chain(<<>>) /\ Enclosed(<<>>, <<>>)
    BY <2>1 DEF Chain, Enclosed
  <2>5. {i % Ids : i \in 1 .. 0} = {}
    BY <2>1
  <2> QED
    BY <1>2, <2>1, <2>2, <2>3, <2>4, <2>5 DEF Sound
<1>8. Whole(recorder, call, Current)
  BY <1>2, <1>3, <1>6, <1>7 DEF Whole
<1>9. owed = [states |-> {}, events |-> {}, all |-> FALSE]
  BY DEF Init
<1> QED
  BY <1>2, <1>8, <1>9 DEF WholeInv

\* Calls.
LEMMA CallWhole ==
    ASSUME StackInv, WholeInv, CallStep
    PROVE  WholeInv'
<1>1. TypesInv /\ HeadsInv /\ NestInv
  BY DEF StackInv
<1>2. recorder \in Recorders /\ call \in CallPlaces /\ dump \in DumpPlaces /\ Parts(call, dump, phase, todo)
      /\ todo \in Seq(Calling) /\ (recorder.freed <=> phase = "freed")
      /\ (~recorder.freed => HeadsOk(recorder, call, dump))
  BY <1>1, TypesAre
<1>3. todo # <<>> /\ owed' = owed /\ phase' = phase
  BY <1>2 DEF CallStep, BeginState, EndState, NoteEvent, CountState, CountEvent, CheckFull, CallFreed,
              Calls, UserVars, Parts
<1>4. ~owed.all /\ Current \in DumpPlace
  BY <1>1, <1>3, CallFollowed
<1>5. owed' = [states |-> owed'.states, events |-> owed'.events, all |-> owed'.all] /\ ~owed'.all
  BY <1>3, <1>4 DEF WholeInv
<1>6. SUFFICES ASSUME Followed PROVE Whole(recorder', call', Current')
  <2>1. Followed' <=> Followed
    BY <1>3 DEF Followed
  <2> QED
    BY <1>5, <1>6, <2>1 DEF WholeInv
<1>7. /\ phase \in {"alive", "dying"} /\ Current = dump["worker"] /\ Current' = dump'["worker"]
      /\ call.step # "dump" => Current.step = "none"
      /\ ~recorder.freed /\ Whole(recorder, call, Current)
  <2>1. phase \in {"alive", "dying"} /\ Current = dump["worker"] /\ (call.step # "dump" => Current.step = "none")
    BY <1>1, <1>3, <1>6, CallFollowed
  <2>2. Current' = dump'["worker"] /\ ~recorder.freed
    BY <1>2, <1>3, <2>1 DEF Current
  <2> QED
    BY <1>6, <2>1, <2>2 DEF WholeInv
<1>8. PICK r \in Recorders, c \in CallPlaces, d \in DumpPlace : r = recorder /\ c = call /\ d = Current
  BY <1>2, <1>4, Zenon
<1>9. CASE BeginState
  <2>1. /\ c.step = "none" /\ Head(todo) \in Names /\ recorder' = state_begin(r, Head(todo))
        /\ call' = NoCall /\ Current' = d
    BY <1>7, <1>8, <1>9 DEF BeginState, Calls, CallEnds
  <2> QED
    BY <1>7, <1>8, <2>1, WholeBegins
<1>10. CASE EndState
  <2>1. /\ c.step = "none" /\ recorder' = pop_state(r)
        /\ call' = [step |-> "count_state", head |-> r.state_buffer_head] /\ Current' = d
    BY <1>7, <1>8, <1>10 DEF EndState, Calls
  <2>2. r.state_stack # <<>>
    BY <1>1, <1>8, <1>10, EndNests
  <2>3. d.step = "none"
    BY <1>7, <1>8, <2>1
  <2> QED
    BY <1>7, <1>8, <2>1, <2>2, <2>3, WholeEnds
<1>11. CASE NoteEvent
  <2>1. /\ c.step = "none" /\ recorder' = note_event(r)
        /\ call' = [step |-> "count_event", head |-> r.event_buffer_head] /\ Current' = d
    BY <1>7, <1>8, <1>11 DEF NoteEvent, Calls
  <2>2. d.step = "none"
    BY <1>7, <1>8, <2>1
  <2> QED
    BY <1>7, <1>8, <2>1, <2>2, WholeNotes
<1>12. CASE CountState
  <2>1. c.step = "count_state" /\ c.head = r.state_buffer_head
    BY <1>7, <1>8, <1>12 DEF CountState, Whole
  <2>2. /\ recorder' = count_state(r, c.head) /\ call' = [c EXCEPT !.step = "check_state"] /\ Current' = d
    BY <1>7, <1>8, <1>12, <2>1 DEF CountState
  <2>3. d.step = "none" /\ c.head + 2 <= BufferMax
    BY <1>2, <1>7, <1>8, <2>1 DEF HeadsOk
  <2> QED
    BY <1>7, <1>8, <2>1, <2>2, <2>3, WholeCounts
<1>13. CASE CountEvent
  <2>1. c.step = "count_event" /\ c.head = r.event_buffer_head
    BY <1>7, <1>8, <1>13 DEF CountEvent, Whole
  <2>2. /\ recorder' = count_event(r, c.head) /\ call' = [c EXCEPT !.step = "check_event"] /\ Current' = d
    BY <1>7, <1>8, <1>13, <2>1 DEF CountEvent
  <2>3. d.step = "none" /\ c.head + 2 <= BufferMax
    BY <1>2, <1>7, <1>8, <2>1 DEF HeadsOk
  <2> QED
    BY <1>7, <1>8, <2>1, <2>2, <2>3, WholeCounts
<1>14. CASE CheckFull
  <2>1. c.step \in {"check_state", "check_event"} /\ recorder' = r /\ d.step = "none"
    BY <1>7, <1>8, <1>14 DEF CheckFull
  <2>2. PICK a \in CallPlaces, b \in DumpPlace :
            /\ a = call' /\ b = Current' /\ a.step \notin {"count_state", "count_event"}
            /\ b.step = "none" \/ (b.step = "states" /\ b.i = 0)
    <3>1. CASE NearFull
      <4>1. /\ call' = [call EXCEPT !.step = "dump"]
            /\ dump' = [dump EXCEPT !["worker"] = [step |-> "states", i |-> 0]]
        BY <1>14, <3>1 DEF CheckFull
      <4>2. 0 \in Slots /\ "states" \in DumpSteps /\ "worker" \in Dumpers /\ "dump" \in CallSteps
        BY DEF Slots, DumpSteps, Dumpers, CallSteps
      <4>3. dump' \in DumpPlaces /\ dump'["worker"].step = "states" /\ dump'["worker"].i = 0
        BY <1>2, <4>1, <4>2 DEF DumpPlaces
      <4>4. call' \in CallPlaces /\ call'.step = "dump" /\ dump'["worker"] \in DumpPlace
        BY <1>2, <4>1, <4>2, <4>3, StepTypes, DumpPlaceIs
      <4> QED
        BY <1>7, <4>3, <4>4
    <3>2. CASE ~NearFull
      <4>1. call' = NoCall /\ dump' = dump
        BY <1>14, <3>2 DEF CheckFull, CallEnds
      <4> QED
        BY <1>7, <1>8, <2>1, <4>1, StepTypes
    <3> QED
      BY <3>1, <3>2
  <2> QED
    BY <1>7, <1>8, <2>1, <2>2, WholeChecked
<1>15. CASE CallFreed
  BY <1>7, <1>15 DEF CallFreed
<1> QED
  BY <1>9, <1>10, <1>11, <1>12, <1>13, <1>14, <1>15 DEF CallStep

\* Dumps.
LEMMA DumpWhole ==
    ASSUME StackInv, WholeInv, NEW t \in Dumpers, DumpStep(t)
    PROVE  WholeInv'
<1>1. TypesInv /\ HeadsInv /\ NestInv
  BY DEF StackInv
<1>2. recorder \in Recorders /\ call \in CallPlaces /\ dump \in DumpPlaces /\ Parts(call, dump, phase, todo)
      /\ (\A u \in Dumpers : u = "worker" \/ u = "mir_destroy") /\ {"worker", "mir_destroy"} \subseteq Dumpers
  BY <1>1, TypesAre DEF Dumpers
<1>3. /\ owed' = owed /\ contexts' = contexts /\ dump[t].step # "none"
      /\ \/ todo' = todo /\ call' = call /\ phase' = phase
         \/ RewindStates(t) /\ t = "worker" /\ todo' = Tail(todo) /\ call' = NoCall /\ phase' = phase
         \/ RewindStates(t) /\ t = "mir_destroy" /\ todo' = todo /\ call' = call /\ phase' = "dumped"
  BY <1>2 DEF DumpStep, DumpStates, DumpEvents, RewindEvents, RewindStates, Dumps, UserVars, CallEnds
<1>4. owed.all => t = "mir_destroy" /\ call.step = "none" /\ phase = "dump"
  BY <1>1, <1>2, <1>3, Stopped DEF Parts
<1>5. /\ owed' = [states |-> owed'.states, events |-> owed'.events, all |-> owed'.all]
      /\ owed'.all => todo' = <<>> /\ TopAt' \in {"dead", "destroy"} /\ phase' \notin {"alive", "dying"}
  BY <1>3, <1>4 DEF WholeInv, TopAt
<1>6. SUFFICES ASSUME Followed' PROVE Whole(recorder', call', Current')
  BY <1>5, <1>6 DEF WholeInv
<1>7. /\ Followed /\ Current = dump[t] /\ call.step \notin {"count_state", "count_event"}
      /\ IF RewindStates(t) THEN Current'.step = "none" ELSE Current' = dump'[t]
      /\ ~recorder.freed
  <2>1. Followed /\ ~recorder.freed
    BY <1>3, <1>6 DEF Followed, DumpStep, DumpStates, DumpEvents, RewindEvents, RewindStates, Dumps
  <2>2. phase \in {"alive", "dying"} => t = "worker" /\ phase' = phase /\ call.step = "dump"
    BY <1>2, <1>3 DEF Parts
  <2>3. RewindStates(t) => dump'[t].step = "none" /\ \A u \in Dumpers : u # t => dump'[u] = dump[u]
    <3>1. RewindStates(t) => dump' = [dump EXCEPT ![t] = NoDump]
      BY DEF RewindStates
    <3>2. NoDump.step = "none"
      BY DEF NoDump
    <3> QED
      BY <1>2, <3>1, <3>2 DEF DumpPlaces
  <2>4. CASE phase \in {"alive", "dying"}
    <3>1. Current = dump[t] /\ Current' = dump'[t] /\ call.step \notin {"count_state", "count_event"}
      BY <2>2, <2>4 DEF Current
    <3> QED
      BY <2>1, <2>3, <3>1
  <2>5. CASE owed.all
    <3>1. /\ t = "mir_destroy" /\ call.step = "none" /\ phase = "dump" /\ dump["worker"].step = "none"
      BY <1>1, <1>4, <2>5, Stopped
    <3>2. Current = dump[t] /\ call.step \notin {"count_state", "count_event"}
      BY <3>1 DEF Current
    <3>3. CASE ~RewindStates(t)
      <4>1. phase' = phase
        BY <1>3, <3>3
      <4> QED
        BY <2>1, <3>1, <3>2, <3>3, <4>1 DEF Current
    <3>4. CASE RewindStates(t)
      <4>1. phase' = "dumped"
        BY <3>1, <3>4 DEF RewindStates
      <4>2. Current' = dump'["worker"] /\ dump'["worker"] = dump["worker"]
        BY <1>2, <2>3, <3>1, <3>4, <4>1 DEF Current
      <4> QED
        BY <2>1, <3>1, <3>2, <3>4, <4>2
    <3> QED
      BY <3>3, <3>4
  <2> QED
    BY <2>1, <2>4, <2>5 DEF Followed
<1>8. /\ Whole(recorder, call, Current) /\ Current \in DumpPlace /\ dump' \in DumpPlaces /\ Current' \in DumpPlace
  <2>1. dump' \in DumpPlaces
    <3>1. TypesInv'
      BY <1>1, DumpStepTypes, RewindTypes DEF DumpStep
    <3> QED
      BY <3>1 DEF TypesInv, DumpPlaces
  <2>2. Current' = dump'["worker"] \/ Current' = dump'["mir_destroy"]
    BY DEF Current
  <2> QED
    BY <1>2, <1>7, <2>1, <2>2, DumpPlaceIs DEF WholeInv
<1>9. PICK r \in Recorders, c \in CallPlaces, d \in DumpPlace, b \in DumpPlace :
            r = recorder /\ c = call /\ d = Current /\ b = Current'
  BY <1>2, <1>8, Zenon
<1>10. Whole(r, c, d) /\ c.step \notin {"count_state", "count_event"} /\ dump[t] = d
  BY <1>7, <1>8, <1>9
<1>11. ASSUME NEW step \in {"states", "events", "rewind_events", "rewind_states"}, NEW i \in Slots,
              DumpGoes(t, step, i), ~RewindStates(t)
       PROVE  b.step = step /\ b.i = i
  <2>1. dump'[t] = [step |-> step, i |-> i]
    BY <1>2, <1>11 DEF DumpGoes, DumpPlaces
  <2> QED
    BY <1>7, <1>9, <1>11, <2>1
<1>12. 0 \in Slots /\ d.i \in Slots /\ r.state_buffer_head \in Slots /\ r.event_buffer_head \in Slots
  BY RecorderParts DEF Slots, DumpPlace
<1>13. \A x, h \in Slots : x < h => x + 1 \in Slots
  BY DEF Slots
<1>14. CASE DumpStates(t)
  <2>0. d.step = "states" /\ ~RewindStates(t) /\ call' = c
    BY <1>9, <1>10, <1>14 DEF DumpStates, RewindStates, Dumps
  <2>1. CASE d.i < r.state_buffer_head
    <3>1. recorder' = dump_state(r, d.i) /\ DumpGoes(t, "states", d.i + 1) /\ d.i + 1 \in Slots
      BY <1>9, <1>10, <1>12, <1>13, <1>14, <2>1 DEF DumpStates
    <3>2. b.step = "states" /\ b.i = d.i + 1
      BY <1>11, <2>0, <3>1
    <3> QED
      BY <1>9, <1>10, <2>0, <2>1, <3>1, <3>2, WholeDumps
  <2>2. CASE ~(d.i < r.state_buffer_head)
    <3>1. recorder' = r /\ DumpGoes(t, "events", 0)
      BY <1>9, <1>10, <1>14, <2>2 DEF DumpStates
    <3>2. b.step = "events" /\ b.i = 0
      BY <1>11, <1>12, <2>0, <3>1
    <3> QED
      BY <1>9, <1>10, <2>0, <2>2, <3>1, <3>2, WholeDumps
  <2> QED
    BY <2>1, <2>2
<1>15. CASE DumpEvents(t)
  <2>0. d.step = "events" /\ ~RewindStates(t) /\ call' = c
    BY <1>9, <1>10, <1>15 DEF DumpEvents, RewindStates, Dumps
  <2>1. CASE d.i < r.event_buffer_head
    <3>1. recorder' = dump_event(r, d.i) /\ DumpGoes(t, "events", d.i + 1) /\ d.i + 1 \in Slots
      BY <1>9, <1>10, <1>12, <1>13, <1>15, <2>1 DEF DumpEvents
    <3>2. b.step = "events" /\ b.i = d.i + 1
      BY <1>11, <2>0, <3>1
    <3> QED
      BY <1>9, <1>10, <2>0, <2>1, <3>1, <3>2, WholeDumps
  <2>2. CASE ~(d.i < r.event_buffer_head)
    <3>1. recorder' = r /\ DumpGoes(t, "rewind_events", 0)
      BY <1>9, <1>10, <1>15, <2>2 DEF DumpEvents
    <3>2. b.step = "rewind_events"
      BY <1>11, <1>12, <2>0, <3>1
    <3> QED
      BY <1>9, <1>10, <2>0, <2>2, <3>1, <3>2, WholeDumps
  <2> QED
    BY <2>1, <2>2
<1>16. CASE RewindEvents(t)
  <2>1. d.step = "rewind_events" /\ ~RewindStates(t) /\ call' = c /\ recorder' = rewind_events(r)
        /\ DumpGoes(t, "rewind_states", 0)
    BY <1>9, <1>10, <1>16 DEF RewindEvents, RewindStates, Dumps
  <2>2. b.step = "rewind_states"
    BY <1>11, <1>12, <2>1
  <2> QED
    BY <1>9, <1>10, <2>1, <2>2, WholeDumps
<1>17. CASE RewindStates(t)
  <2>1. d.step = "rewind_states" /\ recorder' = rewind_states(r) /\ b.step = "none"
        /\ (call' = c \/ call' = NoCall)
    BY <1>7, <1>9, <1>10, <1>17 DEF RewindStates, Dumps, CallEnds
  <2>2. Whole(rewind_states(r), c, b)
    BY <1>10, <2>1, WholeDumps
  <2>3. CASE call' = c
    BY <1>9, <2>1, <2>2, <2>3
  <2>4. CASE call' = NoCall
    <3>1. NoCall \in CallPlaces /\ NoCall.step = "none" /\ rewind_states(r) \in Recorders
      BY StepTypes, RewindFields
    <3>2. PICK u \in Recorders : u = rewind_states(r)
      BY <3>1
    <3>3. Whole(u, NoCall, b)
      BY <1>10, <2>1, <2>2, <3>1, <3>2, WholeChecked
    <3> QED
      BY <1>9, <2>1, <2>4, <3>2, <3>3
  <2> QED
    BY <2>1, <2>3, <2>4
<1> QED
  BY <1>14, <1>15, <1>16, <1>17 DEF DumpStep

\* What the worker does between its calls.
LEMMA UserWhole ==
    ASSUME StackInv, WholeInv, UserStep \/ WorkerStep \/ CallDestroy
    PROVE  WholeInv'
<1>1. (\E old \in TaskLabels \cup {"loop"} : At(old)) /\ UNCHANGED Frame
  BY DEF UserStep, BeginCreate, Push, PushRefused, EndCreate, BeginWait, EndWait, Allocate,
         WorkerStep, Take, Execute, EndTask, NotBusy, SeeDying, CallDestroy, TaskLabels
<1>2. ~owed.all
  BY <1>1, Stopped DEF StackInv
<1>3. Followed' = Followed /\ Current' = Current
  BY <1>1 DEF Frame, Followed, Current
<1> QED
  BY <1>1, <1>2, <1>3 DEF WholeInv, Frame

LEMMA PhaseWhole ==
    ASSUME StackInv, WholeInv, Freeze \/ BeginDump \/ Free
    PROVE  WholeInv'
<1>1. TypesInv
  BY DEF StackInv
<1>2. /\ recorder \in Recorders /\ call \in CallPlaces /\ dump \in DumpPlaces
      /\ recorder.freed <=> phase = "freed"
      /\ Parts(call, dump, phase, todo) /\ {"worker", "mir_destroy"} \subseteq Dumpers
  BY <1>1, TypesAre DEF Dumpers
<1>3. CASE Freeze
  <2>1. phase = "alive" /\ phase' = "dying" /\ UNCHANGED <<recorder, contexts, todo, call, dump, owed>>
    BY <1>3 DEF Freeze
  <2>2. ~owed.all
    BY <2>1 DEF WholeInv
  <2>3. Followed /\ Current' = Current
    BY <2>1 DEF Followed, Current
  <2> QED
    BY <2>1, <2>2, <2>3 DEF WholeInv
<1>4. CASE BeginDump
  <2>1. /\ phase = "dying" /\ phase' = "dump" /\ UNCHANGED <<recorder, contexts, todo, call>>
        /\ dump' = [dump EXCEPT !["mir_destroy"] = [step |-> "states", i |-> 0]]
    BY <1>4 DEF BeginDump, DumpGoes
  <2>2. PICK s, e, q :
            /\ q = Quiet /\ owed' = [owed EXCEPT !.states = s, !.events = e, !.all = q]
    BY <1>4 DEF BeginDump
  <2>3. owed' = [states |-> s, events |-> e, all |-> q]
    <3>1. PICK a, b, c : owed = [states |-> a, events |-> b, all |-> c]
      BY DEF WholeInv
    <3> QED
      BY <2>2, <3>1
  <2>4. owed'.states = s /\ owed'.events = e /\ owed'.all = q
    BY <2>3
  <2>5. SUFFICES ASSUME q PROVE Whole(recorder', call', Current')
    <3>1. Followed' <=> q
      BY <2>1, <2>4 DEF Followed
    <3>2. q => todo' = <<>> /\ TopAt' \in {"dead", "destroy"} /\ phase' \notin {"alive", "dying"}
      BY <2>1, <2>2 DEF Quiet, TopAt
    <3> QED
      BY <2>3, <2>4, <2>5, <3>1, <3>2 DEF WholeInv
  <2>6. call.step = "none" /\ dump["worker"].step = "none"
    BY <1>2, <2>2, <2>5 DEF Quiet, Parts, CallPlaces, CallSteps
  <2>7. Whole(recorder, call, dump["worker"])
    BY <2>1 DEF WholeInv, Followed, Current
  <2>8. 0 \in Slots /\ "states" \in DumpSteps
    BY DEF Slots, DumpSteps
  <2>9. PICK b \in DumpPlace : b = Current' /\ b.step = "states" /\ b.i = 0
    <3>1. dump' \in DumpPlaces /\ dump'["mir_destroy"].step = "states" /\ dump'["mir_destroy"].i = 0
      BY <1>2, <2>1, <2>8 DEF DumpPlaces
    <3>2. Current' = dump'["mir_destroy"]
      BY <2>1 DEF Current
    <3> QED
      BY <1>2, <3>1, <3>2, DumpPlaceIs
  <2>10. PICK d \in DumpPlace : d = dump["worker"]
    BY <1>2, DumpPlaceIs
  <2>11. Whole(recorder, call, b)
    BY <1>2, <2>6, <2>7, <2>9, <2>10, WholeChecked
  <2> QED
    BY <2>1, <2>9, <2>11
<1>5. CASE Free
  <2>1. /\ phase = "dumped" /\ phase' = "freed" /\ recorder' = destroy(recorder)
        /\ UNCHANGED <<contexts, todo, call, dump, owed>>
    BY <1>5 DEF Free
  <2>2. Followed' = Followed /\ Current' = Current
    BY <2>1 DEF Followed, Current
  <2>3. SUFFICES ASSUME Followed PROVE Whole(recorder', call', Current')
    <3>1. TopAt' = TopAt
      BY <2>1 DEF TopAt
    <3> QED
      BY <2>1, <2>2, <2>3, <3>1 DEF WholeInv
  <2>4. Whole(recorder, call, Current)
    BY <2>3 DEF WholeInv
  <2>5. PICK t \in Recorders :
            /\ t = recorder' /\ t.state_stack = recorder.state_stack
            /\ t.num_states = recorder.num_states /\ t.num_events = recorder.num_events
            /\ t.buffer_file = recorder.buffer_file
            /\ t.state_buffer_head = recorder.state_buffer_head /\ t.event_buffer_head = recorder.event_buffer_head
            /\ t.state_buffer = recorder.state_buffer /\ t.event_buffer = recorder.event_buffer
    BY <1>2, <2>1, DestroyFields
  <2>6. StatesShown(t, call, Current) = StatesShown(recorder, call, Current)
        /\ EventsShown(t, call, Current) = EventsShown(recorder, call, Current)
    BY <2>5 DEF StatesShown, EventsShown, StatesFrom, EventsFrom, StatesTo, EventsTo
  <2>7. Whole(t, call, Current)
    BY <2>4, <2>5, <2>6 DEF Whole, Sound
  <2> QED
    BY <2>1, <2>2, <2>5, <2>7
<1> QED
  BY <1>3, <1>4, <1>5

\* The invariant: what is open is what the worker is inside, and nothing that it has
\* recorded is lost or doubled, whichever call and whichever dump are under way.
THEOREM WholeInvariant == Spec => [](StackInv /\ WholeInv)
<1>1. Init => WholeInv
  BY InitWhole
<1>2. StackInv /\ WholeInv /\ [Next]_vars => WholeInv'
  <2> SUFFICES ASSUME StackInv, WholeInv, [Next]_vars PROVE WholeInv'
    OBVIOUS
  <2>1. CASE UNCHANGED vars
    BY <2>1 DEF vars, WholeInv, Followed, Current, TopAt
  <2> QED
    BY <2>1, CallWhole, DumpWhole, UserWhole, PhaseWhole DEF Next, DestroyStep
<1> QED
  BY <1>1, <1>2, StackInvariant, PTL DEF Spec
-----------------------------------------------------------------------------
(* What mir_destroy owes to the file, while the worker still records and dumps *)

\* The lines that both dumps have still to do: m is where the dump of mir_destroy
\* stands and w that of the worker.
StatesLive(r, m, w) == {j \in Slots :
    /\ j < r.state_buffer_head
    /\ m.step = "states" /\ m.i <= j
    /\ w.step = "none" \/ (w.step = "states" /\ w.i <= j)}
EventsLive(r, m, w) == {j \in Slots :
    /\ j < r.event_buffer_head
    /\ m.step = "states" \/ (m.step = "events" /\ m.i <= j)
    /\ w.step \in {"none", "states"} \/ (w.step = "events" /\ w.i <= j)}

\* All of X is in the file f or among the lines L of the buffer b.
In(x, f) == \E n \in 1 .. Len(f) : f[n] = x
Kept(X, f, b, L) == \A x \in X : In(x, f) \/ \E j \in L : b[j] = x
Owes(X, Y, r, m, w) ==
    /\ Kept(X, r.buffer_file.s, r.state_buffer, StatesLive(r, m, w))
    /\ Kept(Y, r.buffer_file.e, r.event_buffer, EventsLive(r, m, w))

\* What the worker's dump has passed is in the file, when that of mir_destroy starts.
Start == [step |-> "states", i |-> 0]
StateLines(r) == {r.state_buffer[j] : j \in {i \in Slots : i < r.state_buffer_head}}
EventLines(r) == {r.event_buffer[j] : j \in {i \in Slots : i < r.event_buffer_head}}
Passes(r, w) == Owes(StateLines(r), EventLines(r), r, Start, w)

OwedInv ==
    /\ phase \in {"alive", "dying"} => Passes(recorder, dump["worker"])
    /\ Owes(owed.states, owed.events, recorder, dump["mir_destroy"], dump["worker"])
    /\ call.step = "count_state" /\ (phase \in {"alive", "dying"} \/ dump["mir_destroy"].step = "states")
            => call.head = recorder.state_buffer_head
    /\ call.step = "count_event" /\ (phase \in {"alive", "dying"} \/ dump["mir_destroy"].step \in {"states", "events"})
            => call.head = recorder.event_buffer_head

LEMMA InAppend ==
    ASSUME NEW S, NEW f \in Seq(S), NEW y \in S
    PROVE  In(y, Append(f, y)) /\ \A x : In(x, f) => In(x, Append(f, y))
<1>1. Append(f, y) \in Seq(S) /\ Len(Append(f, y)) = Len(f) + 1 /\ Len(f) \in Nat
  BY AppendFacts, ListFacts
<1>2. Append(f, y)[Len(f) + 1] = y /\ \A n \in 1 .. Len(f) : Append(f, y)[n] = f[n]
  BY AppendFacts
<1>3. Len(f) + 1 \in 1 .. Len(f) + 1 /\ \A n \in 1 .. Len(f) : n \in 1 .. Len(f) + 1
  BY <1>1
<1> QED
  BY <1>1, <1>2, <1>3 DEF In

\* A line of the buffer goes to the file.
LEMMA KeptMoves ==
    ASSUME NEW S, NEW f \in Seq(S), NEW b \in Buffers(S), NEW c \in Slots,
           NEW X, NEW L, NEW M, Kept(X, f, b, L), \A j \in L : j \in M \/ j = c
    PROVE  Kept(X, Append(f, b[c]), b, M)
<1>1. b[c] \in S
  BY DEF Buffers
<1>2. In(b[c], Append(f, b[c])) /\ \A x : In(x, f) => In(x, Append(f, b[c]))
  BY <1>1, InAppend
<1> QED
  BY <1>2 DEF Kept

LEMMA OwesStays ==
    ASSUME NEW X, NEW Y, NEW r, NEW t, NEW m, NEW n, NEW w, NEW v, Owes(X, Y, r, m, w),
           t.buffer_file = r.buffer_file,
           \A j \in StatesLive(r, m, w) : j \in StatesLive(t, n, v) /\ t.state_buffer[j] = r.state_buffer[j],
           \A j \in EventsLive(r, m, w) : j \in EventsLive(t, n, v) /\ t.event_buffer[j] = r.event_buffer[j]
    PROVE  Owes(X, Y, t, n, v)
BY DEF Owes, Kept

\* A dump that goes on to the next line.
LEMMA OwesMoves ==
    ASSUME NEW X, NEW Y, NEW r \in Recorders, NEW m, NEW n, NEW w, NEW v, NEW i \in Slots, Owes(X, Y, r, m, w)
    PROVE  /\ /\ \A j \in StatesLive(r, m, w) : j \in StatesLive(r, n, v) \/ j = i
              /\ \A j \in EventsLive(r, m, w) : j \in EventsLive(r, n, v)
              => Owes(X, Y, dump_state(r, i), n, v)
           /\ /\ \A j \in EventsLive(r, m, w) : j \in EventsLive(r, n, v) \/ j = i
              /\ \A j \in StatesLive(r, m, w) : j \in StatesLive(r, n, v)
              => Owes(X, Y, dump_event(r, i), n, v)
<1>1. PICK f \in Seq(StateRecords), b \in Buffers(StateRecords), e \in Seq(EventRecords), c \in Buffers(EventRecords) :
          f = r.buffer_file.s /\ b = r.state_buffer /\ e = r.buffer_file.e /\ c = r.event_buffer
  BY RecorderParts, BufferParts
<1>2. Kept(X, f, b, StatesLive(r, m, w)) /\ Kept(Y, e, c, EventsLive(r, m, w))
  BY <1>1 DEF Owes
<1>3. ASSUME \A j \in StatesLive(r, m, w) : j \in StatesLive(r, n, v) \/ j = i,
             \A j \in EventsLive(r, m, w) : j \in EventsLive(r, n, v)
      PROVE  Owes(X, Y, dump_state(r, i), n, v)
  <2>1. PICK t : t = dump_state(r, i)
    OBVIOUS
  <2>2. /\ t.state_buffer_head = r.state_buffer_head /\ t.event_buffer_head = r.event_buffer_head
        /\ t.state_buffer = b /\ t.event_buffer = c /\ t.buffer_file.s = Append(f, b[i]) /\ t.buffer_file.e = e
    BY <1>1, <2>1, DumpFields
  <2>3. StatesLive(t, n, v) = StatesLive(r, n, v) /\ EventsLive(t, n, v) = EventsLive(r, n, v)
    BY <2>2 DEF StatesLive, EventsLive
  <2>4. Kept(X, Append(f, b[i]), b, StatesLive(r, n, v))
    BY <1>2, <1>3, KeptMoves
  <2>5. Kept(Y, e, c, EventsLive(r, n, v))
    BY <1>2, <1>3 DEF Kept
  <2> QED
    BY <2>1, <2>2, <2>3, <2>4, <2>5 DEF Owes
<1>4. ASSUME \A j \in EventsLive(r, m, w) : j \in EventsLive(r, n, v) \/ j = i,
             \A j \in StatesLive(r, m, w) : j \in StatesLive(r, n, v)
      PROVE  Owes(X, Y, dump_event(r, i), n, v)
  <2>1. PICK t : t = dump_event(r, i)
    OBVIOUS
  <2>2. /\ t.state_buffer_head = r.state_buffer_head /\ t.event_buffer_head = r.event_buffer_head
        /\ t.state_buffer = b /\ t.event_buffer = c /\ t.buffer_file.e = Append(e, c[i]) /\ t.buffer_file.s = f
    BY <1>1, <2>1, DumpFields
  <2>3. StatesLive(t, n, v) = StatesLive(r, n, v) /\ EventsLive(t, n, v) = EventsLive(r, n, v)
    BY <2>2 DEF StatesLive, EventsLive
  <2>4. Kept(Y, Append(e, c[i]), c, EventsLive(r, n, v))
    BY <1>2, <1>4, KeptMoves
  <2>5. Kept(X, f, b, StatesLive(r, n, v))
    BY <1>2, <1>4 DEF Kept
  <2> QED
    BY <2>1, <2>2, <2>3, <2>4, <2>5 DEF Owes
<1> QED
  BY <1>3, <1>4

\* A dump goes on from d to e, and makes t of the recorder r.
Goes(r, t, d, e) ==
    \/ d.step = "states" /\ d.i < r.state_buffer_head /\ e.step = "states" /\ e.i = d.i + 1 /\ t = dump_state(r, d.i)
    \/ d.step = "states" /\ ~(d.i < r.state_buffer_head) /\ e.step = "events" /\ e.i = 0 /\ t = r
    \/ d.step = "events" /\ d.i < r.event_buffer_head /\ e.step = "events" /\ e.i = d.i + 1 /\ t = dump_event(r, d.i)
    \/ d.step = "events" /\ ~(d.i < r.event_buffer_head) /\ e.step = "rewind_events" /\ t = r
    \/ d.step = "rewind_events" /\ e.step = "rewind_states" /\ t = rewind_events(r)
    \/ d.step = "rewind_states" /\ e.step = "none" /\ t = rewind_states(r)

LEMMA GoesFields ==
    ASSUME NEW r \in Recorders, NEW d \in DumpPlace, NEW e \in DumpPlace, NEW t, Goes(r, t, d, e)
    PROVE  /\ t.state_buffer = r.state_buffer /\ t.event_buffer = r.event_buffer
           /\ t.state_buffer_head = IF d.step = "rewind_states" THEN 0 ELSE r.state_buffer_head
           /\ t.event_buffer_head = IF d.step = "rewind_events" THEN 0 ELSE r.event_buffer_head
           /\ d.step \in {"rewind_events", "rewind_states"} => t.buffer_file = r.buffer_file
<1>1. d.i \in Slots
  BY DEF DumpPlace
<1> QED
  BY <1>1, DumpFields, RewindFields DEF Goes

LEMMA OwesDumps ==
    ASSUME NEW X, NEW Y, NEW r \in Recorders, NEW t, NEW m \in DumpPlace, NEW w \in DumpPlace, NEW e \in DumpPlace,
           Owes(X, Y, r, m, w)
    PROVE  /\ Goes(r, t, m, e) => Owes(X, Y, t, e, w)
           /\ Goes(r, t, w, e) => Owes(X, Y, t, m, e)
<1>1. /\ m.i \in Slots /\ w.i \in Slots /\ e.i \in Slots
      /\ r.state_buffer_head \in Slots /\ r.event_buffer_head \in Slots
  BY RecorderParts DEF DumpPlace
<1>2. \A i, j \in Slots : i <= j => i + 1 <= j \/ j = i
  BY DEF Slots
<1>3. \A i, j, h \in Slots : i <= j /\ j < h => i < h
  BY DEF Slots
<1>4. \A j \in Slots : 0 <= j
  BY DEF Slots
<1>5. ASSUME Goes(r, t, m, e) PROVE Owes(X, Y, t, e, w)
  <2>1. CASE m.step = "states" /\ m.i < r.state_buffer_head
    <3>1. t = dump_state(r, m.i) /\ e.step = "states" /\ e.i = m.i + 1
      BY <1>5, <2>1 DEF Goes
    <3>2. \A j \in StatesLive(r, m, w) : j \in StatesLive(r, e, w) \/ j = m.i
      BY <1>1, <1>2, <2>1, <3>1 DEF StatesLive
    <3>3. \A j \in EventsLive(r, m, w) : j \in EventsLive(r, e, w)
      BY <2>1, <3>1 DEF EventsLive
    <3> QED
      BY <1>1, <3>1, <3>2, <3>3, OwesMoves
  <2>2. CASE m.step = "events" /\ m.i < r.event_buffer_head
    <3>1. t = dump_event(r, m.i) /\ e.step = "events" /\ e.i = m.i + 1
      BY <1>5, <2>2 DEF Goes
    <3>2. \A j \in EventsLive(r, m, w) : j \in EventsLive(r, e, w) \/ j = m.i
      BY <1>1, <1>2, <2>2, <3>1 DEF EventsLive
    <3>3. \A j \in StatesLive(r, m, w) : j \in StatesLive(r, e, w)
      BY <2>2 DEF StatesLive
    <3> QED
      BY <1>1, <3>1, <3>2, <3>3, OwesMoves
  <2>3. CASE m.step = "states" /\ ~(m.i < r.state_buffer_head)
    <3>1. t = r /\ e.step = "events" /\ e.i = 0
      BY <1>5, <2>3 DEF Goes
    <3>2. StatesLive(r, m, w) = {}
      BY <1>1, <1>3, <2>3 DEF StatesLive
    <3>3. \A j \in EventsLive(r, m, w) : j \in EventsLive(r, e, w)
      BY <1>4, <2>3, <3>1 DEF EventsLive
    <3> QED
      BY <3>1, <3>2, <3>3, OwesStays
  <2>4. CASE m.step = "events" /\ ~(m.i < r.event_buffer_head)
    <3>1. t = r
      BY <1>5, <2>4 DEF Goes
    <3>2. StatesLive(r, m, w) = {} /\ EventsLive(r, m, w) = {}
      BY <1>1, <1>3, <2>4 DEF StatesLive, EventsLive
    <3> QED
      BY <3>1, <3>2, OwesStays
  <2>5. CASE m.step \notin {"states", "events"}
    <3>1. t.buffer_file = r.buffer_file
      BY <1>5, <2>5, GoesFields DEF Goes
    <3>2. StatesLive(r, m, w) = {} /\ EventsLive(r, m, w) = {}
      BY <2>5 DEF StatesLive, EventsLive
    <3> QED
      BY <3>1, <3>2, OwesStays
  <2> QED
    BY <2>1, <2>2, <2>3, <2>4, <2>5
<1>6. ASSUME Goes(r, t, w, e) PROVE Owes(X, Y, t, m, e)
  <2>1. CASE w.step = "states" /\ w.i < r.state_buffer_head
    <3>1. t = dump_state(r, w.i) /\ e.step = "states" /\ e.i = w.i + 1
      BY <1>6, <2>1 DEF Goes
    <3>2. \A j \in StatesLive(r, m, w) : j \in StatesLive(r, m, e) \/ j = w.i
      BY <1>1, <1>2, <2>1, <3>1 DEF StatesLive
    <3>3. \A j \in EventsLive(r, m, w) : j \in EventsLive(r, m, e)
      BY <2>1, <3>1 DEF EventsLive
    <3> QED
      BY <1>1, <3>1, <3>2, <3>3, OwesMoves
  <2>2. CASE w.step = "events" /\ w.i < r.event_buffer_head
    <3>1. t = dump_event(r, w.i) /\ e.step = "events" /\ e.i = w.i + 1
      BY <1>6, <2>2 DEF Goes
    <3>2. \A j \in EventsLive(r, m, w) : j \in EventsLive(r, m, e) \/ j = w.i
      BY <1>1, <1>2, <2>2, <3>1 DEF EventsLive
    <3>3. \A j \in StatesLive(r, m, w) : j \in StatesLive(r, m, e)
      BY <2>2 DEF StatesLive
    <3> QED
      BY <1>1, <3>1, <3>2, <3>3, OwesMoves
  <2>3. CASE w.step = "states" /\ ~(w.i < r.state_buffer_head)
    <3>1. t = r /\ e.step = "events" /\ e.i = 0
      BY <1>6, <2>3 DEF Goes
    <3>2. StatesLive(r, m, w) = {}
      BY <1>1, <1>3, <2>3 DEF StatesLive
    <3>3. \A j \in EventsLive(r, m, w) : j \in EventsLive(r, m, e)
      BY <1>4, <2>3, <3>1 DEF EventsLive
    <3> QED
      BY <3>1, <3>2, <3>3, OwesStays
  <2>4. CASE w.step = "events" /\ ~(w.i < r.event_buffer_head)
    <3>1. t = r
      BY <1>6, <2>4 DEF Goes
    <3>2. StatesLive(r, m, w) = {} /\ EventsLive(r, m, w) = {}
      BY <1>1, <1>3, <2>4 DEF StatesLive, EventsLive
    <3> QED
      BY <3>1, <3>2, OwesStays
  <2>5. CASE w.step \notin {"states", "events"}
    <3>1. t.buffer_file = r.buffer_file
      BY <1>6, <2>5, GoesFields DEF Goes
    <3>2. StatesLive(r, m, w) = {} /\ EventsLive(r, m, w) = {}
      BY <1>6, <2>5 DEF StatesLive, EventsLive, Goes
    <3> QED
      BY <3>1, <3>2, OwesStays
  <2> QED
    BY <2>1, <2>2, <2>3, <2>4, <2>5
<1> QED
  BY <1>5, <1>6

LEMMA PassesNone ==
    ASSUME NEW r \in Recorders, NEW w, w.step = "none" \/ w = Start
    PROVE  Passes(r, w)
<1>1. \A j \in Slots : 0 <= j
  BY DEF Slots
<1>2. Start.step = "states" /\ Start.i = 0
  BY DEF Start
<1>3. /\ \A j \in Slots : j < r.state_buffer_head => j \in StatesLive(r, Start, w)
      /\ \A j \in Slots : j < r.event_buffer_head => j \in EventsLive(r, Start, w)
  BY <1>1, <1>2 DEF StatesLive, EventsLive
<1> QED
  BY <1>3 DEF Passes, Owes, Kept, StateLines, EventLines

LEMMA PassesDumps ==
    ASSUME NEW r \in Recorders, NEW t, NEW w \in DumpPlace, NEW e \in DumpPlace, Passes(r, w), Goes(r, t, w, e)
    PROVE  Passes(t, e)
<1>1. Start \in DumpPlace
  BY DEF Start, DumpPlace, DumpSteps, Slots
<1>2. Owes(StateLines(r), EventLines(r), t, Start, e)
  BY <1>1, OwesDumps DEF Passes
<1>3. StateLines(t) \subseteq StateLines(r) /\ EventLines(t) \subseteq EventLines(r)
  <2>1. \A j \in Slots : ~(j < 0)
    BY DEF Slots
  <2> QED
    BY <2>1, GoesFields DEF StateLines, EventLines
<1> QED
  BY <1>2, <1>3 DEF Passes, Owes, Kept

\* When the dump of mir_destroy starts it owes all that has been recorded.
LEMMA PassesOwes ==
    ASSUME NEW r \in Recorders, NEW w, Passes(r, w)
    PROVE  Owes(ToSet(StatesOf(r)), ToSet(EventsOf(r)), r, Start, w)
<1>1. ASSUME NEW S, NEW f \in Seq(S), NEW b \in Buffers(S), NEW h \in Slots, NEW x \in ToSet(f \o Held(b, 0, h))
      PROVE  In(x, f) \/ x \in {b[j] : j \in {i \in Slots : i < h}}
  <2>1. Fits(0, h)
    BY DEF Fits, Slots
  <2>2. PICK g \in Seq(S) : g = Held(b, 0, h) /\ Len(g) = h - 0 /\ \A i \in 1 .. h - 0 : g[i] = b[0 + i - 1]
    BY <2>1, HeldFacts
  <2>3. /\ f \o g \in Seq(S) /\ Len(f \o g) = Len(f) + Len(g)
        /\ \A i \in 1 .. Len(f) : (f \o g)[i] = f[i]
        /\ \A i \in 1 .. Len(g) : (f \o g)[Len(f) + i] = g[i]
    BY JoinFacts
  <2>4. PICK i \in 1 .. Len(f \o g) : x = (f \o g)[i]
    BY <2>2, <2>3 DEF ToSet
  <2>5. Len(f) \in Nat /\ Len(g) \in Nat /\ Len(g) = h /\ h \in Nat /\ h <= BufferMax
    BY <2>2 DEF Slots
  <2>6. CASE i \in 1 .. Len(f)
    BY <2>3, <2>4, <2>6 DEF In
  <2>7. CASE i \notin 1 .. Len(f)
    <3>1. PICK n \in 1 .. Len(g) : i = Len(f) + n
      <4>1. i - Len(f) \in 1 .. Len(g) /\ i = Len(f) + (i - Len(f))
        BY <2>3, <2>5, <2>7
      <4> QED
        BY <4>1
    <3>2. x = g[n] /\ n \in 1 .. h - 0
      BY <2>3, <2>4, <2>5, <3>1
    <3>3. x = b[0 + n - 1]
      BY <2>2, <3>2
    <3>4. 0 + n - 1 \in Slots /\ 0 + n - 1 < h
      BY <2>5, <3>2 DEF Slots
    <3> QED
      BY <3>3, <3>4
  <2> QED
    BY <2>6, <2>7
<1>2. /\ r.state_buffer_head \in Slots /\ r.event_buffer_head \in Slots
      /\ r.state_buffer \in Buffers(StateRecords) /\ r.event_buffer \in Buffers(EventRecords)
      /\ r.buffer_file.s \in Seq(StateRecords) /\ r.buffer_file.e \in Seq(EventRecords)
  BY RecorderParts, BufferParts
<1>3. \A x \in ToSet(StatesOf(r)) : In(x, r.buffer_file.s) \/ x \in StateLines(r)
  BY <1>1, <1>2 DEF StatesOf, StateLines
<1>4. \A x \in ToSet(EventsOf(r)) : In(x, r.buffer_file.e) \/ x \in EventLines(r)
  BY <1>1, <1>2 DEF EventsOf, EventLines
<1> QED
  BY <1>3, <1>4 DEF Passes, Owes, Kept

LEMMA InitOwed == Init => OwedInv
<1> SUFFICES ASSUME Init PROVE OwedInv
  OBVIOUS
<1>1. recorder \in Recorders /\ call.step = "none"
  BY InitTypes, TypesAre DEF Init, NoCall
<1>2. dump["worker"] = NoDump /\ NoDump.step = "none"
  BY DEF Init, NoDump, Dumpers
<1>3. owed.states = {} /\ owed.events = {}
  BY DEF Init
<1>4. Passes(recorder, dump["worker"])
  BY <1>1, <1>2, PassesNone
<1> QED
  BY <1>1, <1>3, <1>4 DEF OwedInv, Owes, Kept

\* What a call does to the recorder leaves the lines below the heads, and is made
\* while the worker does not dump.
LEMMA CallKeeps ==
    ASSUME TypesInv, HeadsInv, NestInv, OwedInv,
           BeginState \/ EndState \/ NoteEvent \/ CountState \/ CountEvent
    PROVE  /\ recorder' \in Recorders /\ recorder'.buffer_file = recorder.buffer_file
           /\ dump["mir_destroy"].step = "states" => recorder.state_buffer_head <= recorder'.state_buffer_head
           /\ dump["mir_destroy"].step \in {"states", "events"}
                    => recorder.event_buffer_head <= recorder'.event_buffer_head
           /\ \A j \in Slots : j < recorder.state_buffer_head =>
                    recorder'.state_buffer[j] = recorder.state_buffer[j]
           /\ \A j \in Slots : j < recorder.event_buffer_head =>
                    recorder'.event_buffer[j] = recorder.event_buffer[j]
           /\ dump' = dump /\ dump["worker"].step = "none" /\ phase' = phase /\ owed' = owed
           /\ call'.step = "count_state" => call'.head = recorder'.state_buffer_head
           /\ call'.step = "count_event" => call'.head = recorder'.event_buffer_head
<1>1. /\ recorder \in Recorders /\ call \in CallPlaces
      /\ Parts(call, dump, phase, todo) /\ (~recorder.freed => HeadsOk(recorder, call, dump))
  BY TypesAre
<1>2. /\ recorder.state_buffer_head \in Slots /\ recorder.event_buffer_head \in Slots /\ call.head \in Slots
      /\ recorder.state_buffer \in [Slots -> StateRecords] /\ recorder.event_buffer \in [Slots -> EventRecords]
  BY <1>1, RecorderParts DEF CallPlaces
<1>3. /\ \A h \in Slots : h <= h /\ h <= h + 1
      /\ \A j, h \in Slots : j < h => j # h
  BY DEF Slots
<1>4. CASE BeginState
  <2>1. /\ Head(todo) \in Names /\ recorder' = state_begin(recorder, Head(todo)) /\ call.step = "none"
        /\ call' = NoCall /\ dump' = dump /\ phase' = phase /\ owed' = owed
    BY <1>4 DEF BeginState, Calls, CallEnds, UserVars
  <2>2. recorder' \in Recorders /\ SameBuffers(recorder, recorder')
    BY <1>1, <2>1, BeginFields
  <2>3. NoCall.step = "none" /\ dump["worker"].step = "none"
    BY <1>1, <2>1, StepTypes DEF Parts
  <2> QED
    BY <1>2, <1>3, <2>1, <2>2, <2>3 DEF SameBuffers
<1>5. CASE EndState
  <2>1. /\ recorder' = pop_state(recorder) /\ call.step = "none"
        /\ call' = [step |-> "count_state", head |-> recorder.state_buffer_head]
        /\ dump' = dump /\ phase' = phase /\ owed' = owed
    BY <1>5 DEF EndState, Calls, UserVars
  <2>2. recorder.state_stack # <<>> /\ dump["worker"].step = "none"
    BY <1>1, <1>5, <2>1, EndNests DEF Parts
  <2> QED
    BY <1>1, <1>2, <1>3, <2>1, <2>2, EndFields
<1>6. CASE NoteEvent
  <2>1. /\ recorder' = note_event(recorder) /\ call.step = "none"
        /\ call' = [step |-> "count_event", head |-> recorder.event_buffer_head]
        /\ dump' = dump /\ phase' = phase /\ owed' = owed
    BY <1>6 DEF NoteEvent, Calls, UserVars
  <2>2. dump["worker"].step = "none"
    BY <1>1, <2>1 DEF Parts
  <2> QED
    BY <1>1, <1>2, <1>3, <2>1, <2>2, EventFields
<1>7. CASE CountState
  <2>1. PICK h \in {call.head, recorder.state_buffer_head} :
            /\ recorder' = count_state(recorder, h) /\ call.step = "count_state" /\ ~recorder.freed
            /\ call' = [call EXCEPT !.step = "check_state"] /\ dump' = dump /\ phase' = phase /\ owed' = owed
    BY <1>7 DEF CountState, UserVars
  <2>2. h \in Slots /\ h + 2 <= BufferMax
    BY <1>1, <1>2, <2>1 DEF HeadsOk
  <2>3. dump["mir_destroy"].step = "states" => h = recorder.state_buffer_head
    BY <2>1 DEF OwedInv
  <2>4. call'.step = "check_state" /\ dump["worker"].step = "none"
    BY <1>1, <2>1 DEF Parts, CallPlaces
  <2> QED
    BY <1>1, <1>2, <1>3, <2>1, <2>2, <2>3, <2>4, CountFields
<1>8. CASE CountEvent
  <2>1. PICK h \in {call.head, recorder.event_buffer_head} :
            /\ recorder' = count_event(recorder, h) /\ call.step = "count_event" /\ ~recorder.freed
            /\ call' = [call EXCEPT !.step = "check_event"] /\ dump' = dump /\ phase' = phase /\ owed' = owed
    BY <1>8 DEF CountEvent, UserVars
  <2>2. h \in Slots /\ h + 2 <= BufferMax
    BY <1>1, <1>2, <2>1 DEF HeadsOk
  <2>3. dump["mir_destroy"].step \in {"states", "events"} => h = recorder.event_buffer_head
    BY <2>1 DEF OwedInv
  <2>4. call'.step = "check_event" /\ dump["worker"].step = "none"
    BY <1>1, <2>1 DEF Parts, CallPlaces
  <2> QED
    BY <1>1, <1>2, <1>3, <2>1, <2>2, <2>3, <2>4, CountFields
<1> QED
  BY <1>4, <1>5, <1>6, <1>7, <1>8

LEMMA CallOwed ==
    ASSUME StackInv, OwedInv, CallStep
    PROVE  OwedInv'
<1>1. TypesInv /\ HeadsInv /\ NestInv
  BY DEF StackInv
<1>2. /\ recorder \in Recorders /\ call \in CallPlaces /\ dump \in DumpPlaces
      /\ Parts(call, dump, phase, todo) /\ (recorder.freed <=> phase = "freed")
      /\ "worker" \in Dumpers /\ "mir_destroy" \in Dumpers /\ "worker" # "mir_destroy"
  BY <1>1, TypesAre DEF Dumpers
<1>3. PICK r \in Recorders, m \in DumpPlace, w \in DumpPlace :
          r = recorder /\ m = dump["mir_destroy"] /\ w = dump["worker"]
  BY <1>2, DumpPlaceIs, Zenon
<1>4. Owes(owed.states, owed.events, r, m, w)
  BY <1>3 DEF OwedInv
<1>5. CASE BeginState \/ EndState \/ NoteEvent \/ CountState \/ CountEvent
  <2>1. PICK t \in Recorders : t = recorder'
    BY <1>1, <1>5, CallKeeps
  <2>2. /\ t.buffer_file = r.buffer_file
        /\ m.step = "states" => r.state_buffer_head <= t.state_buffer_head
        /\ m.step \in {"states", "events"} => r.event_buffer_head <= t.event_buffer_head
        /\ \A j \in Slots : j < r.state_buffer_head => t.state_buffer[j] = r.state_buffer[j]
        /\ \A j \in Slots : j < r.event_buffer_head => t.event_buffer[j] = r.event_buffer[j]
        /\ dump' = dump /\ w.step = "none" /\ phase' = phase /\ owed' = owed
        /\ call'.step = "count_state" => call'.head = t.state_buffer_head
        /\ call'.step = "count_event" => call'.head = t.event_buffer_head
    BY <1>1, <1>3, <1>5, <2>1, CallKeeps
  <2>3. \A j \in Slots : /\ j < r.state_buffer_head /\ m.step = "states" => j < t.state_buffer_head
                         /\ j < r.event_buffer_head /\ m.step \in {"states", "events"} => j < t.event_buffer_head
    <3>1. /\ r.state_buffer_head \in Slots /\ t.state_buffer_head \in Slots
          /\ r.event_buffer_head \in Slots /\ t.event_buffer_head \in Slots
      BY RecorderParts
    <3>2. \A j, g, h \in Slots : j < g /\ g <= h => j < h
      BY DEF Slots
    <3> QED
      BY <2>2, <3>1, <3>2
  <2>4. /\ \A j \in StatesLive(r, m, w) : j \in StatesLive(t, m, w) /\ t.state_buffer[j] = r.state_buffer[j]
        /\ \A j \in EventsLive(r, m, w) : j \in EventsLive(t, m, w) /\ t.event_buffer[j] = r.event_buffer[j]
    BY <2>2, <2>3 DEF StatesLive, EventsLive
  <2>5. Owes(owed.states, owed.events, t, m, w)
    BY <1>4, <2>2, <2>4, OwesStays
  <2>6. Passes(t, w)
    BY <2>2, PassesNone
  <2> QED
    BY <1>3, <2>1, <2>2, <2>5, <2>6 DEF OwedInv
<1>6. CASE CheckFull
  <2>1. /\ recorder' = recorder /\ phase' = phase /\ owed' = owed /\ w.step = "none"
        /\ call'.step \notin {"count_state", "count_event"}
        /\ dump' = dump \/ dump' = [dump EXCEPT !["worker"] = Start]
    <3>1. call.step \in {"check_state", "check_event"} /\ UNCHANGED <<recorder, phase, owed>>
      BY <1>6 DEF CheckFull, UserVars
    <3>2. CASE NearFull
      BY <1>2, <1>3, <1>6, <3>1, <3>2 DEF CheckFull, Parts, CallPlaces, Start
    <3>3. CASE ~NearFull
      BY <1>2, <1>3, <1>6, <3>1, <3>3 DEF CheckFull, CallEnds, NoCall, Parts
    <3> QED
      BY <3>2, <3>3
  <2>2. PICK v \in DumpPlace : /\ v = dump'["worker"] /\ dump'["mir_destroy"] = m
                               /\ v.step = "none" \/ v = Start
    <3>1. Start \in DumpPlace
      BY DEF Start, DumpPlace, DumpSteps, Slots
    <3>2. dump' = [dump EXCEPT !["worker"] = Start] => dump'["worker"] = Start /\ dump'["mir_destroy"] = m
      BY <1>2, <1>3 DEF DumpPlaces
    <3> QED
      BY <1>3, <2>1, <3>1, <3>2
  <2>3. \A j \in Slots : 0 <= j
    BY DEF Slots
  <2>4. /\ \A j \in StatesLive(r, m, w) : j \in StatesLive(r, m, v)
        /\ \A j \in EventsLive(r, m, w) : j \in EventsLive(r, m, v)
    BY <2>2, <2>3 DEF StatesLive, EventsLive, Start
  <2>5. Owes(owed.states, owed.events, r, m, v)
    BY <1>4, <2>4, OwesStays
  <2>6. Passes(r, v)
    BY <2>2, PassesNone
  <2> QED
    BY <1>3, <2>1, <2>2, <2>5, <2>6 DEF OwedInv
<1>7. CASE CallFreed
  <2>1. /\ recorder' = recorder /\ phase' = phase /\ owed' = owed /\ recorder.freed /\ call' = NoCall
        /\ dump' = [dump EXCEPT !["worker"] = NoDump]
    BY <1>7 DEF CallFreed, UserVars, CallEnds
  <2>2. phase = "freed" /\ m.step = "none" /\ dump'["mir_destroy"] = m /\ NoCall.step = "none"
    BY <1>2, <1>3, <2>1, StepTypes DEF Parts, DumpPlaces
  <2>3. StatesLive(r, m, w) = {} /\ EventsLive(r, m, w) = {}
    BY <2>2 DEF StatesLive, EventsLive
  <2>4. Owes(owed.states, owed.events, r, m, dump'["worker"])
    BY <1>4, <2>3, OwesStays
  <2> QED
    BY <1>3, <2>1, <2>2, <2>4 DEF OwedInv
<1> QED
  BY <1>5, <1>6, <1>7 DEF CallStep

\* A step of a dump.
LEMMA DumpGoesOn ==
    ASSUME TypesInv, NEW t \in Dumpers, DumpStep(t)
    PROVE  /\ Goes(recorder, recorder', dump[t], dump'[t]) /\ dump' \in DumpPlaces
           /\ \A u \in Dumpers : u # t => dump'[u] = dump[u]
           /\ owed' = owed /\ (call' = call \/ call' = NoCall)
           /\ phase' = phase \/ (phase' = "dumped" /\ t = "mir_destroy")
<1>1. recorder \in Recorders /\ dump \in DumpPlaces /\ dump[t] \in DumpPlace
  BY TypesAre, DumpPlaceIs
<1>2. PICK d \in DumpPlace : d = dump[t]
  BY <1>1
<1>3. /\ 0 \in Slots /\ d.i \in Slots
      /\ recorder.state_buffer_head \in Slots /\ recorder.event_buffer_head \in Slots
      /\ \A x, h \in Slots : x < h => x + 1 \in Slots
  BY <1>1, RecorderParts DEF DumpPlace, Slots
<1>4. ASSUME NEW step \in DumpSteps, NEW i \in Slots, DumpGoes(t, step, i)
      PROVE  /\ dump' \in DumpPlaces /\ dump'[t].step = step /\ dump'[t].i = i
             /\ \A u \in Dumpers : u # t => dump'[u] = dump[u]
  BY <1>1, <1>4 DEF DumpGoes, DumpPlaces
<1>5. {"states", "events", "rewind_events", "rewind_states"} \subseteq DumpSteps
  BY DEF DumpSteps
<1>6. CASE DumpStates(t)
  <2>0. d.step = "states" /\ phase' = phase /\ owed' = owed /\ call' = call
    BY <1>2, <1>6 DEF DumpStates, Dumps, UserVars
  <2>1. CASE d.i < recorder.state_buffer_head
    <3>1. recorder' = dump_state(recorder, d.i) /\ DumpGoes(t, "states", d.i + 1) /\ d.i + 1 \in Slots
      BY <1>2, <1>3, <1>6, <2>1 DEF DumpStates
    <3> QED
      BY <1>2, <1>4, <1>5, <2>0, <2>1, <3>1 DEF Goes
  <2>2. CASE ~(d.i < recorder.state_buffer_head)
    <3>1. recorder' = recorder /\ DumpGoes(t, "events", 0)
      BY <1>2, <1>6, <2>2 DEF DumpStates
    <3> QED
      BY <1>2, <1>3, <1>4, <1>5, <2>0, <2>2, <3>1 DEF Goes
  <2> QED
    BY <2>1, <2>2
<1>7. CASE DumpEvents(t)
  <2>0. d.step = "events" /\ phase' = phase /\ owed' = owed /\ call' = call
    BY <1>2, <1>7 DEF DumpEvents, Dumps, UserVars
  <2>1. CASE d.i < recorder.event_buffer_head
    <3>1. recorder' = dump_event(recorder, d.i) /\ DumpGoes(t, "events", d.i + 1) /\ d.i + 1 \in Slots
      BY <1>2, <1>3, <1>7, <2>1 DEF DumpEvents
    <3> QED
      BY <1>2, <1>4, <1>5, <2>0, <2>1, <3>1 DEF Goes
  <2>2. CASE ~(d.i < recorder.event_buffer_head)
    <3>1. recorder' = recorder /\ DumpGoes(t, "rewind_events", 0)
      BY <1>2, <1>7, <2>2 DEF DumpEvents
    <3> QED
      BY <1>2, <1>3, <1>4, <1>5, <2>0, <2>2, <3>1 DEF Goes
  <2> QED
    BY <2>1, <2>2
<1>8. CASE RewindEvents(t)
  <2>1. /\ d.step = "rewind_events" /\ phase' = phase /\ owed' = owed /\ call' = call
        /\ recorder' = rewind_events(recorder) /\ DumpGoes(t, "rewind_states", 0)
    BY <1>2, <1>8 DEF RewindEvents, Dumps, UserVars
  <2> QED
    BY <1>2, <1>3, <1>4, <1>5, <2>1 DEF Goes
<1>9. CASE RewindStates(t)
  <2>1. /\ d.step = "rewind_states" /\ owed' = owed /\ (call' = call \/ call' = NoCall)
        /\ phase' = phase \/ (phase' = "dumped" /\ t = "mir_destroy")
        /\ recorder' = rewind_states(recorder) /\ dump' = [dump EXCEPT ![t] = NoDump]
    BY <1>2, <1>9 DEF RewindStates, Dumps, CallEnds, Dumpers
  <2>2. "none" \in DumpSteps /\ NoDump = [step |-> "none", i |-> 0]
    BY DEF DumpSteps, NoDump
  <2>3. /\ dump' \in DumpPlaces /\ dump'[t].step = "none"
        /\ \A u \in Dumpers : u # t => dump'[u] = dump[u]
    BY <1>1, <1>3, <2>1, <2>2 DEF DumpPlaces
  <2> QED
    BY <1>2, <2>1, <2>3 DEF Goes
<1> QED
  BY <1>6, <1>7, <1>8, <1>9 DEF DumpStep

LEMMA DumpOwed ==
    ASSUME StackInv, OwedInv, NEW t \in Dumpers, DumpStep(t)
    PROVE  OwedInv'
<1>1. TypesInv
  BY DEF StackInv
<1>2. /\ recorder \in Recorders /\ call \in CallPlaces /\ dump \in DumpPlaces /\ dump' \in DumpPlaces
      /\ Parts(call, dump, phase, todo)
      /\ "worker" \in Dumpers /\ "mir_destroy" \in Dumpers /\ "worker" # "mir_destroy"
      /\ t = "worker" \/ t = "mir_destroy"
  BY <1>1, TypesAre, DumpGoesOn DEF Dumpers
<1>3. /\ Goes(recorder, recorder', dump[t], dump'[t]) /\ owed' = owed /\ (call' = call \/ call' = NoCall)
      /\ \A u \in Dumpers : u # t => dump'[u] = dump[u]
      /\ phase' = phase \/ (phase' = "dumped" /\ t = "mir_destroy")
  BY <1>1, DumpGoesOn
<1>4. PICK r \in Recorders, m \in DumpPlace, w \in DumpPlace, n \in DumpPlace, v \in DumpPlace :
          /\ r = recorder /\ m = dump["mir_destroy"] /\ w = dump["worker"]
          /\ n = dump'["mir_destroy"] /\ v = dump'["worker"]
  BY <1>2, DumpPlaceIs, Zenon
<1>5. /\ Owes(owed.states, owed.events, r, m, w) /\ NoCall.step = "none"
      /\ phase \in {"alive", "dying"} => Passes(r, w)
  BY <1>4, StepTypes DEF OwedInv
<1>6. CASE t = "worker"
  <2>1. Goes(r, recorder', w, v) /\ n = m /\ phase' = phase /\ w.step # "none"
    BY <1>2, <1>3, <1>4, <1>6 DEF Goes
  <2>2. call.step = "dump" /\ call'.step \notin {"count_state", "count_event"}
    BY <1>2, <1>3, <1>4, <1>5, <2>1 DEF Parts
  <2>3. Owes(owed.states, owed.events, recorder', m, v)
    BY <1>5, <2>1, OwesDumps
  <2>4. phase \in {"alive", "dying"} => Passes(recorder', v)
    BY <1>5, <2>1, PassesDumps
  <2> QED
    BY <1>3, <1>4, <2>1, <2>2, <2>3, <2>4 DEF OwedInv
<1>7. CASE t = "mir_destroy"
  <2>1. Goes(r, recorder', m, n) /\ v = w /\ m.step # "none"
    BY <1>2, <1>3, <1>4, <1>7 DEF Goes
  <2>2. phase = "dump" /\ phase' \notin {"alive", "dying"}
    BY <1>2, <1>3, <1>4, <2>1 DEF Parts
  <2>3. Owes(owed.states, owed.events, recorder', n, w)
    BY <1>5, <2>1, OwesDumps
  <2>4. /\ n.step = "states" => m.step = "states" /\ recorder'.state_buffer_head = r.state_buffer_head
        /\ n.step \in {"states", "events"} =>
                m.step \in {"states", "events"} /\ recorder'.event_buffer_head = r.event_buffer_head
    BY <2>1, GoesFields DEF Goes
  <2> QED
    BY <1>3, <1>4, <1>5, <2>1, <2>2, <2>3, <2>4 DEF OwedInv
<1> QED
  BY <1>2, <1>6, <1>7

LEMMA PhaseOwed ==
    ASSUME StackInv, WholeInv, OwedInv, Freeze \/ BeginDump \/ Free
    PROVE  OwedInv'
<1>1. TypesInv
  BY DEF StackInv
<1>2. /\ recorder \in Recorders /\ dump \in DumpPlaces /\ Parts(call, dump, phase, todo)
      /\ "worker" \in Dumpers /\ "mir_destroy" \in Dumpers /\ "worker" # "mir_destroy"
  BY <1>1, TypesAre DEF Dumpers
<1>3. CASE Freeze
  <2>1. phase = "alive" /\ phase' = "dying" /\ UNCHANGED <<recorder, call, dump, owed>>
    BY <1>3 DEF Freeze
  <2> QED
    BY <2>1 DEF OwedInv
<1>4. CASE BeginDump
  <2>1. /\ phase = "dying" /\ phase' = "dump" /\ recorder' = recorder /\ call' = call
        /\ dump' = [dump EXCEPT !["mir_destroy"] = Start]
        /\ owed' = [owed EXCEPT !.states = ToSet(StatesOf(recorder)), !.events = ToSet(EventsOf(recorder)),
                                !.all = Quiet]
    BY <1>4 DEF BeginDump, DumpGoes, Start
  <2>2. dump'["mir_destroy"] = Start /\ dump'["worker"] = dump["worker"]
    BY <1>2, <2>1 DEF DumpPlaces
  <2>3. Owes(ToSet(StatesOf(recorder)), ToSet(EventsOf(recorder)), recorder, Start, dump["worker"])
    BY <1>2, <2>1, PassesOwes DEF OwedInv
  <2>4. owed'.states = ToSet(StatesOf(recorder)) /\ owed'.events = ToSet(EventsOf(recorder))
    <3>1. PICK a, b, c : owed = [states |-> a, events |-> b, all |-> c]
      BY DEF WholeInv
    <3> QED
      BY <2>1, <3>1
  <2>5. Owes(owed'.states, owed'.events, recorder, Start, dump["worker"])
    BY <2>3, <2>4
  <2> QED
    BY <2>1, <2>2, <2>5 DEF OwedInv
<1>5. CASE Free
  <2>1. /\ phase = "dumped" /\ phase' = "freed" /\ recorder' = destroy(recorder)
        /\ UNCHANGED <<call, dump, owed>>
    BY <1>5 DEF Free
  <2>2. dump["mir_destroy"].step = "none"
    BY <1>2, <2>1 DEF Parts
  <2>3. PICK t : t = recorder' /\ t.buffer_file = recorder.buffer_file
    BY <1>2, <2>1, DestroyFields
  <2>4. /\ StatesLive(recorder, dump["mir_destroy"], dump["worker"]) = {}
        /\ EventsLive(recorder, dump["mir_destroy"], dump["worker"]) = {}
    BY <2>2 DEF StatesLive, EventsLive
  <2>5. Owes(owed.states, owed.events, t, dump["mir_destroy"], dump["worker"])
    BY <2>3, <2>4, OwesStays DEF OwedInv
  <2> QED
    BY <2>1, <2>2, <2>3, <2>5 DEF OwedInv
<1> QED
  BY <1>3, <1>4, <1>5

\* The invariant: while mir_destroy dumps, what it owes is in the file or is still
\* before both dumps.
THEOREM OwedInvariant == Spec => [](StackInv /\ OwedInv)
<1>1. Init => OwedInv
  BY InitOwed
<1>2. StackInv /\ WholeInv /\ OwedInv /\ [Next]_vars => OwedInv'
  <2> SUFFICES ASSUME StackInv, WholeInv, OwedInv, [Next]_vars PROVE OwedInv'
    OBVIOUS
  <2>1. CASE UNCHANGED vars \/ UserStep \/ WorkerStep \/ CallDestroy
    <3>1. UNCHANGED <<recorder, call, dump, phase, owed>>
      BY <2>1
      DEF UserStep, BeginCreate, Push, PushRefused, EndCreate, BeginWait, EndWait, Allocate,
          WorkerStep, Take, Execute, EndTask, NotBusy, SeeDying, CallDestroy, Frame, vars
    <3> QED
      BY <3>1 DEF OwedInv
  <2> QED
    BY <2>1, CallOwed, DumpOwed, PhaseOwed DEF Next, DestroyStep
<1> QED
  BY <1>1, <1>2, WholeInvariant, PTL DEF Spec
-----------------------------------------------------------------------------
(* What follows for its properties *)

\* Not between two calls before mir_destroy comes, nor in the file of a worker that
\* had stopped by then, has a recorder lost or doubled anything; and while the ids
\* have not wrapped, the parent of each state is known.
THEOREM EveryRecorderIsWhole ==
    Spec => [](Undisturbed \/ (recorder.freed /\ owed.all) =>
                    NothingLost(recorder) /\ (recorder.num_states < Ids => ParentsEnclose(recorder)))
<1>1. ASSUME StackInv, WholeInv, Undisturbed \/ (recorder.freed /\ owed.all)
      PROVE  NothingLost(recorder) /\ (recorder.num_states < Ids => ParentsEnclose(recorder))
  <2>1. /\ recorder \in Recorders /\ (recorder.freed <=> phase = "freed")
        /\ Parts(call, dump, phase, todo) /\ TypesInv
    BY <1>1, TypesAre DEF StackInv
  <2>2. Followed /\ call.step = "none" /\ Current = dump["worker"] /\ dump["worker"].step = "none"
    <3>1. CASE Undisturbed
      BY <2>1, <3>1 DEF Undisturbed, Followed, Current, Parts
    <3>2. CASE recorder.freed /\ owed.all
      BY <1>1, <2>1, <3>2, Stopped DEF Followed, Current
    <3> QED
      BY <1>1, <3>1, <3>2
  <2>3. recorder.state_buffer_head + 0 = recorder.state_buffer_head
        /\ recorder.event_buffer_head + 0 = recorder.event_buffer_head
    BY <2>1, RecorderParts DEF Slots
  <2>4. /\ StatesShown(recorder, call, Current) = StatesOf(recorder)
        /\ EventsShown(recorder, call, Current) = EventsOf(recorder)
    BY <2>2, <2>3
    DEF StatesShown, EventsShown, StatesFrom, EventsFrom, StatesTo, EventsTo, StatesOf, EventsOf
  <2>5. Sound(recorder, StatesOf(recorder), EventsOf(recorder))
    BY <1>1, <2>2, <2>4 DEF WholeInv, Whole
  <2> QED
    BY <2>1, <2>5, SoundIsWhole
<1> QED
  BY <1>1, WholeInvariant, PTL

\* Only mir_recorder_state_begin counts a state, and not in a recorder that is freed.
LEMMA NumKept ==
    ASSUME StackInv, [Next]_vars, recorder'.freed
    PROVE  recorder'.num_states = recorder.num_states
<1>1. TypesInv /\ HeadsInv /\ NestInv
  BY DEF StackInv
<1>2. recorder \in Recorders
  BY <1>1, TypesAre
<1>3. CASE BeginState
  <2>1. Head(todo) \in Names /\ ~recorder.freed /\ recorder' = state_begin(recorder, Head(todo))
    BY <1>3 DEF BeginState, Calls
  <2>2. recorder'.freed = recorder.freed
    BY <1>2, <2>1, BeginFields DEF SameBuffers
  <2> QED
    BY <2>1, <2>2
<1>4. CASE EndState
  BY <1>1, <1>2, <1>4, EndNests, EndFields DEF EndState
<1>5. CASE NoteEvent
  BY <1>2, <1>5, EventFields DEF NoteEvent
<1>6. CASE CountState \/ CountEvent
  BY <1>1, <1>6, CountTypes DEF SameStack
<1>7. CASE CheckFull \/ CallFreed \/ UserStep \/ WorkerStep \/ CallDestroy \/ Freeze \/ BeginDump \/ UNCHANGED vars
  BY <1>7
  DEF CheckFull, CallFreed, UserStep, BeginCreate, Push, PushRefused, EndCreate, BeginWait, EndWait, Allocate,
      WorkerStep, Take, Execute, EndTask, NotBusy, SeeDying, CallDestroy, Freeze, BeginDump, Frame, UserVars, vars
<1>8. ASSUME NEW t \in Dumpers, DumpStep(t) PROVE recorder'.num_states = recorder.num_states
  BY <1>1, <1>8, DumpStepTypes, RewindTypes DEF DumpStep, SameStack
<1>9. CASE Free
  BY <1>2, <1>9, DestroyFields DEF Free
<1> QED
  BY <1>3, <1>4, <1>5, <1>6, <1>7, <1>8, <1>9 DEF Next, CallStep, DestroyStep

NumOk == ~recorder.freed => recorder.num_states <= MaxStates + 2
Bounded == recorder.num_states <= MaxStates + 2

\* While the bound keeps the ids from wrapping, nothing is lost or doubled and every
\* state encloses those that name it as their parent.
THEOREM RecordsWhole ==
    ASSUME MaxStates + 2 < Ids
    PROVE  Spec => []RecordsAreWhole
<1>1. StackInv => NumOk
  BY NumIsBounded DEF StackInv, NumOk
<1>2. Init => Bounded
  BY DEF Init, NewRecorder, Bounded
<1>3. StackInv /\ NumOk' /\ Bounded /\ [Next]_vars => Bounded'
  BY NumKept DEF NumOk, Bounded
<1>4. Spec => []Bounded
  BY <1>1, <1>2, <1>3, StackInvariant, PTL DEF Spec
<1>5. StackInv /\ Bounded => recorder.num_states < Ids
  <2> SUFFICES ASSUME StackInv, Bounded PROVE recorder.num_states < Ids
    OBVIOUS
  <2>1. recorder.num_states \in Nat
    BY TypesAre, RecorderParts DEF StackInv
  <2> QED
    BY <2>1 DEF Bounded
<1> DEFINE IsWhole == Undisturbed \/ (recorder.freed /\ owed.all) =>
                    NothingLost(recorder) /\ (recorder.num_states < Ids => ParentsEnclose(recorder))
<1>6. Spec => []IsWhole
  BY EveryRecorderIsWhole
<1>7. StackInv /\ Bounded /\ IsWhole => RecordsAreWhole
  BY <1>5 DEF RecordsAreWhole
<1> HIDE DEF IsWhole
<1> QED
  BY <1>4, <1>6, <1>7, StackInvariant, PTL

\* Whatever was recorded when mir_destroy began to dump is in the file, though the
\* worker goes on with the same recorder and rewinds the same heads.
THEOREM DumpsAreComplete == Spec => []DumpIsComplete
<1>1. StackInv /\ OwedInv => DumpIsComplete
  <2> SUFFICES ASSUME StackInv, OwedInv, recorder.freed
               PROVE  /\ owed.states \subseteq ToSet(recorder.buffer_file.s)
                      /\ owed.events \subseteq ToSet(recorder.buffer_file.e)
    BY DEF DumpIsComplete
  <2>1. recorder \in Recorders /\ dump["mir_destroy"].step = "none"
    <3>1. recorder \in Recorders /\ Parts(call, dump, phase, todo) /\ phase = "freed"
      BY TypesAre DEF StackInv
    <3> QED
      BY <3>1 DEF Parts
  <2>2. /\ StatesLive(recorder, dump["mir_destroy"], dump["worker"]) = {}
        /\ EventsLive(recorder, dump["mir_destroy"], dump["worker"]) = {}
    BY <2>1 DEF StatesLive, EventsLive
  <2>3. /\ \A x \in owed.states : In(x, recorder.buffer_file.s)
        /\ \A x \in owed.events : In(x, recorder.buffer_file.e)
    BY <2>2 DEF OwedInv, Owes, Kept
  <2>4. /\ recorder.buffer_file.s \in Seq(StateRecords) /\ recorder.buffer_file.e \in Seq(EventRecords)
    BY <2>1, RecorderParts
  <2>5. ASSUME NEW S, NEW f \in Seq(S), NEW x, In(x, f) PROVE x \in ToSet(f)
    BY <2>5 DEF In, ToSet
  <2> QED
    BY <2>3, <2>4, <2>5
<1> QED
  BY <1>1, OwedInvariant, PTL
=============================================================================
