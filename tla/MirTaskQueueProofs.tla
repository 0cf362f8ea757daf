------------------------- MODULE MirTaskQueueProofs -------------------------
(***************************************************************************)
(* Proofs about the two-lock ring, for every number of workers, every set  *)
(* of tasks and every capacity.                                            *)
(*                                                                         *)
(* The inductive invariant has four parts: the types, who is inside which  *)
(* critical section, what each call holds, and where the queue lies in the *)
(* ring.  The last part is the one the algorithm rests on: `size` is what  *)
(* separates the slot the producer fills from the slot the consumer reads. *)
(***************************************************************************)
EXTENDS MirTaskQueue, FiniteSetTheorems, SequenceTheorems, TLAPS

\* The worker inside a critical section is the one that holds its lock.
LockInv ==
    \A w \in Workers :
        /\ pc[w] \in PushPcs \ {"push_lock"} <=> enq_lock = w
        /\ pc[w] \in PopPcs \ {"pop_lock"} <=> deq_lock = w

DataInv ==
    \A w \in Workers :
        /\ pc[w] \in PushPcs \cup {"pop_count", "pop_advance", "pop_done"}
               => data[w] \in Tasks
        /\ pc[w] \in {"idle", "pop_lock", "pop_check", "pop_read", "pop_empty"}
               => data[w] = NULL

\* A producer past its check has room; a consumer past its check has a task.
RoomInv ==
    \A w \in Workers :
        /\ pc[w] \in {"push_write", "push_advance", "push_count"} => size < Capacity
        /\ pc[w] \in {"pop_read", "pop_count"} => size > 0

\* The slots the producer has filled and not yet counted.
pending == IF \E w \in Workers : pc[w] = "push_count" THEN 1 ELSE 0

IndexInv == in = Wrap(front + (size + pending))

SlotInv ==
    /\ \A k \in 0 .. size - 1 : buffer[Wrap(front + k)] \in Tasks
    /\ \A w \in Workers :
           /\ pc[w] = "push_advance" => buffer[in] = data[w]
           /\ pc[w] = "push_count" => buffer[Wrap(front + size)] = data[w]
           /\ pc[w] = "pop_count" => buffer[front] = data[w]

IInv == TypeOK /\ LockInv /\ DataInv /\ RoomInv /\ IndexInv /\ SlotInv
-----------------------------------------------------------------------------
(* Index arithmetic *)

\* An index less than one lap ahead is brought back into the ring.
LEMMA WrapInSlots ==
    ASSUME NEW i \in 0 .. 2 * Capacity - 1
    PROVE  Wrap(i) \in Slots
BY CapacityAssumption, SMT DEF Wrap, Slots

\* Two positions of the queue that differ lie in different slots.
LEMMA WrapInjective ==
    ASSUME NEW f \in Slots, NEW j \in Slots, NEW k \in Slots,
           Wrap(f + j) = Wrap(f + k)
    PROVE  j = k
BY CapacityAssumption, SMT DEF Wrap, Slots

\* Moving the front one slot on moves every position one slot on.
LEMMA WrapShift ==
    ASSUME NEW f \in Slots, NEW k \in Slots
    PROVE  Wrap(Wrap(f + 1) + k) = Wrap(f + (k + 1))
BY CapacityAssumption, SMT DEF Wrap, Slots

\* The front of the queue is a slot, and starting there position 0 is the front.
LEMMA FrontInSlots ==
    ASSUME TypeOK
    PROVE  front \in Slots /\ Wrap(front + 0) = front
BY CapacityAssumption, SMT DEF TypeOK, front, Wrap, Slots

\* Only entering and leaving pop_advance, and out++ itself, can move the front.
LEMMA FrontUnchanged ==
    ASSUME TypeOK, NEW w \in Workers, NEW to,
           pc' = [pc EXCEPT ![w] = to], out' = out,
           pc[w] # "pop_advance", to # "pop_advance"
    PROVE  front' = front
<1>1. ASSUME NEW v \in Workers PROVE pc'[v] = "pop_advance" <=> pc[v] = "pop_advance"
  BY DEF TypeOK
<1> QED BY <1>1 DEF front, Wrap

\* Only entering and leaving push_count changes what is pending.
LEMMA PendingUnchanged ==
    ASSUME TypeOK, NEW w \in Workers, NEW to,
           pc' = [pc EXCEPT ![w] = to],
           pc[w] # "push_count", to # "push_count"
    PROVE  pending' = pending
<1>1. ASSUME NEW v \in Workers PROVE pc'[v] = "push_count" <=> pc[v] = "push_count"
  BY DEF TypeOK
<1> QED BY <1>1 DEF pending
-----------------------------------------------------------------------------
(* The inductive invariant *)

LEMMA InitIInv ==
    ASSUME Init
    PROVE  IInv
<1>1. size = 0 /\ in = 0 /\ out = 0 /\ pc = [w \in Workers |-> "idle"]
  BY DEF Init
<1>2. front = 0 /\ pending = 0
  BY <1>1 DEF front, pending
<1>3. TypeOK
  BY CapacityAssumption DEF Init, TypeOK, Slots
<1>4. LockInv
  BY NoWorkerAssumption DEF Init, LockInv, PushPcs, PopPcs
<1>5. DataInv /\ RoomInv
  BY DEF Init, DataInv, RoomInv, PushPcs
<1>6. IndexInv
  BY <1>1, <1>2, CapacityAssumption DEF IndexInv, Wrap
<1>7. SlotInv
  BY <1>1 DEF SlotInv
<1> QED BY <1>3, <1>4, <1>5, <1>6, <1>7 DEF IInv

\* A worker inside a critical section is there alone.
LEMMA Exclusion ==
    ASSUME TypeOK, LockInv, NEW v \in Workers, NEW w \in Workers,
           \/ /\ pc[v] \in PushPcs \ {"push_lock"}
              /\ pc[w] \in PushPcs \ {"push_lock"}
           \/ /\ pc[v] \in PopPcs \ {"pop_lock"}
              /\ pc[w] \in PopPcs \ {"pop_lock"}
    PROVE  v = w
BY DEF LockInv

\* Where the front is, and what is pending, told by the worker in the section.
LEMMA FrontOfPopper ==
    ASSUME TypeOK, LockInv, NEW w \in Workers
    PROVE  /\ pc[w] \in {"pop_check", "pop_read", "pop_count"} => front = out
           /\ pc[w] = "pop_advance" => front = Wrap(out + 1)
BY Exclusion DEF front, PopPcs

LEMMA PendingOfPusher ==
    ASSUME TypeOK, LockInv, NEW w \in Workers
    PROVE  /\ pc[w] \in {"push_check", "push_write", "push_advance"} => pending = 0
           /\ pc[w] = "push_count" => pending = 1
BY Exclusion DEF pending, PushPcs

LEMMA NextIInv ==
    ASSUME IInv, [Next]_vars
    PROVE  IInv'
<1> USE DEF Slots
<1>1. ASSUME NEW w \in Workers, NEW t \in Tasks, PushCall(w, t) PROVE IInv'
  <2>1. TypeOK'
    BY <1>1, WrapInSlots, CapacityAssumption DEF IInv, TypeOK, LockInv, DataInv, RoomInv, PushCall, Goto, PushPcs, PopPcs, ringVars, lockVars
  <2>2. LockInv'
    BY <1>1, NoWorkerAssumption DEF IInv, TypeOK, LockInv, PushCall, Goto, PushPcs, PopPcs, lockVars
  <2>3. DataInv'
    BY <1>1 DEF IInv, TypeOK, LockInv, DataInv, SlotInv, PushCall, Goto, PushPcs, PopPcs
  <2>4. RoomInv'
    BY <1>1 DEF IInv, TypeOK, LockInv, RoomInv, PushCall, Goto, PushPcs, PopPcs, FULL, EMPTY, ringVars
  <2>5. front' = front /\ pending' = pending
    BY <1>1, FrontUnchanged, PendingUnchanged DEF IInv, PushCall, Goto, ringVars
  <2>6. IndexInv' /\ SlotInv'
    BY <1>1, <2>5, FrontInSlots DEF IInv, TypeOK, LockInv, DataInv, RoomInv, IndexInv, SlotInv, PushCall, Goto, Wrap, ringVars
  <2> QED BY <2>1, <2>2, <2>3, <2>4, <2>6 DEF IInv
<1>2. ASSUME NEW w \in Workers, PushLock(w) PROVE IInv'
  <2>1. TypeOK'
    BY <1>2, WrapInSlots, CapacityAssumption DEF IInv, TypeOK, LockInv, DataInv, RoomInv, PushLock, Goto, PushPcs, PopPcs, ringVars, lockVars
  <2>2. LockInv'
    BY <1>2, NoWorkerAssumption DEF IInv, TypeOK, LockInv, PushLock, Goto, PushPcs, PopPcs, lockVars
  <2>3. DataInv'
    BY <1>2 DEF IInv, TypeOK, LockInv, DataInv, SlotInv, PushLock, Goto, PushPcs, PopPcs
  <2>4. RoomInv'
    BY <1>2 DEF IInv, TypeOK, LockInv, RoomInv, PushLock, Goto, PushPcs, PopPcs, FULL, EMPTY, ringVars
  <2>5. front' = front /\ pending' = pending
    BY <1>2, FrontUnchanged, PendingUnchanged DEF IInv, PushLock, Goto, ringVars
  <2>6. IndexInv' /\ SlotInv'
    BY <1>2, <2>5, FrontInSlots DEF IInv, TypeOK, LockInv, DataInv, RoomInv, IndexInv, SlotInv, PushLock, Goto, Wrap, ringVars
  <2> QED BY <2>1, <2>2, <2>3, <2>4, <2>6 DEF IInv
<1>3. ASSUME NEW w \in Workers, PushCheck(w) PROVE IInv'
  <2>1. TypeOK'
    BY <1>3, WrapInSlots, CapacityAssumption DEF IInv, TypeOK, LockInv, DataInv, RoomInv, PushCheck, Goto, PushPcs, PopPcs, ringVars, lockVars
  <2>2. LockInv'
    BY <1>3, NoWorkerAssumption DEF IInv, TypeOK, LockInv, PushCheck, Goto, PushPcs, PopPcs, lockVars
  <2>3. DataInv'
    BY <1>3 DEF IInv, TypeOK, LockInv, DataInv, SlotInv, PushCheck, Goto, PushPcs, PopPcs
  <2>4. RoomInv'
    BY <1>3, CapacityAssumption DEF IInv, TypeOK, LockInv, RoomInv, PushCheck, Goto, PushPcs, PopPcs, FULL, ringVars
  <2>5. front' = front /\ pending' = pending
    BY <1>3, FrontUnchanged, PendingUnchanged DEF IInv, PushCheck, Goto, ringVars
  <2>6. IndexInv' /\ SlotInv'
    BY <1>3, <2>5, FrontInSlots DEF IInv, TypeOK, LockInv, DataInv, RoomInv, IndexInv, SlotInv, PushCheck, Goto, Wrap, ringVars
  <2> QED BY <2>1, <2>2, <2>3, <2>4, <2>6 DEF IInv
<1>4. ASSUME NEW w \in Workers, PushWrite(w) PROVE IInv'
  <2>1. TypeOK'
    BY <1>4, WrapInSlots, CapacityAssumption DEF IInv, TypeOK, LockInv, DataInv, RoomInv, PushWrite, Goto, PushPcs, PopPcs, ringVars, lockVars
  <2>2. LockInv'
    BY <1>4, NoWorkerAssumption DEF IInv, TypeOK, LockInv, PushWrite, Goto, PushPcs, PopPcs, lockVars
  <2>3. DataInv'
    BY <1>4 DEF IInv, TypeOK, LockInv, DataInv, SlotInv, PushWrite, Goto, PushPcs, PopPcs
  <2>4. RoomInv'
    BY <1>4 DEF IInv, TypeOK, LockInv, RoomInv, PushWrite, Goto, PushPcs, PopPcs, FULL, EMPTY, ringVars
  <2>5. front' = front /\ pending' = pending
    BY <1>4, FrontUnchanged, PendingUnchanged DEF IInv, PushWrite, Goto, ringVars
  <2>6. in = Wrap(front + size) /\ size \in Slots /\ in \in Slots /\ front \in Slots
    BY <1>4, PendingOfPusher, FrontInSlots, CapacityAssumption
    DEF IInv, TypeOK, RoomInv, IndexInv, PushWrite, Goto
  <2>7. ASSUME NEW k \in 0 .. size - 1
        PROVE  Wrap(front + k) \in Slots /\ buffer'[Wrap(front + k)] = buffer[Wrap(front + k)]
    <3>1. k \in Slots /\ k # size /\ front + k \in 0 .. 2 * Capacity - 1
      BY <2>6, CapacityAssumption
    <3>2. Wrap(front + k) # in
      BY <2>6, <3>1, WrapInjective
    <3>3. Wrap(front + k) \in Slots
      BY <3>1, WrapInSlots
    <3> QED BY <1>4, <3>2, <3>3 DEF IInv, TypeOK, PushWrite
  <2>8. IndexInv'
    BY <1>4, <2>5 DEF IInv, IndexInv, PushWrite, Wrap
  <2>9. ASSUME NEW v \in Workers, pc[v] \in {"push_write", "push_advance", "push_count"}
        PROVE  v = w
    BY <1>4, <2>9, Exclusion DEF IInv, PushWrite, Goto, PushPcs
  <2>10. /\ buffer'[in] = data[w]
         /\ size > 0 => buffer'[front] = buffer[front]
    <3>1. buffer'[in] = data[w]
      BY <1>4, <2>6 DEF IInv, TypeOK, PushWrite
    <3>2. CASE size > 0
      BY <2>7, <3>1, <3>2, FrontInSlots DEF IInv, TypeOK
    <3> QED BY <3>1, <3>2
  <2>11. SlotInv'
    BY <1>4, <2>5, <2>6, <2>7, <2>9, <2>10
    DEF IInv, TypeOK, RoomInv, SlotInv, PushWrite, Goto, Wrap
  <2> QED BY <2>1, <2>2, <2>3, <2>4, <2>8, <2>11 DEF IInv
<1>5. ASSUME NEW w \in Workers, PushAdvance(w) PROVE IInv'
  <2>1. TypeOK'
    BY <1>5, WrapInSlots, CapacityAssumption DEF IInv, TypeOK, LockInv, DataInv, RoomInv, PushAdvance, Goto, PushPcs, PopPcs, ringVars, lockVars
  <2>2. LockInv'
    BY <1>5, NoWorkerAssumption DEF IInv, TypeOK, LockInv, PushAdvance, Goto, PushPcs, PopPcs, lockVars
  <2>3. DataInv'
    BY <1>5 DEF IInv, TypeOK, LockInv, DataInv, SlotInv, PushAdvance, Goto, PushPcs, PopPcs
  <2>4. RoomInv'
    BY <1>5 DEF IInv, TypeOK, LockInv, RoomInv, PushAdvance, Goto, PushPcs, PopPcs, FULL, EMPTY, ringVars
  <2>5. front' = front
    BY <1>5, FrontUnchanged DEF IInv, PushAdvance, Goto
  <2>6. pending = 0 /\ pending' = 1
    <3>1. pc'[w] = "push_count"
      BY <1>5 DEF IInv, TypeOK, PushAdvance, Goto
    <3> QED BY <1>5, <3>1, PendingOfPusher DEF IInv, PushAdvance, Goto, pending
  <2>7. front \in Slots /\ size \in Slots
    BY <1>5, FrontInSlots, CapacityAssumption DEF IInv, TypeOK, RoomInv, PushAdvance, Goto
  <2>8. in = Wrap(front + size) /\ in' = Wrap(front + (size + 1))
    BY <1>5, <2>6, <2>7, CapacityAssumption DEF IInv, IndexInv, PushAdvance, Wrap
  <2>9. IndexInv'
    BY <1>5, <2>5, <2>6, <2>8 DEF IndexInv, PushAdvance, Wrap
  <2>10. SlotInv'
    <3>1. \A v \in Workers : pc'[v] \notin {"push_advance"}
      BY <1>5, Exclusion DEF IInv, TypeOK, PushAdvance, Goto, PushPcs
    <3> QED BY <1>5, <2>5, <2>8, <3>1 DEF IInv, TypeOK, SlotInv, PushAdvance, Goto, Wrap
  <2> QED BY <2>1, <2>2, <2>3, <2>4, <2>9, <2>10 DEF IInv
<1>6. ASSUME NEW w \in Workers, PushCount(w) PROVE IInv'
  <2>1. TypeOK'
    BY <1>6, WrapInSlots, CapacityAssumption DEF IInv, TypeOK, LockInv, DataInv, RoomInv, PushCount, Goto, PushPcs, PopPcs, ringVars, lockVars
  <2>2. LockInv'
    BY <1>6, NoWorkerAssumption DEF IInv, TypeOK, LockInv, PushCount, Goto, PushPcs, PopPcs, lockVars
  <2>3. DataInv'
    BY <1>6 DEF IInv, TypeOK, LockInv, DataInv, SlotInv, PushCount, Goto, PushPcs, PopPcs
  <2>4. RoomInv'
    BY <1>6 DEF IInv, TypeOK, LockInv, RoomInv, PushCount, Goto, PushPcs, PopPcs, FULL, EMPTY, ringVars
  <2>5. front' = front
    BY <1>6, FrontUnchanged DEF IInv, PushCount, Goto
  <2>6. pending = 1 /\ pending' = 0
    <3>1. \A v \in Workers : pc'[v] # "push_count"
      BY <1>6, Exclusion DEF IInv, TypeOK, PushCount, Goto, PushPcs
    <3> QED BY <1>6, <3>1, PendingOfPusher DEF IInv, PushCount, Goto, pending
  <2>7. IndexInv'
    BY <1>6, <2>5, <2>6 DEF IInv, TypeOK, IndexInv, PushCount, Wrap
  <2>8. SlotInv'
    <3>1. \A v \in Workers : pc'[v] \notin {"push_advance", "push_count"}
      BY <1>6, Exclusion DEF IInv, TypeOK, PushCount, Goto, PushPcs
    <3>2. buffer[Wrap(front + size)] \in Tasks
      BY <1>6 DEF IInv, DataInv, SlotInv, PushCount, Goto, PushPcs
    <3>3. \A k \in 0 .. size : buffer[Wrap(front + k)] \in Tasks
      BY <3>2 DEF IInv, TypeOK, SlotInv
    <3> QED BY <1>6, <2>5, <3>1, <3>3 DEF IInv, TypeOK, SlotInv, PushCount, Goto, Wrap
  <2> QED BY <2>1, <2>2, <2>3, <2>4, <2>7, <2>8 DEF IInv
<1>7. ASSUME NEW w \in Workers, PushUnlock(w) PROVE IInv'
  <2>1. TypeOK'
    BY <1>7, WrapInSlots, CapacityAssumption DEF IInv, TypeOK, LockInv, DataInv, RoomInv, PushUnlock, Goto, PushPcs, PopPcs, ringVars, lockVars
  <2>2. LockInv'
    BY <1>7, NoWorkerAssumption DEF IInv, TypeOK, LockInv, PushUnlock, Goto, PushPcs, PopPcs, lockVars
  <2>3. DataInv'
    BY <1>7 DEF IInv, TypeOK, LockInv, DataInv, SlotInv, PushUnlock, Goto, PushPcs, PopPcs
  <2>4. RoomInv'
    BY <1>7 DEF IInv, TypeOK, LockInv, RoomInv, PushUnlock, Goto, PushPcs, PopPcs, FULL, EMPTY, ringVars
  <2>5. front' = front /\ pending' = pending
    BY <1>7, FrontUnchanged, PendingUnchanged DEF IInv, PushUnlock, Goto, ringVars
  <2>6. IndexInv' /\ SlotInv'
    BY <1>7, <2>5, FrontInSlots DEF IInv, TypeOK, LockInv, DataInv, RoomInv, IndexInv, SlotInv, PushUnlock, Goto, Wrap, ringVars
  <2> QED BY <2>1, <2>2, <2>3, <2>4, <2>6 DEF IInv
<1>8. ASSUME NEW w \in Workers, PopCall(w) PROVE IInv'
  <2>1. TypeOK'
    BY <1>8, WrapInSlots, CapacityAssumption DEF IInv, TypeOK, LockInv, DataInv, RoomInv, PopCall, Goto, PushPcs, PopPcs, ringVars, lockVars
  <2>2. LockInv'
    BY <1>8, NoWorkerAssumption DEF IInv, TypeOK, LockInv, PopCall, Goto, PushPcs, PopPcs, lockVars
  <2>3. DataInv'
    BY <1>8 DEF IInv, TypeOK, LockInv, DataInv, SlotInv, PopCall, Goto, PushPcs, PopPcs
  <2>4. RoomInv'
    BY <1>8 DEF IInv, TypeOK, LockInv, RoomInv, PopCall, Goto, PushPcs, PopPcs, FULL, EMPTY, ringVars
  <2>5. front' = front /\ pending' = pending
    BY <1>8, FrontUnchanged, PendingUnchanged DEF IInv, PopCall, Goto, ringVars
  <2>6. IndexInv' /\ SlotInv'
    BY <1>8, <2>5, FrontInSlots DEF IInv, TypeOK, LockInv, DataInv, RoomInv, IndexInv, SlotInv, PopCall, Goto, Wrap, ringVars
  <2> QED BY <2>1, <2>2, <2>3, <2>4, <2>6 DEF IInv
<1>9. ASSUME NEW w \in Workers, PopLock(w) PROVE IInv'
  <2>1. TypeOK'
    BY <1>9, WrapInSlots, CapacityAssumption DEF IInv, TypeOK, LockInv, DataInv, RoomInv, PopLock, Goto, PushPcs, PopPcs, ringVars, lockVars
  <2>2. LockInv'
    BY <1>9, NoWorkerAssumption DEF IInv, TypeOK, LockInv, PopLock, Goto, PushPcs, PopPcs, lockVars
  <2>3. DataInv'
    BY <1>9 DEF IInv, TypeOK, LockInv, DataInv, SlotInv, PopLock, Goto, PushPcs, PopPcs
  <2>4. RoomInv'
    BY <1>9 DEF IInv, TypeOK, LockInv, RoomInv, PopLock, Goto, PushPcs, PopPcs, FULL, EMPTY, ringVars
  <2>5. front' = front /\ pending' = pending
    BY <1>9, FrontUnchanged, PendingUnchanged DEF IInv, PopLock, Goto, ringVars
  <2>6. IndexInv' /\ SlotInv'
    BY <1>9, <2>5, FrontInSlots DEF IInv, TypeOK, LockInv, DataInv, RoomInv, IndexInv, SlotInv, PopLock, Goto, Wrap, ringVars
  <2> QED BY <2>1, <2>2, <2>3, <2>4, <2>6 DEF IInv
<1>10. ASSUME NEW w \in Workers, PopCheck(w) PROVE IInv'
  <2>1. TypeOK'
    BY <1>10, WrapInSlots, CapacityAssumption DEF IInv, TypeOK, LockInv, DataInv, RoomInv, PopCheck, Goto, PushPcs, PopPcs, ringVars, lockVars
  <2>2. LockInv'
    BY <1>10, NoWorkerAssumption DEF IInv, TypeOK, LockInv, PopCheck, Goto, PushPcs, PopPcs, lockVars
  <2>3. DataInv'
    BY <1>10 DEF IInv, TypeOK, LockInv, DataInv, SlotInv, PopCheck, Goto, PushPcs, PopPcs
  <2>4. RoomInv'
    BY <1>10 DEF IInv, TypeOK, LockInv, RoomInv, PopCheck, Goto, PushPcs, PopPcs, FULL, EMPTY, ringVars
  <2>5. front' = front /\ pending' = pending
    BY <1>10, FrontUnchanged, PendingUnchanged DEF IInv, PopCheck, Goto, ringVars
  <2>6. IndexInv' /\ SlotInv'
    BY <1>10, <2>5, FrontInSlots DEF IInv, TypeOK, LockInv, DataInv, RoomInv, IndexInv, SlotInv, PopCheck, Goto, Wrap, ringVars
  <2> QED BY <2>1, <2>2, <2>3, <2>4, <2>6 DEF IInv
<1>11. ASSUME NEW w \in Workers, PopRead(w) PROVE IInv'
  <2>1. TypeOK'
    BY <1>11, WrapInSlots, CapacityAssumption DEF IInv, TypeOK, LockInv, DataInv, RoomInv, PopRead, Goto, PushPcs, PopPcs, ringVars, lockVars
  <2>2. LockInv'
    BY <1>11, NoWorkerAssumption DEF IInv, TypeOK, LockInv, PopRead, Goto, PushPcs, PopPcs, lockVars
  <2>3. DataInv'
    <3>1. buffer[front] \in Tasks /\ front = out
      BY <1>11, FrontInSlots, FrontOfPopper DEF IInv, TypeOK, RoomInv, SlotInv, PopRead, Goto
    <3> QED BY <1>11, <3>1 DEF IInv, TypeOK, DataInv, PopRead, Goto, PushPcs
  <2>4. RoomInv'
    BY <1>11 DEF IInv, TypeOK, LockInv, RoomInv, PopRead, Goto, PushPcs, PopPcs, FULL, EMPTY, ringVars
  <2>5. front' = front /\ pending' = pending
    BY <1>11, FrontUnchanged, PendingUnchanged DEF IInv, PopRead, Goto, ringVars
  <2>6. IndexInv' /\ SlotInv'
    <3>1. front = out
      BY <1>11, FrontOfPopper DEF IInv, PopRead, Goto
    <3> QED BY <1>11, <2>5, <3>1 DEF IInv, TypeOK, IndexInv, SlotInv, PopRead, Goto, Wrap, ringVars
  <2> QED BY <2>1, <2>2, <2>3, <2>4, <2>6 DEF IInv
<1>12. ASSUME NEW w \in Workers, PopCount(w) PROVE IInv'
  <2>1. TypeOK'
    BY <1>12, WrapInSlots, CapacityAssumption DEF IInv, TypeOK, LockInv, DataInv, RoomInv, PopCount, Goto, PushPcs, PopPcs, ringVars, lockVars
  <2>2. LockInv'
    BY <1>12, NoWorkerAssumption DEF IInv, TypeOK, LockInv, PopCount, Goto, PushPcs, PopPcs, lockVars
  <2>3. DataInv'
    BY <1>12 DEF IInv, TypeOK, LockInv, DataInv, SlotInv, PopCount, Goto, PushPcs, PopPcs
  <2>4. RoomInv'
    <3>1. \A v \in Workers : pc'[v] \notin {"pop_read", "pop_count"}
      BY <1>12, Exclusion DEF IInv, TypeOK, PopCount, Goto, PopPcs
    <3> QED BY <1>12, <3>1, CapacityAssumption DEF IInv, TypeOK, RoomInv, PopCount, Goto
  <2>5. pending' = pending
    BY <1>12, PendingUnchanged DEF IInv, PopCount, Goto
  <2>6. front = out /\ front' = Wrap(out + 1)
    <3>1. pc'[w] = "pop_advance"
      BY <1>12 DEF IInv, TypeOK, PopCount, Goto
    <3> QED BY <1>12, <3>1, FrontOfPopper DEF IInv, PopCount, Goto, front, Wrap
  <2>7. /\ front \in Slots /\ size \in 1 .. Capacity
        /\ pending \in {0, 1} /\ size + pending \in 1 .. Capacity
    BY <1>12, FrontInSlots, CapacityAssumption
    DEF IInv, TypeOK, RoomInv, PopCount, Goto, pending
  <2>8. ASSUME NEW k \in Slots
        PROVE  Wrap(front' + k) = Wrap(front + (k + 1))
    BY <2>6, <2>7, WrapShift
  <2>9. IndexInv'
    <3>1. Wrap(front' + (size + pending - 1)) = Wrap(front + (size + pending))
      BY <2>7, <2>8, CapacityAssumption
    <3> QED BY <1>12, <2>5, <2>7, <3>1 DEF IInv, IndexInv, PopCount, Wrap
  <2>10. SlotInv'
    <3>1. \A v \in Workers : pc'[v] # "pop_count"
      BY <1>12, Exclusion DEF IInv, TypeOK, PopCount, Goto, PopPcs
    <3>2. \A k \in 0 .. size - 2 : buffer[Wrap(front' + k)] \in Tasks
      BY <2>7, <2>8, CapacityAssumption DEF IInv, SlotInv
    <3>3. Wrap(front' + (size - 1)) = Wrap(front + size)
      BY <2>7, <2>8, CapacityAssumption
    <3> QED BY <1>12, <2>7, <3>1, <3>2, <3>3
            DEF IInv, TypeOK, SlotInv, PopCount, Goto, Wrap
  <2> QED BY <2>1, <2>2, <2>3, <2>4, <2>9, <2>10 DEF IInv
<1>13. ASSUME NEW w \in Workers, PopAdvance(w) PROVE IInv'
  <2>1. TypeOK'
    BY <1>13, WrapInSlots, CapacityAssumption DEF IInv, TypeOK, LockInv, DataInv, RoomInv, PopAdvance, Goto, PushPcs, PopPcs, ringVars, lockVars
  <2>2. LockInv'
    BY <1>13, NoWorkerAssumption DEF IInv, TypeOK, LockInv, PopAdvance, Goto, PushPcs, PopPcs, lockVars
  <2>3. DataInv'
    BY <1>13 DEF IInv, TypeOK, LockInv, DataInv, SlotInv, PopAdvance, Goto, PushPcs, PopPcs
  <2>4. RoomInv'
    BY <1>13 DEF IInv, TypeOK, LockInv, RoomInv, PopAdvance, Goto, PushPcs, PopPcs, FULL, EMPTY, ringVars
  <2>5. front' = front /\ pending' = pending
    <3>1. \A v \in Workers : pc'[v] # "pop_advance"
      BY <1>13, Exclusion DEF IInv, TypeOK, PopAdvance, Goto, PopPcs
    <3>2. front = Wrap(out + 1) /\ front' = out'
      BY <1>13, <3>1, FrontOfPopper DEF IInv, PopAdvance, Goto, front
    <3> QED BY <1>13, <3>2, PendingUnchanged DEF IInv, PopAdvance, Goto
  <2>6. IndexInv' /\ SlotInv'
    BY <1>13, <2>5, FrontInSlots DEF IInv, TypeOK, LockInv, DataInv, RoomInv, IndexInv, SlotInv, PopAdvance, Goto, Wrap, ringVars
  <2> QED BY <2>1, <2>2, <2>3, <2>4, <2>6 DEF IInv
<1>14. ASSUME NEW w \in Workers, PopUnlock(w) PROVE IInv'
  <2>1. TypeOK'
    BY <1>14, WrapInSlots, CapacityAssumption DEF IInv, TypeOK, LockInv, DataInv, RoomInv, PopUnlock, Goto, PushPcs, PopPcs, ringVars, lockVars
  <2>2. LockInv'
    BY <1>14, NoWorkerAssumption DEF IInv, TypeOK, LockInv, PopUnlock, Goto, PushPcs, PopPcs, lockVars
  <2>3. DataInv'
    BY <1>14 DEF IInv, TypeOK, LockInv, DataInv, SlotInv, PopUnlock, Goto, PushPcs, PopPcs
  <2>4. RoomInv'
    BY <1>14 DEF IInv, TypeOK, LockInv, RoomInv, PopUnlock, Goto, PushPcs, PopPcs, FULL, EMPTY, ringVars
  <2>5. front' = front /\ pending' = pending
    BY <1>14, FrontUnchanged, PendingUnchanged DEF IInv, PopUnlock, Goto, ringVars
  <2>6. IndexInv' /\ SlotInv'
    BY <1>14, <2>5, FrontInSlots DEF IInv, TypeOK, LockInv, DataInv, RoomInv, IndexInv, SlotInv, PopUnlock, Goto, Wrap, ringVars
  <2> QED BY <2>1, <2>2, <2>3, <2>4, <2>6 DEF IInv
<1>15. CASE UNCHANGED vars
  BY <1>15 DEF vars, IInv, TypeOK, LockInv, DataInv, RoomInv, IndexInv, SlotInv, front, pending, Wrap
<1> QED BY <1>1, <1>2, <1>3, <1>4, <1>5, <1>6, <1>7, <1>8, <1>9, <1>10, <1>11, <1>12, <1>13, <1>14, <1>15 DEF Next, PushInside, PopInside

\* The inductive invariant holds in every reachable state.
THEOREM RingInvariant == Spec => []IInv
<1>1. Init => IInv
  BY InitIInv
<1>2. IInv /\ [Next]_vars => IInv'
  BY NextIInv
<1> QED BY <1>1, <1>2, PTL DEF Spec

\* The indices stay in the ring and the counter never passes the capacity, the
\* lock holders and the values in hand are what the struct declares them to be.
THEOREM TypeCorrect == Spec => []TypeOK
<1>1. IInv => TypeOK
  BY DEF IInv
<1> QED BY <1>1, RingInvariant, PTL

\* MIR_ASSERT(task != NULL) in mir_task_queue_pop never fires.
THEOREM PopAssertHolds == Spec => []PopFindsTask
<1>1. IInv => PopFindsTask
  BY DEF IInv, DataInv, PopFindsTask
<1> QED BY <1>1, RingInvariant, PTL
-----------------------------------------------------------------------------
(* The private queue: a single consumer *)

SoleConsumer == \A v, w \in consumers : v = w

\* Only consumers are inside pop; a sole consumer that has seen a task there is
\* the only one who could take it away.
SoleInv ==
    /\ \A w \in Workers : pc[w] \in PopPcs => w \in consumers
    /\ SoleConsumer => \A w \in Workers : /\ pc[w] \in {"pop_lock", "pop_check"} => size > 0
                                          /\ pc[w] # "pop_empty"

LEMMA NextSoleInv ==
    ASSUME IInv, SoleInv, [Next]_vars
    PROVE  SoleInv'
<1> USE DEF PopPcs, PushPcs
<1>1. ASSUME NEW w \in Workers, NEW t \in Tasks, PushCall(w, t) PROVE SoleInv'
  BY <1>1 DEF IInv, TypeOK, SoleInv, SoleConsumer, PushCall, Goto, ringVars
<1>2. ASSUME NEW w \in Workers, PushLock(w) \/ PushInside(w) PROVE SoleInv'
  BY <1>2 DEF IInv, TypeOK, SoleInv, SoleConsumer, PushLock, PushInside, PushCheck, PushWrite,
              PushAdvance, PushCount, PushUnlock, Goto, ringVars
<1>3. ASSUME NEW w \in Workers, PopCall(w) PROVE SoleInv'
  BY <1>3 DEF IInv, TypeOK, SoleInv, SoleConsumer, PopCall, EMPTY, Goto, ringVars
<1>4. ASSUME NEW w \in Workers, PopLock(w) \/ PopCheck(w) \/ PopRead(w) PROVE SoleInv'
  BY <1>4 DEF IInv, TypeOK, SoleInv, SoleConsumer, PopLock, PopCheck, PopRead, EMPTY, Goto, ringVars
\* The sole consumer is past its own check when it decrements size.
<1>5. ASSUME NEW w \in Workers, PopCount(w) PROVE SoleInv'
  <2>1. ASSUME SoleConsumer, NEW v \in Workers, pc[v] \in PopPcs PROVE v = w
    BY <1>5, <2>1 DEF SoleInv, SoleConsumer, PopCount, Goto
  <2>2. ASSUME SoleConsumer, NEW v \in Workers
        PROVE  pc'[v] \notin {"pop_lock", "pop_check", "pop_empty"}
    BY <1>5, <2>1, <2>2 DEF IInv, TypeOK, PopCount, Goto
  <2> QED BY <1>5, <2>2 DEF IInv, TypeOK, SoleInv, SoleConsumer, PopCount, Goto
<1>6. ASSUME NEW w \in Workers, PopAdvance(w) \/ PopUnlock(w) PROVE SoleInv'
  BY <1>6 DEF IInv, TypeOK, SoleInv, SoleConsumer, PopAdvance, PopUnlock, Goto, ringVars
<1>7. CASE UNCHANGED vars
  BY <1>7 DEF SoleInv, SoleConsumer, vars
<1> QED BY <1>1, <1>2, <1>3, <1>4, <1>5, <1>6, <1>7 DEF Next, PopInside

\* A worker that saw its private queue non-empty gets a task from it: the
\* assertion in mir_worker_pop never fires, for any number of pushing workers.
THEOREM PrivateQueueYields == Spec => []SoleConsumerFindsTask
<1>1. Init => SoleInv
  BY DEF Init, SoleInv, PopPcs
<1>2. IInv /\ SoleInv /\ [Next]_vars => SoleInv'
  BY NextSoleInv
<1>3. SoleInv => SoleConsumerFindsTask
  BY DEF SoleInv, SoleConsumer, SoleConsumerFindsTask
<1> QED BY <1>1, <1>2, <1>3, RingInvariant, PTL DEF Spec
-----------------------------------------------------------------------------
(* The ring implements the queue *)

LEMMA ContentsIsSeq ==
    ASSUME IInv
    PROVE  /\ Contents \in Seq(Tasks)
           /\ Len(Contents) = size
           /\ \A k \in 1 .. size : Contents[k] = buffer[Wrap(front + (k - 1))]
<1>1. size \in Nat /\ \A k \in 1 .. size : buffer[Wrap(front + (k - 1))] \in Tasks
  BY DEF IInv, TypeOK, SlotInv
<1> QED BY <1>1 DEF Contents

LEMMA ContentsIsSeqNext ==
    ASSUME IInv'
    PROVE  /\ Contents' \in Seq(Tasks)
           /\ Len(Contents') = size'
           /\ \A k \in 1 .. size' : Contents'[k] = buffer'[Wrap(front' + (k - 1))]
<1>1. size' \in Nat
  BY DEF IInv, TypeOK
<1>2. \A k \in 0 .. size' - 1 : buffer'[Wrap(front' + k)] \in Tasks
  BY DEF IInv, SlotInv, Wrap
<1>3. \A n \in Nat : \A k \in 1 .. n : k - 1 \in 0 .. n - 1
  OBVIOUS
<1>4. \A k \in 1 .. size' : buffer'[Wrap(front' + (k - 1))] \in Tasks
  BY <1>1, <1>2, <1>3
<1> QED BY <1>1, <1>4 DEF Contents, Wrap

LEMMA EmptyContents ==
    ASSUME IInv, size = 0
    PROVE  Contents = <<>>
<1>1. Contents \in Seq(Tasks) /\ Len(Contents) = 0
  BY ContentsIsSeq
<1>2. \A i \in 1 .. Len(Contents) : Contents[i] = <<>>[i]
  BY <1>1
<1> QED BY <1>1, <1>2, EmptySeq, SeqEqual

\* Steps that leave size, front and the counted slots alone leave the queue alone.
LEMMA ContentsUnchanged ==
    ASSUME IInv, IInv', size' = size, front' = front,
           \A k \in 1 .. size : buffer'[Wrap(front + (k - 1))] = buffer[Wrap(front + (k - 1))]
    PROVE  Contents' = Contents
BY DEF Contents, Wrap

\* A step of w moves w's own call and nobody else's.
LEMMA CallMoves ==
    ASSUME IInv, NEW w \in Workers, NEW to, NEW t,
           pc' = [pc EXCEPT ![w] = to], data' = [data EXCEPT ![w] = t]
    PROVE  /\ pc'[w] = to /\ data'[w] = t
           /\ [v \in Workers |-> callOp(v)]' =
                  [[v \in Workers |-> callOp(v)] EXCEPT ![w] = callOp(w)']
           /\ [v \in Workers |-> callItem(v)]' =
                  [[v \in Workers |-> callItem(v)] EXCEPT ![w] = callItem(w)']
<1>1. pc'[w] = to /\ data'[w] = t
  BY DEF IInv, TypeOK
<1>2. ASSUME NEW v \in Workers, v # w
      PROVE  callOp(v)' = callOp(v) /\ callItem(v)' = callItem(v)
  BY <1>2 DEF IInv, TypeOK, callOp, callItem
<1> QED BY <1>1, <1>2

LEMMA DataUnchanged ==
    ASSUME IInv, NEW w \in Workers, data' = data
    PROVE  data' = [data EXCEPT ![w] = data[w]]
BY DEF IInv, TypeOK

LEMMA ContentsAppend ==
    ASSUME IInv, IInv', size' = size + 1, front' = front, buffer' = buffer,
           size < Capacity, NEW t \in Tasks, buffer[Wrap(front + size)] = t
    PROVE  Contents' = Append(Contents, t)
<1>1. /\ Contents' \in Seq(Tasks) /\ Len(Contents') = size + 1
      /\ \A k \in 1 .. size + 1 : Contents'[k] = buffer[Wrap(front + (k - 1))]
  BY ContentsIsSeqNext
<1>2. /\ Append(Contents, t) \in Seq(Tasks) /\ Len(Append(Contents, t)) = size + 1
      /\ \A k \in 1 .. size : Append(Contents, t)[k] = buffer[Wrap(front + (k - 1))]
      /\ Append(Contents, t)[size + 1] = t
  BY ContentsIsSeq, AppendProperties
<1>3. \A k \in 1 .. size + 1 : Contents'[k] = Append(Contents, t)[k]
  <2>1. size \in Nat /\ front + ((size + 1) - 1) = front + size
    BY FrontInSlots DEF IInv, TypeOK, Slots
  <2> QED BY <1>1, <1>2, <2>1
<1> QED BY <1>1, <1>2, <1>3, SeqEqual

\* The slot a producer fills holds no counted task.
LEMMA WriteOutsideQueue ==
    ASSUME IInv, NEW w \in Workers, PushWrite(w)
    PROVE  \A k \in 1 .. size :
               buffer'[Wrap(front + (k - 1))] = buffer[Wrap(front + (k - 1))]
<1>1. size \in Slots /\ front \in Slots /\ in = Wrap(front + size)
  BY PendingOfPusher, FrontInSlots, CapacityAssumption
  DEF IInv, TypeOK, RoomInv, IndexInv, PushWrite, Goto, Slots
<1>2. ASSUME NEW k \in 1 .. size
      PROVE  /\ Wrap(front + (k - 1)) \in Slots /\ Wrap(front + (k - 1)) # in
  <2>1. /\ k - 1 \in Slots /\ k - 1 # size
        /\ front + (k - 1) \in 0 .. 2 * Capacity - 1
    BY <1>1, CapacityAssumption DEF Slots
  <2> QED BY <1>1, <2>1, WrapInjective, WrapInSlots
<1> QED BY <1>2 DEF IInv, TypeOK, PushWrite

LEMMA ContentsTail ==
    ASSUME IInv, IInv', size > 0, size' = size - 1, buffer' = buffer,
           front' = Wrap(front + 1)
    PROVE  /\ Contents # <<>> /\ Head(Contents) = buffer[front]
           /\ Contents' = Tail(Contents)
<1>1. Contents # <<>> /\ Head(Contents) = buffer[front]
  BY ContentsIsSeq, FrontInSlots DEF IInv
<1>2. /\ Contents' \in Seq(Tasks) /\ Len(Contents') = size - 1
      /\ \A k \in 1 .. size - 1 : Contents'[k] = buffer[Wrap(front' + (k - 1))]
  BY ContentsIsSeqNext
<1>3. /\ Tail(Contents) \in Seq(Tasks) /\ Len(Tail(Contents)) = size - 1
      /\ \A k \in 1 .. size - 1 : Tail(Contents)[k] = buffer[Wrap(front + k)]
  <2>1. /\ Tail(Contents) \in Seq(Tasks) /\ Len(Tail(Contents)) = size - 1
        /\ \A k \in 1 .. Len(Tail(Contents)) : Tail(Contents)[k] = Contents[k + 1]
    BY <1>1, ContentsIsSeq, HeadTailProperties
  <2>2. \A k \in 1 .. size - 1 : Contents[k + 1] = buffer[Wrap(front + k)]
    <3>1. ASSUME NEW k \in 1 .. size - 1
          PROVE  k + 1 \in 1 .. size /\ front + ((k + 1) - 1) = front + k
      BY FrontInSlots DEF IInv, TypeOK, Slots
    <3> QED BY <3>1, ContentsIsSeq
  <2> QED BY <2>1, <2>2
<1>4. \A k \in 1 .. size - 1 : Wrap(front' + (k - 1)) = Wrap(front + k)
  <2>1. ASSUME NEW k \in 1 .. size - 1
        PROVE  k - 1 \in Slots /\ front \in Slots /\ (k - 1) + 1 = k
    BY FrontInSlots, CapacityAssumption DEF IInv, TypeOK, Slots
  <2> QED BY <2>1, WrapShift
<1>5. \A k \in 1 .. size - 1 : Contents'[k] = Tail(Contents)[k]
  BY <1>2, <1>3, <1>4
<1> QED BY <1>1, <1>2, <1>3, <1>5, SeqEqual

LEMMA InitRefines ==
    ASSUME Init
    PROVE  BQ!BQInit
<1>1. size = 0 /\ pc = [w \in Workers |-> "idle"] /\ data = [w \in Workers |-> NULL]
  BY DEF Init
<1>2. Contents = <<>>
  BY <1>1, InitIInv, EmptyContents
<1>3. \A w \in Workers : callOp(w) = "none" /\ callItem(w) = NULL
  BY <1>1 DEF callOp, callItem, PushPcs
<1> QED BY <1>2, <1>3 DEF BQ!BQInit

\* Every step of the ring is a step of the queue, or none that it can see.
LEMMA NextRefines ==
    ASSUME IInv, IInv', [Next]_vars
    PROVE  [BQ!BQNext]_(BQ!bqVars)
<1> USE DEF BQ!bqVars
<1>1. ASSUME NEW w \in Workers, NEW t \in Tasks, PushCall(w, t)
      PROVE  BQ!CallPush(w, t)
  <2>1. pc' = [pc EXCEPT ![w] = "push_lock"] /\ data' = [data EXCEPT ![w] = t]
    BY <1>1 DEF PushCall, Goto
  <2>2. front' = front /\ Contents' = Contents
    BY <1>1, <2>1, FrontUnchanged, ContentsUnchanged
    DEF IInv, PushCall, Goto, ringVars
  <2>3. callOp(w) = "none" /\ callOp(w)' = "push" /\ callItem(w)' = t
    <3>1. pc[w] = "idle" /\ pc'[w] = "push_lock" /\ data'[w] = t
      BY <1>1 DEF IInv, TypeOK, PushCall, Goto
    <3> QED BY <3>1 DEF callOp, callItem, PushPcs
  <2> QED BY <2>1, <2>2, <2>3, CallMoves DEF BQ!CallPush, BQ!Move
<1>2. ASSUME NEW w \in Workers, PopCall(w)
      PROVE  BQ!CallPop(w)
  <2>1. /\ pc' = [pc EXCEPT ![w] = "pop_lock"] /\ data' = [data EXCEPT ![w] = data[w]]
        /\ data[w] = NULL
    BY <1>2, DataUnchanged DEF PopCall, Goto, IInv, DataInv
  <2>2. front' = front /\ Contents' = Contents
    BY <1>2, <2>1, FrontUnchanged, ContentsUnchanged
    DEF IInv, PopCall, Goto, ringVars
  <2>3. callOp(w) = "none" /\ callOp(w)' = "pop" /\ callItem(w)' = NULL
    <3>1. pc[w] = "idle" /\ pc'[w] = "pop_lock" /\ data'[w] = NULL
      BY <1>2, <2>1, CallMoves DEF PopCall, Goto
    <3> QED BY <3>1 DEF callOp, callItem, PushPcs
  <2> QED BY <2>1, <2>2, <2>3, CallMoves DEF BQ!CallPop, BQ!Move
\* The producer's work up to its size++ cannot be seen, a refusal apart.
<1>3. ASSUME NEW w \in Workers, PushLock(w) \/ PushWrite(w) \/ PushAdvance(w)
      PROVE  UNCHANGED BQ!bqVars
  <2>1. PICK to \in {"push_check", "push_advance", "push_count"} :
            /\ pc' = [pc EXCEPT ![w] = to]
            /\ pc[w] \in PushPcs \ {"push_done", "push_full"}
    BY <1>3 DEF PushLock, PushWrite, PushAdvance, Goto, PushPcs
  <2>2. size' = size /\ out' = out /\ data' = [data EXCEPT ![w] = data[w]]
    BY <1>3, DataUnchanged DEF PushLock, PushWrite, PushAdvance, ringVars
  <2>3. front' = front
    BY <2>1, <2>2, FrontUnchanged DEF IInv, PushPcs
  <2>4. \A k \in 1 .. size :
            buffer'[Wrap(front + (k - 1))] = buffer[Wrap(front + (k - 1))]
    <3>1. CASE PushWrite(w)
      BY <3>1, WriteOutsideQueue
    <3> QED BY <1>3, <3>1 DEF PushLock, PushAdvance, ringVars
  <2>5. Contents' = Contents
    BY <2>2, <2>3, <2>4, ContentsUnchanged
  <2>6. /\ callOp(w)' = callOp(w) /\ callItem(w)' = callItem(w)
    BY <2>1, <2>2, CallMoves DEF callOp, callItem, PushPcs
  <2> QED BY <2>1, <2>2, <2>5, <2>6, CallMoves
<1>4. ASSUME NEW w \in Workers, PushCheck(w)
      PROVE  BQ!PushRefused(w) \/ UNCHANGED BQ!bqVars
  <2>1. /\ pc[w] = "push_check"
        /\ pc' = [pc EXCEPT ![w] = IF FULL THEN "push_full" ELSE "push_write"]
        /\ data' = [data EXCEPT ![w] = data[w]]
    BY <1>4, DataUnchanged DEF PushCheck, Goto
  <2>2. front' = front /\ Contents' = Contents
    BY <1>4, <2>1, FrontUnchanged, ContentsUnchanged DEF IInv, PushCheck, ringVars
  <2>3. callItem(w) = data[w] /\ callItem(w)' = data[w] /\ callOp(w) = "push"
    BY <2>1, CallMoves DEF callOp, callItem, PushPcs
  <2>4. CASE FULL
    <3>1. callOp(w)' = "full" /\ Len(Contents) = Capacity
      BY <2>1, <2>4, CallMoves, ContentsIsSeq DEF callOp, FULL
    <3> QED BY <2>1, <2>2, <2>3, <3>1, CallMoves DEF BQ!PushRefused, BQ!Move
  <2>5. CASE ~FULL
    <3>1. callOp(w)' = "push"
      BY <2>1, <2>5, CallMoves DEF callOp, PushPcs
    <3> QED BY <2>1, <2>2, <2>3, <3>1, CallMoves
  <2> QED BY <2>4, <2>5
\* size++ publishes the filled slot: the push takes effect.
<1>5. ASSUME NEW w \in Workers, PushCount(w)
      PROVE  BQ!Push(w)
  <2>1. /\ pc[w] = "push_count" /\ pc' = [pc EXCEPT ![w] = "push_done"]
        /\ data' = [data EXCEPT ![w] = data[w]] /\ data[w] \in Tasks
    BY <1>5, DataUnchanged DEF PushCount, Goto, IInv, DataInv, PushPcs
  <2>2. front' = front
    BY <1>5, <2>1, FrontUnchanged DEF IInv, PushCount
  <2>3. size < Capacity /\ buffer[Wrap(front + size)] = data[w]
    BY <2>1 DEF IInv, RoomInv, SlotInv
  <2>4. Contents' = Append(Contents, data[w]) /\ Len(Contents) < Capacity
    BY <1>5, <2>1, <2>2, <2>3, ContentsAppend, ContentsIsSeq DEF PushCount
  <2>5. /\ callOp(w) = "push" /\ callOp(w)' = "pushed"
        /\ callItem(w) = data[w] /\ callItem(w)' = data[w]
    <3>1. pc'[w] = "push_done" /\ data'[w] = data[w]
      BY <2>1, CallMoves
    <3> QED BY <2>1, <3>1 DEF callOp, callItem, PushPcs
  <2> QED BY <2>1, <2>4, <2>5, CallMoves DEF BQ!Push, BQ!Move
<1>6. ASSUME NEW w \in Workers, PushUnlock(w) \/ PopUnlock(w)
      PROVE  BQ!Return(w)
  <2>1. /\ pc[w] \in {"push_done", "push_full", "pop_done", "pop_empty"}
        /\ pc' = [pc EXCEPT ![w] = "idle"] /\ data' = [data EXCEPT ![w] = NULL]
    BY <1>6 DEF PushUnlock, PopUnlock, Goto
  <2>2. front' = front /\ Contents' = Contents
    BY <1>6, <2>1, FrontUnchanged, ContentsUnchanged
    DEF IInv, PushUnlock, PopUnlock, ringVars
  <2>3. /\ callOp(w) \in {"pushed", "full", "popped", "empty"}
        /\ callOp(w)' = "none" /\ callItem(w)' = NULL
    <3>1. pc'[w] = "idle" /\ data'[w] = NULL
      BY <2>1, CallMoves
    <3> QED BY <2>1, <3>1 DEF callOp, callItem, PushPcs
  <2> QED BY <2>1, <2>2, <2>3, CallMoves DEF BQ!Return, BQ!Move
\* The consumer's work up to its size-- cannot be seen, a refusal apart.
<1>7. ASSUME NEW w \in Workers, PopLock(w) \/ PopRead(w)
      PROVE  UNCHANGED BQ!bqVars
  <2>1. PICK to, t :
            /\ to \in {"pop_check", "pop_count"}
            /\ pc' = [pc EXCEPT ![w] = to] /\ data' = [data EXCEPT ![w] = t]
            /\ pc[w] \in {"pop_lock", "pop_read"} /\ data[w] = NULL
            /\ to = "pop_check" => t = NULL
    BY <1>7, DataUnchanged DEF PopLock, PopRead, Goto, IInv, DataInv
  <2>2. front' = front /\ Contents' = Contents
    BY <1>7, <2>1, FrontUnchanged, ContentsUnchanged
    DEF IInv, PopLock, PopRead, ringVars
  <2>3. callOp(w)' = callOp(w) /\ callItem(w)' = callItem(w)
    BY <2>1, CallMoves DEF callOp, callItem, PushPcs
  <2> QED BY <2>1, <2>2, <2>3, CallMoves
<1>8. ASSUME NEW w \in Workers, PopCheck(w)
      PROVE  BQ!PopRefused(w) \/ UNCHANGED BQ!bqVars
  <2>1. /\ pc[w] = "pop_check" /\ data[w] = NULL
        /\ pc' = [pc EXCEPT ![w] = IF EMPTY THEN "pop_empty" ELSE "pop_read"]
        /\ data' = [data EXCEPT ![w] = data[w]]
    BY <1>8, DataUnchanged DEF PopCheck, Goto, IInv, DataInv
  <2>2. front' = front /\ Contents' = Contents
    BY <1>8, <2>1, FrontUnchanged, ContentsUnchanged DEF IInv, PopCheck, ringVars
  <2>3. callItem(w) = NULL /\ callItem(w)' = NULL /\ callOp(w) = "pop"
    BY <2>1, CallMoves DEF callOp, callItem, PushPcs
  <2>4. CASE EMPTY
    <3>1. callOp(w)' = "empty" /\ Contents = <<>>
      <4>1. pc'[w] = "pop_empty"
        BY <2>1, <2>4, CallMoves
      <4> QED BY <2>4, <4>1, EmptyContents DEF callOp, EMPTY, PushPcs
    <3> QED BY <2>1, <2>2, <2>3, <3>1, CallMoves DEF BQ!PopRefused, BQ!Move
  <2>5. CASE ~EMPTY
    <3>1. callOp(w)' = "pop"
      BY <2>1, <2>5, CallMoves DEF callOp, PushPcs
    <3> QED BY <2>1, <2>2, <2>3, <3>1, CallMoves
  <2> QED BY <2>4, <2>5
\* size-- takes the oldest task out of the queue: the pop takes effect.
<1>9. ASSUME NEW w \in Workers, PopCount(w)
      PROVE  BQ!Pop(w)
  <2>1. /\ pc[w] = "pop_count" /\ pc' = [pc EXCEPT ![w] = "pop_advance"]
        /\ data' = [data EXCEPT ![w] = data[w]]
    BY <1>9, DataUnchanged DEF PopCount, Goto
  <2>2. front = out /\ front' = Wrap(front + 1)
    <3>1. pc'[w] = "pop_advance"
      BY <2>1 DEF IInv, TypeOK
    <3> QED BY <1>9, <2>1, <3>1, FrontOfPopper DEF IInv, PopCount, front, Wrap
  <2>3. size > 0 /\ buffer[front] = data[w]
    BY <2>1 DEF IInv, RoomInv, SlotInv
  <2>4. Contents # <<>> /\ Head(Contents) = data[w] /\ Contents' = Tail(Contents)
    BY <1>9, <2>2, <2>3, ContentsTail DEF PopCount
  <2>5. callOp(w) = "pop" /\ callOp(w)' = "popped" /\ callItem(w)' = data[w]
    BY <2>1, CallMoves DEF callOp, callItem, PushPcs
  <2> QED BY <2>1, <2>4, <2>5, CallMoves DEF BQ!Pop, BQ!Move
<1>10. ASSUME NEW w \in Workers, PopAdvance(w)
       PROVE  UNCHANGED BQ!bqVars
  <2>1. /\ pc[w] = "pop_advance" /\ pc' = [pc EXCEPT ![w] = "pop_done"]
        /\ data' = [data EXCEPT ![w] = data[w]]
    BY <1>10, DataUnchanged DEF PopAdvance, Goto
  <2>2. front' = front
    <3>1. \A v \in Workers : pc'[v] # "pop_advance"
      BY <2>1, Exclusion DEF IInv, TypeOK, PopPcs
    <3> QED BY <1>10, <2>1, <3>1, FrontOfPopper DEF IInv, PopAdvance, front
  <2>3. Contents' = Contents
    BY <1>10, <2>2, ContentsUnchanged DEF PopAdvance
  <2>4. callOp(w)' = callOp(w) /\ callItem(w)' = callItem(w)
    BY <2>1, CallMoves DEF callOp, callItem, PushPcs
  <2> QED BY <2>1, <2>3, <2>4, CallMoves
<1>11. CASE UNCHANGED vars
  BY <1>11 DEF vars, Contents, front, Wrap, callOp, callItem
<1> QED
  BY <1>1, <1>2, <1>3, <1>4, <1>5, <1>6, <1>7, <1>8, <1>9, <1>10, <1>11
  DEF Next, PushInside, PopInside, BQ!BQNext

\* The ring is a FIFO queue for its callers: for any number of producers and
\* consumers and any capacity, every behaviour of the two-lock ring is one of
\* the abstract queue, a push taking effect at size++ and a pop at size--.
THEOREM RingImplementsQueue == Spec => ImplementsQueue
<1>1. Init => BQ!BQInit
  BY InitRefines
<1>2. IInv /\ IInv' /\ [Next]_vars => [BQ!BQNext]_(BQ!bqVars)
  BY NextRefines
<1> QED BY <1>1, <1>2, RingInvariant, PTL DEF Spec, ImplementsQueue, BQ!BQSpec
-----------------------------------------------------------------------------
(* Where each task is *)

\* The tasks in a sequence, and that it holds none twice.
Elements(s) == {s[i] : i \in DOMAIN s}
Distinct(s) == \A i, j \in DOMAIN s : s[i] = s[j] => i = j

\* A task is outside, in one call or in one position of the queue, and in no
\* two of them.
PlaceInv ==
    /\ \A t \in Tasks : t \in outside \/ t \in Elements(Contents) \/ \E w \in Workers : InHand(w, t)
    /\ Distinct(Contents)
    /\ outside \cap Elements(Contents) = {}
    /\ \A w \in Workers : \A t \in Tasks : InHand(w, t) =>
            /\ t \notin outside /\ t \notin Elements(Contents)
            /\ \A v \in Workers : InHand(v, t) => v = w

HandPcs == (PushPcs \ {"push_done"}) \cup {"pop_advance", "pop_done"}

\* A task at the end of a queue that did not hold it.
LEMMA AppendPlaces ==
    ASSUME NEW s \in Seq(Tasks), NEW t \in Tasks, Distinct(s), t \notin Elements(s)
    PROVE  Distinct(Append(s, t)) /\ Elements(Append(s, t)) = Elements(s) \cup {t}
<1> DEFINE n == Len(s)
           r == Append(s, t)
<1>1. /\ n \in Nat /\ DOMAIN s = 1 .. n /\ DOMAIN r = 1 .. n + 1
      /\ r[n + 1] = t /\ \A i \in 1 .. n : r[i] = s[i]
  OBVIOUS
<1> HIDE DEF n, r
<1>2. Distinct(r)
  BY <1>1 DEF Distinct, Elements
<1>3. Elements(r) \subseteq Elements(s) \cup {t}
  BY <1>1 DEF Elements
<1>4. Elements(s) \subseteq Elements(r)
  BY <1>1 DEF Elements
<1>5. t \in Elements(r)
  BY <1>1 DEF Elements
<1>6. QED
  BY <1>2, <1>3, <1>4, <1>5 DEF r

\* A queue without its first task.
LEMMA TailPlaces ==
    ASSUME NEW s \in Seq(Tasks), s # <<>>, Distinct(s)
    PROVE  /\ Distinct(Tail(s)) /\ Elements(Tail(s)) = Elements(s) \ {Head(s)}
           /\ Head(s) \in Elements(s)
<1> DEFINE n == Len(s)
           r == Tail(s)
<1>1. /\ n \in Nat \ {0} /\ DOMAIN s = 1 .. n /\ DOMAIN r = 1 .. n - 1
      /\ Head(s) = s[1] /\ \A i \in 1 .. n - 1 : r[i] = s[i + 1]
  OBVIOUS
<1> HIDE DEF n, r
<1>2. Distinct(r)
  <2>1. ASSUME NEW i \in 1 .. n - 1, NEW j \in 1 .. n - 1, r[i] = r[j] PROVE i = j
    <3>1. i + 1 \in 1 .. n /\ j + 1 \in 1 .. n /\ s[i + 1] = s[j + 1]
      BY <1>1, <2>1
    <3>2. i + 1 = j + 1
      BY <1>1, <3>1 DEF Distinct
    <3>3. QED
      BY <3>2
  <2>2. QED
    BY <1>1, <2>1 DEF Distinct
<1>3. Elements(r) \subseteq Elements(s) \ {Head(s)}
  <2>1. ASSUME NEW i \in 1 .. n - 1 PROVE r[i] \in Elements(s) \ {Head(s)}
    <3>1. i + 1 \in 1 .. n /\ 1 \in 1 .. n /\ r[i] = s[i + 1] /\ i + 1 # 1
      BY <1>1
    <3>2. QED
      BY <1>1, <3>1 DEF Distinct, Elements
  <2>2. QED
    BY <1>1, <2>1 DEF Elements
<1>4. Elements(s) \ {Head(s)} \subseteq Elements(r)
  <2>1. ASSUME NEW i \in 1 .. n, s[i] # Head(s) PROVE s[i] \in Elements(r)
    <3>1. i - 1 \in 1 .. n - 1 /\ r[i - 1] = s[i]
      BY <1>1, <2>1
    <3>2. QED
      BY <1>1, <3>1 DEF Elements
  <2>2. QED
    BY <1>1, <2>1 DEF Elements
<1>5. Head(s) \in Elements(s)
  BY <1>1 DEF Elements
<1>6. QED
  BY <1>2, <1>3, <1>4, <1>5 DEF r

\* What a step of w does to the tasks in hand.
LEMMA HandMoves ==
    ASSUME IInv, NEW w \in Workers, NEW to, NEW t,
           pc' = [pc EXCEPT ![w] = to], data' = [data EXCEPT ![w] = t]
    PROVE  /\ \A v \in Workers : \A u \in Tasks : v # w => (InHand(v, u)' <=> InHand(v, u))
           /\ \A u \in Tasks : InHand(w, u)' <=> (to \in HandPcs /\ t = u)
           /\ \A u \in Tasks : InHand(w, u) <=> (pc[w] \in HandPcs /\ data[w] = u)
BY DEF IInv, TypeOK, InHand, Inside, HandPcs

LEMMA PlaceInit ==
    ASSUME Init
    PROVE  PlaceInv
<1>1. Contents = <<>>
  BY InitIInv, EmptyContents DEF Init
<1>2. Elements(Contents) = {} /\ Distinct(Contents)
  BY <1>1 DEF Elements, Distinct
<1>3. \A w \in Workers : \A t \in Tasks : ~InHand(w, t)
  BY DEF Init, InHand, Inside, PushPcs
<1> QED BY <1>2, <1>3 DEF Init, PlaceInv

\* No task moves.
LEMMA PlacesKept ==
    ASSUME PlaceInv, Contents' = Contents, outside' = outside,
           \A w \in Workers : \A t \in Tasks : InHand(w, t)' <=> InHand(w, t)
    PROVE  PlaceInv'
BY DEF PlaceInv, Elements, Distinct

LEMMA PlaceStep ==
    ASSUME IInv, IInv', PlaceInv, [Next]_vars
    PROVE  PlaceInv'
<1> USE DEF HandPcs
<1>1. ASSUME NEW w \in Workers, NEW t \in Tasks, PushCall(w, t) PROVE PlaceInv'
  <2>1. /\ pc[w] = "idle" /\ pc' = [pc EXCEPT ![w] = "push_lock"]
        /\ data' = [data EXCEPT ![w] = t] /\ t \in outside /\ outside' = outside \ {t}
    BY <1>1 DEF PushCall, Goto
  <2>2. Contents' = Contents
    BY <1>1, <2>1, FrontUnchanged, ContentsUnchanged DEF IInv, PushCall, ringVars
  <2>3. \A v \in Workers : \A u \in Tasks : InHand(v, u)' <=> (InHand(v, u) \/ (v = w /\ u = t))
    <3>1. \A u \in Tasks : ~InHand(w, u) /\ (InHand(w, u)' <=> u = t)
      BY <2>1, HandMoves DEF PushPcs
    <3>2. \A v \in Workers : \A u \in Tasks : v # w => (InHand(v, u)' <=> InHand(v, u))
      BY <2>1, HandMoves
    <3> QED BY <3>1, <3>2
  <2>4. Elements(Contents)' = Elements(Contents) /\ (Distinct(Contents)' <=> Distinct(Contents))
    BY <2>2 DEF Elements, Distinct
  <2> QED BY <2>1, <2>3, <2>4 DEF PlaceInv
<1>2. ASSUME NEW w \in Workers,
             PushLock(w) \/ PushWrite(w) \/ PushAdvance(w) \/ PushCheck(w)
      PROVE  PlaceInv'
  <2>1. PICK to \in {"push_check", "push_advance", "push_count", "push_full", "push_write"} :
            /\ pc' = [pc EXCEPT ![w] = to] /\ pc[w] \in PushPcs \ {"push_done", "push_full"}
    BY <1>2 DEF PushLock, PushWrite, PushAdvance, PushCheck, Goto, PushPcs
  <2>2. /\ size' = size /\ out' = out /\ data' = [data EXCEPT ![w] = data[w]]
        /\ outside' = outside
    BY <1>2, DataUnchanged DEF PushLock, PushWrite, PushAdvance, PushCheck, ringVars
  <2>3. front' = front
    BY <2>1, <2>2, FrontUnchanged DEF IInv, PushPcs
  <2>4. \A k \in 1 .. size :
            buffer'[Wrap(front + (k - 1))] = buffer[Wrap(front + (k - 1))]
    <3>1. CASE PushWrite(w)
      BY <3>1, WriteOutsideQueue
    <3> QED BY <1>2, <3>1 DEF PushLock, PushAdvance, PushCheck, ringVars
  <2>5. Contents' = Contents
    BY <2>2, <2>3, <2>4, ContentsUnchanged
  <2>6. \A v \in Workers : \A u \in Tasks : InHand(v, u)' <=> InHand(v, u)
    <3>1. \A u \in Tasks : InHand(w, u)' <=> InHand(w, u)
      <4>1. to \in HandPcs /\ pc[w] \in HandPcs
        BY <2>1 DEF PushPcs
      <4>2. /\ \A u \in Tasks : InHand(w, u)' <=> (to \in HandPcs /\ data[w] = u)
            /\ \A u \in Tasks : InHand(w, u) <=> (pc[w] \in HandPcs /\ data[w] = u)
        <5> HIDE DEF HandPcs
        <5> QED BY <2>1, <2>2, HandMoves
      <4> HIDE DEF HandPcs
      <4> QED BY <4>1, <4>2
    <3>2. \A v \in Workers : \A u \in Tasks : v # w => (InHand(v, u)' <=> InHand(v, u))
      BY <2>1, <2>2, HandMoves
    <3> QED BY <3>1, <3>2
  <2> QED BY <2>2, <2>5, <2>6, PlacesKept
<1>3. ASSUME NEW w \in Workers, PushCount(w) PROVE PlaceInv'
  <2> DEFINE t == data[w]
  <2>1. /\ pc[w] = "push_count" /\ pc' = [pc EXCEPT ![w] = "push_done"]
        /\ data' = [data EXCEPT ![w] = t] /\ t \in Tasks /\ outside' = outside
    BY <1>3, DataUnchanged DEF PushCount, Goto, IInv, DataInv, PushPcs
  <2>2. front' = front
    BY <1>3, <2>1, FrontUnchanged DEF IInv, PushCount
  <2>3. size < Capacity /\ buffer[Wrap(front + size)] = t
    BY <2>1 DEF IInv, RoomInv, SlotInv
  <2>4. Contents' = Append(Contents, t)
    BY <1>3, <2>1, <2>2, <2>3, ContentsAppend DEF PushCount
  <2> HIDE DEF t
  <2>5. InHand(w, t)
    BY <2>1, HandMoves DEF PushPcs, t
  <2>6. t \notin outside /\ t \notin Elements(Contents) /\ \A v \in Workers : InHand(v, t) => v = w
    BY <2>1, <2>5 DEF PlaceInv
  <2>7. \A v \in Workers : \A u \in Tasks : InHand(v, u)' <=> (InHand(v, u) /\ ~(v = w /\ u = t))
    BY <2>1, HandMoves DEF PushPcs, t
  <2>8. Elements(Contents)' = Elements(Contents) \cup {t} /\ Distinct(Contents)'
    <3>1. Contents \in Seq(Tasks) /\ Distinct(Contents)
      BY ContentsIsSeq DEF PlaceInv
    <3>2. Distinct(Append(Contents, t)) /\ Elements(Append(Contents, t)) = Elements(Contents) \cup {t}
      BY <2>1, <2>6, <3>1, AppendPlaces
    <3> QED BY <2>4, <3>2 DEF Distinct, Elements
  <2> QED BY <2>1, <2>6, <2>7, <2>8 DEF PlaceInv
<1>4. ASSUME NEW w \in Workers, PushUnlock(w) \/ PopUnlock(w) PROVE PlaceInv'
  <2> DEFINE t == data[w]
  <2>1. /\ pc[w] \in {"push_done", "push_full", "pop_done", "pop_empty"}
        /\ pc' = [pc EXCEPT ![w] = "idle"] /\ data' = [data EXCEPT ![w] = NULL]
        /\ outside' = IF pc[w] \in {"push_full", "pop_done"} THEN outside \cup {t} ELSE outside
    BY <1>4 DEF PushUnlock, PopUnlock, Goto
  <2>2. Contents' = Contents
    BY <1>4, <2>1, FrontUnchanged, ContentsUnchanged
    DEF IInv, PushUnlock, PopUnlock, ringVars
  <2>3. \A u \in Tasks : ~InHand(w, u)'
    BY <2>1, HandMoves, NullAssumption DEF PushPcs
  <2>4. \A v \in Workers : \A u \in Tasks : v # w => (InHand(v, u)' <=> InHand(v, u))
    BY <2>1, HandMoves
  <2>5. CASE pc[w] \in {"push_full", "pop_done"}
    <3>1. t \in Tasks /\ InHand(w, t)
      <4>1. t \in Tasks
        BY <2>5 DEF IInv, DataInv, PushPcs
      <4> QED BY <2>1, <2>5, <4>1, HandMoves DEF PushPcs
    <3>2. outside' = outside \cup {t} /\ t \notin Elements(Contents)
      BY <2>1, <2>5, <3>1 DEF PlaceInv
    <3>3. \A u \in Tasks : InHand(w, u) <=> u = t
      BY <2>1, <2>5, HandMoves DEF PushPcs
    <3>4. Elements(Contents)' = Elements(Contents) /\ (Distinct(Contents)' <=> Distinct(Contents))
      BY <2>2 DEF Elements, Distinct
    <3> HIDE DEF t
    <3> QED BY <2>3, <2>4, <3>1, <3>2, <3>3, <3>4 DEF PlaceInv
  <2>6. CASE pc[w] \in {"push_done", "pop_empty"}
    <3>1. \A u \in Tasks : ~InHand(w, u)
      BY <2>1, <2>6, HandMoves DEF PushPcs
    <3>2. outside' = outside
      BY <2>1, <2>6
    <3> QED BY <2>2, <2>3, <2>4, <3>1, <3>2, PlacesKept
  <2> QED BY <2>1, <2>5, <2>6
<1>5. ASSUME NEW w \in Workers,
             PopCall(w) \/ PopLock(w) \/ PopRead(w) \/ PopCheck(w)
      PROVE  PlaceInv'
  <2>1. PICK to, t :
            /\ to \in {"pop_lock", "pop_check", "pop_count", "pop_empty", "pop_read"}
            /\ pc' = [pc EXCEPT ![w] = to] /\ data' = [data EXCEPT ![w] = t]
            /\ pc[w] \in {"idle", "pop_lock", "pop_read", "pop_check"}
    BY <1>5, DataUnchanged DEF PopCall, PopLock, PopRead, PopCheck, Goto
  <2>2. Contents' = Contents /\ outside' = outside
    BY <1>5, <2>1, FrontUnchanged, ContentsUnchanged
    DEF IInv, PopCall, PopLock, PopRead, PopCheck, ringVars
  <2>3. \A v \in Workers : \A u \in Tasks : InHand(v, u)' <=> InHand(v, u)
    BY <2>1, HandMoves DEF PushPcs
  <2> QED BY <2>2, <2>3, PlacesKept
<1>6. ASSUME NEW w \in Workers, PopCount(w) PROVE PlaceInv'
  <2> DEFINE t == data[w]
  <2>1. /\ pc[w] = "pop_count" /\ pc' = [pc EXCEPT ![w] = "pop_advance"]
        /\ data' = [data EXCEPT ![w] = t] /\ outside' = outside /\ t \in Tasks
    BY <1>6, DataUnchanged DEF PopCount, Goto, IInv, DataInv
  <2>2. front = out /\ front' = Wrap(front + 1)
    <3>1. pc'[w] = "pop_advance"
      BY <2>1 DEF IInv, TypeOK
    <3> QED BY <1>6, <2>1, <3>1, FrontOfPopper DEF IInv, PopCount, front, Wrap
  <2>3. size > 0 /\ buffer[front] = t
    BY <2>1 DEF IInv, RoomInv, SlotInv
  <2>4. Contents # <<>> /\ Head(Contents) = t /\ Contents' = Tail(Contents)
    BY <1>6, <2>2, <2>3, ContentsTail DEF PopCount
  <2>5. \A v \in Workers : \A u \in Tasks : InHand(v, u)' <=> (InHand(v, u) \/ (v = w /\ u = t))
    <3>1. \A u \in Tasks : ~InHand(w, u) /\ (InHand(w, u)' <=> u = t)
      BY <2>1, HandMoves DEF PushPcs
    <3>2. \A v \in Workers : \A u \in Tasks : v # w => (InHand(v, u)' <=> InHand(v, u))
      BY <2>1, HandMoves
    <3> QED BY <3>1, <3>2
  <2> HIDE DEF t
  <2>6. /\ Elements(Contents)' = Elements(Contents) \ {t} /\ Distinct(Contents)'
        /\ t \in Elements(Contents)
    <3>1. Contents \in Seq(Tasks) /\ Distinct(Contents)
      BY ContentsIsSeq DEF PlaceInv
    <3>2. /\ Distinct(Tail(Contents)) /\ Elements(Tail(Contents)) = Elements(Contents) \ {t}
          /\ t \in Elements(Contents)
      BY <2>4, <3>1, TailPlaces
    <3> QED BY <2>4, <3>2 DEF Distinct, Elements
  <2> QED BY <2>1, <2>5, <2>6 DEF PlaceInv
<1>7. ASSUME NEW w \in Workers, PopAdvance(w) PROVE PlaceInv'
  <2>1. /\ pc[w] = "pop_advance" /\ pc' = [pc EXCEPT ![w] = "pop_done"]
        /\ data' = [data EXCEPT ![w] = data[w]] /\ outside' = outside
    BY <1>7, DataUnchanged DEF PopAdvance, Goto
  <2>2. front' = front
    <3>1. \A v \in Workers : pc'[v] # "pop_advance"
      BY <2>1, Exclusion DEF IInv, TypeOK, PopPcs
    <3> QED BY <1>7, <2>1, <3>1, FrontOfPopper DEF IInv, PopAdvance, front
  <2>3. Contents' = Contents
    BY <1>7, <2>2, ContentsUnchanged DEF PopAdvance
  <2>4. \A v \in Workers : \A u \in Tasks : InHand(v, u)' <=> InHand(v, u)
    <3>1. \A u \in Tasks : InHand(w, u)' <=> InHand(w, u)
      BY <2>1, HandMoves
    <3>2. \A v \in Workers : \A u \in Tasks : v # w => (InHand(v, u)' <=> InHand(v, u))
      BY <2>1, HandMoves
    <3> QED BY <3>1, <3>2
  <2> QED BY <2>1, <2>3, <2>4, PlacesKept
<1>8. CASE UNCHANGED vars
  <2>1. Contents' = Contents /\ outside' = outside
    BY <1>8 DEF vars, Contents, front, Wrap
  <2>2. \A v \in Workers : \A u \in Tasks : InHand(v, u)' <=> InHand(v, u)
    BY <1>8 DEF vars, InHand, Inside
  <2> QED BY <2>1, <2>2, PlacesKept
<1> QED
  BY <1>1, <1>2, <1>3, <1>4, <1>5, <1>6, <1>7, <1>8
  DEF Next, PushInside, PopInside

\* Counting the places of a task.
LEMMA PlacesCounted ==
    ASSUME IInv, PlaceInv
    PROVE  TaskInOnePlace
<1> SUFFICES ASSUME NEW t \in Tasks
             PROVE  Cardinality({w \in Workers : InHand(w, t)})
                       + Cardinality({k \in 1 .. size : Contents[k] = t})
                       + (IF t \in outside THEN 1 ELSE 0) = 1
  BY DEF TaskInOnePlace
<1> DEFINE calls == {w \in Workers : InHand(w, t)}
           places == {k \in 1 .. size : Contents[k] = t}
<1>1. DOMAIN Contents = 1 .. size
  BY ContentsIsSeq
<1>2. places = {} <=> t \notin Elements(Contents)
  BY <1>1 DEF Elements
<1>3. \A j, k \in places : j = k
  BY <1>1 DEF PlaceInv, Distinct
<1>4. \A v, w \in calls : v = w
  BY DEF PlaceInv
<1>5. \A S : S # {} /\ (\A x, y \in S : x = y) => Cardinality(S) = 1
  <2>1. ASSUME NEW S, S # {}, \A x, y \in S : x = y PROVE Cardinality(S) = 1
    <3>1. PICK x : S = {x}
      BY <2>1
    <3> QED BY <3>1, FS_Singleton
  <2> QED BY <2>1
<1>6. Cardinality({}) = 0
  BY FS_EmptySet
<1>7. CASE t \in outside
  <2>1. calls = {} /\ places = {}
    BY <1>2, <1>7 DEF PlaceInv
  <2> QED BY <1>6, <1>7, <2>1
<1>8. CASE t \in Elements(Contents)
  <2>1. calls = {} /\ places # {} /\ t \notin outside
    BY <1>2, <1>8 DEF PlaceInv
  <2>2. Cardinality(places) = 1
    BY <1>3, <1>5, <2>1
  <2> QED BY <1>6, <2>1, <2>2
<1>9. CASE \E w \in Workers : InHand(w, t)
  <2>1. calls # {} /\ places = {} /\ t \notin outside
    BY <1>2, <1>9 DEF PlaceInv
  <2>2. Cardinality(calls) = 1
    BY <1>4, <1>5, <2>1
  <2> QED BY <1>6, <2>1, <2>2
<1> QED BY <1>7, <1>8, <1>9 DEF PlaceInv

\* No task is lost in the ring or handed out twice, however its producers and
\* consumers interleave.
THEOREM RingKeepsTasks == Spec => []TaskInOnePlace
<1>1. Init => PlaceInv
  BY PlaceInit
<1>2. IInv /\ IInv' /\ PlaceInv /\ [Next]_vars => PlaceInv'
  BY PlaceStep
<1>3. IInv /\ PlaceInv => TaskInOnePlace
  BY PlacesCounted
<1> QED BY <1>1, <1>2, <1>3, RingInvariant, PTL DEF Spec
=============================================================================
