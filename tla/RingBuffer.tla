----------------------------- MODULE RingBuffer -----------------------------
(***************************************************************************)
(* The bounded POSIX ring buffer of src/ingestion/buffer.c: a circular     *)
(* array guarded by one mutex and two condition variables, shared by any   *)
(* number of producer and consumer threads.                                *)
(*                                                                         *)
(* A thread is at one control point pc[t]:                                 *)
(*   idle           outside the buffer's functions                         *)
(*   X_lock         blocked in pthread_mutex_lock, on entry to X or when   *)
(*                  pthread_cond_wait is taking the mutex back             *)
(*   X_test         at the head of X's while loop, holding the mutex       *)
(*   X_wait         asleep in pthread_cond_wait; the threads at push_wait  *)
(*                  are the waiters of not_full, those at pop_wait the     *)
(*                  waiters of not_empty                                   *)
(*   push_publish   record copied into its slot, indices not yet advanced  *)
(*   pop_advance    record copied out, indices not yet advanced            *)
(*   shutdown_set   in buffer_signal_shutdown, holding the mutex           *)
(*   query_read     in buffer_is_shutdown, holding the mutex               *)
(*   ret_true/false holding the mutex, about to unlock it and return       *)
(***************************************************************************)
EXTENDS Integers, FiniteSets

CONSTANTS
    Producers,  \* threads that call buffer_push
    Consumers,  \* threads that call buffer_pop
    Items,      \* the VehicleData records
    Capacity,   \* rb->capacity
    NoThread,   \* the mutex has no owner
    NoItem      \* bytes no caller stored: malloc'ed slots, zeroed targets

Threads == Producers \cup Consumers

ASSUME CapacityAssumption == Capacity \in Nat \ {0}
ASSUME ThreadsAssumption == /\ IsFiniteSet(Threads)
                            /\ Producers \cap Consumers = {}
                            /\ NoThread \notin Threads
ASSUME ItemsAssumption == NoItem \notin Items

VARIABLES
    data, head, tail, count, shutdown,  \* the fields of RingBuffer
    lock,   \* the thread that owns rb->lock, or NoThread
    pc,     \* the control point of each thread
    item,   \* a producer's argument, a consumer's VehicleData *item
    ret     \* what the thread's last call returned

vars == <<data, head, tail, count, shutdown, lock, pc, item, ret>>
ring == <<data, head, tail, count>>

Slots == 0 .. Capacity - 1

\* Where a thread that obtains the mutex continues.
AfterLock == [push_lock |-> "push_test", pop_lock |-> "pop_test",
              shutdown_lock |-> "shutdown_set", query_lock |-> "query_read"]

Holding == {"push_test", "push_publish", "pop_test", "pop_advance",
            "shutdown_set", "query_read", "ret_true", "ret_false"}

ControlPoints == {"idle", "push_wait", "pop_wait"} \cup DOMAIN AfterLock \cup Holding

At(p) == {t \in Threads : pc[t] \in p}

Goto(t, p) == pc' = [pc EXCEPT ![t] = p]

-----------------------------------------------------------------------------
\* buffer_init.  malloc leaves the slots with arbitrary bytes.
Init ==
    /\ data = [i \in Slots |-> NoItem]
    /\ head = 0
    /\ tail = 0
    /\ count = 0
    /\ shutdown = FALSE
    /\ lock = NoThread
    /\ pc = [t \in Threads |-> "idle"]
    /\ item = [t \in Threads |-> NoItem]
    /\ ret = [t \in Threads |-> FALSE]

-----------------------------------------------------------------------------
(* The pthread primitives. *)

pthread_mutex_lock(t) ==
    /\ pc[t] \in DOMAIN AfterLock
    /\ lock = NoThread
    /\ lock' = t
    /\ Goto(t, AfterLock[pc[t]])
    /\ UNCHANGED <<ring, shutdown, item, ret>>

\* The control states after one thread asleep at w, if any, moves on to l.
pthread_cond_signal(control, w, l) ==
    LET sleepers == {u \in Threads : control[u] = w}
    IN  IF sleepers = {} THEN {control}
                         ELSE {[control EXCEPT ![u] = l] : u \in sleepers}

\* The control state after every thread asleep at w moved on to l.
pthread_cond_broadcast(control, w, l) ==
    [u \in Threads |-> IF control[u] = w THEN l ELSE control[u]]

\* POSIX lets pthread_cond_wait return with no signal.
SpuriousWakeup(t) ==
    /\ \/ pc[t] = "push_wait" /\ Goto(t, "push_lock")
       \/ pc[t] = "pop_wait" /\ Goto(t, "pop_lock")
    /\ UNCHANGED <<ring, shutdown, lock, item, ret>>

\* Every function ends by unlocking the mutex and returning.
UnlockAndReturn(t) ==
    /\ pc[t] \in {"ret_true", "ret_false"}
    /\ lock' = NoThread
    /\ ret' = [ret EXCEPT ![t] = (pc[t] = "ret_true")]
    /\ Goto(t, "idle")
    /\ UNCHANGED <<ring, shutdown, item>>

-----------------------------------------------------------------------------
(* A call of X moves the caller to X_lock. *)

Call(t, l) ==
    /\ pc[t] = "idle"
    /\ Goto(t, l)
    /\ UNCHANGED <<ring, shutdown, lock, item, ret>>

-----------------------------------------------------------------------------
(* buffer_push *)

buffer_push(t, v) ==
    /\ pc[t] = "idle"
    /\ Goto(t, "push_lock")
    /\ item' = [item EXCEPT ![t] = v]
    /\ UNCHANGED <<ring, shutdown, lock, ret>>

\* Mutation: the full test is one too late.
PushMustWaitLate == count > Capacity /\ ~shutdown

PushMustWait == count = Capacity /\ ~shutdown

PushWait(t) ==
    /\ pc[t] = "push_test"
    /\ PushMustWait
    /\ lock' = NoThread
    /\ Goto(t, "push_wait")
    /\ UNCHANGED <<ring, shutdown, item, ret>>

\* Mutation: the early return forgets the unlock.
PushRefusedLocked(t) ==
    /\ pc[t] = "push_test"
    /\ shutdown
    /\ ret' = [ret EXCEPT ![t] = FALSE]
    /\ Goto(t, "idle")
    /\ UNCHANGED <<ring, shutdown, lock, item>>

PushRefused(t) ==
    /\ pc[t] = "push_test"
    /\ ~PushMustWait
    /\ shutdown
    /\ Goto(t, "ret_false")
    /\ UNCHANGED <<ring, shutdown, lock, item, ret>>

\* Mutation: the record is stored at the wrong index.
PushStoreAtTail(t) ==
    /\ pc[t] = "push_test"
    /\ ~PushMustWait
    /\ ~shutdown
    /\ data' = [data EXCEPT ![tail] = item[t]]
    /\ Goto(t, "push_publish")
    /\ UNCHANGED <<head, tail, count, shutdown, lock, item, ret>>

PushStore(t) ==
    /\ pc[t] = "push_test"
    /\ ~PushMustWait
    /\ ~shutdown
    /\ data' = [data EXCEPT ![head] = item[t]]
    /\ Goto(t, "push_publish")
    /\ UNCHANGED <<head, tail, count, shutdown, lock, item, ret>>

\* Mutation: not_empty is signalled only when the buffer was empty.
PushPublishSignalIfEmpty(t) ==
    /\ pc[t] = "push_publish"
    /\ head' = (head + 1) % Capacity
    /\ count' = count + 1
    /\ LET moved == [pc EXCEPT ![t] = "ret_true"]
       IN  IF count = 0 THEN pc' \in pthread_cond_signal(moved, "pop_wait", "pop_lock")
                        ELSE pc' = moved
    /\ UNCHANGED <<data, tail, shutdown, lock, item, ret>>

\* Mutation: not_empty is signalled only when the buffer has become full.
PushPublishSignalIfFull(t) ==
    /\ pc[t] = "push_publish"
    /\ head' = (head + 1) % Capacity
    /\ count' = count + 1
    /\ LET moved == [pc EXCEPT ![t] = "ret_true"]
       IN  IF count' = Capacity THEN pc' \in pthread_cond_signal(moved, "pop_wait", "pop_lock")
                                ELSE pc' = moved
    /\ UNCHANGED <<data, tail, shutdown, lock, item, ret>>

PushPublish(t) ==
    /\ pc[t] = "push_publish"
    /\ head' = (head + 1) % Capacity
    /\ count' = count + 1
    /\ pc' \in pthread_cond_signal([pc EXCEPT ![t] = "ret_true"], "pop_wait", "pop_lock")
    /\ UNCHANGED <<data, tail, shutdown, lock, item, ret>>

-----------------------------------------------------------------------------
(* buffer_pop *)

PopMustWait == count = 0 /\ ~shutdown

PopWait(t) ==
    /\ pc[t] = "pop_test"
    /\ PopMustWait
    /\ lock' = NoThread
    /\ Goto(t, "pop_wait")
    /\ UNCHANGED <<ring, shutdown, item, ret>>

PopDrained(t) ==
    /\ pc[t] = "pop_test"
    /\ ~PopMustWait
    /\ shutdown /\ count = 0
    /\ Goto(t, "ret_false")
    /\ UNCHANGED <<ring, shutdown, lock, item, ret>>

\* Mutation: the newest record is taken, not the oldest.
PopLoadNewest(t) ==
    /\ pc[t] = "pop_test"
    /\ ~PopMustWait
    /\ ~(shutdown /\ count = 0)
    /\ item' = [item EXCEPT ![t] = data[(head + Capacity - 1) % Capacity]]
    /\ Goto(t, "pop_advance")
    /\ UNCHANGED <<ring, shutdown, lock, ret>>

PopLoad(t) ==
    /\ pc[t] = "pop_test"
    /\ ~PopMustWait
    /\ ~(shutdown /\ count = 0)
    /\ item' = [item EXCEPT ![t] = data[tail]]
    /\ Goto(t, "pop_advance")
    /\ UNCHANGED <<ring, shutdown, lock, ret>>

\* Mutation: not_full is not signalled.
PopAdvanceSilent(t) ==
    /\ pc[t] = "pop_advance"
    /\ tail' = (tail + 1) % Capacity
    /\ count' = count - 1
    /\ Goto(t, "ret_true")
    /\ UNCHANGED <<data, head, shutdown, lock, item, ret>>

PopAdvance(t) ==
    /\ pc[t] = "pop_advance"
    /\ tail' = (tail + 1) % Capacity
    /\ count' = count - 1
    /\ pc' \in pthread_cond_signal([pc EXCEPT ![t] = "ret_true"], "push_wait", "push_lock")
    /\ UNCHANGED <<data, head, shutdown, lock, item, ret>>

-----------------------------------------------------------------------------
(* buffer_signal_shutdown and buffer_is_shutdown *)

\* Mutation: only one of the two condition variables is broadcast.
ShutdownSetNotEmptyOnly(t) ==
    /\ pc[t] = "shutdown_set"
    /\ shutdown' = TRUE
    /\ pc' = [pthread_cond_broadcast(pc, "pop_wait", "pop_lock") EXCEPT ![t] = "ret_true"]
    /\ UNCHANGED <<ring, lock, item, ret>>

ShutdownSet(t) ==
    /\ pc[t] = "shutdown_set"
    /\ shutdown' = TRUE
    /\ pc' = LET woken == pthread_cond_broadcast(pc, "pop_wait", "pop_lock")
             IN  [pthread_cond_broadcast(woken, "push_wait", "push_lock")
                    EXCEPT ![t] = "ret_true"]
    /\ UNCHANGED <<ring, lock, item, ret>>

QueryRead(t) ==
    /\ pc[t] = "query_read"
    /\ Goto(t, IF shutdown THEN "ret_true" ELSE "ret_false")
    /\ UNCHANGED <<ring, shutdown, lock, item, ret>>

-----------------------------------------------------------------------------
\* The steps of a call that is under way; a thread takes them on its own.
PushStep(t) == PushWait(t) \/ PushRefused(t) \/ PushStore(t) \/ PushPublish(t)
PopStep(t) == PopWait(t) \/ PopDrained(t) \/ PopLoad(t) \/ PopAdvance(t)
Step(t) == \/ pthread_mutex_lock(t)
           \/ PushStep(t)
           \/ PopStep(t)
           \/ ShutdownSet(t)
           \/ QueryRead(t)
           \/ UnlockAndReturn(t)

Next ==
    \/ \E t \in Producers, v \in Items : buffer_push(t, v)
    \/ \E t \in Consumers : Call(t, "pop_lock")
    \/ \E t \in Threads : \/ Call(t, "shutdown_lock")
                          \/ Call(t, "query_lock")
                          \/ SpuriousWakeup(t)
                          \/ Step(t)

Spec == Init /\ [][Next]_vars

-----------------------------------------------------------------------------
(* Correctness. *)

Pushing == {"push_lock", "push_test", "push_publish"}
Popping == {"pop_lock", "pop_test", "pop_advance"}

\* Every variable has its type; in particular count stays within 0..Capacity
\* and both indices within the array that buffer_init allocated.
TypeOK ==
    /\ data \in [Slots -> Items \cup {NoItem}]
    /\ head \in Slots
    /\ tail \in Slots
    /\ count \in 0 .. Capacity
    /\ shutdown \in BOOLEAN
    /\ lock \in Threads \cup {NoThread}
    /\ pc \in [Threads -> ControlPoints]
    /\ item \in [Threads -> Items \cup {NoItem}]
    /\ ret \in [Threads -> BOOLEAN]

\* Mutual exclusion.  A thread is between pthread_mutex_lock and
\* pthread_mutex_unlock exactly when it owns rb->lock, so at most one is, also
\* when the mutex is given up and taken back inside pthread_cond_wait and on
\* every early return.
MutualExclusion == \A t \in Threads : pc[t] \in Holding <=> lock = t

\* The three fields agree: the count slots from tail up to head hold records
\* that some buffer_push stored, so buffer_pop never copies out a slot that
\* was only malloc'ed.
RingConsistent ==
    /\ head = (tail + count) % Capacity
    /\ \A k \in 0 .. count - 1 : data[(tail + k) % Capacity] \in Items

\* No lost wakeup.  While a consumer sleeps on not_empty there is no more
\* unclaimed data than consumers awake inside buffer_pop, and while a producer
\* sleeps on not_full no more room than producers awake inside buffer_push:
\* one pthread_cond_signal per record, with the loop's re-test, is enough for
\* any number of threads, whichever of them gets the mutex first.
NoLostWakeup ==
    /\ At({"pop_wait"}) # {} => count <= Cardinality(At(Popping))
    /\ At({"push_wait"}) # {} => Capacity - count <= Cardinality(At(Pushing))

\* Once buffer_signal_shutdown has set the flag no thread sleeps in the buffer:
\* the broadcasts reach both condition variables and neither loop waits again.
ShutdownWakesAll == shutdown => At({"push_wait", "pop_wait"}) = {}

\* A call's phase as the abstract queue sees it.  buffer_push takes effect when
\* it advances head, buffer_pop when it has copied the record out.
PhaseOf(p) ==
    CASE p \in {"push_lock", "push_test", "push_wait", "push_publish"} -> "push"
      [] p \in {"pop_lock", "pop_test", "pop_wait"} -> "pop"
      [] p \in {"shutdown_lock", "shutdown_set"} -> "shutdown"
      [] p \in {"query_lock", "query_read"} -> "query"
      [] p \in {"pop_advance", "ret_true"} -> "true"
      [] p = "ret_false" -> "false"
      [] OTHER -> "idle"

\* The records between tail and head, without the one already copied out.
Taken == IF At({"pop_advance"}) = {} THEN 0 ELSE 1
Contents == [k \in 1 .. count - Taken |-> data[(tail + Taken + k - 1) % Capacity]]

Phases == [t \in Threads |-> PhaseOf(pc[t])]

Queue == INSTANCE BoundedQueue
           WITH queue <- Contents, closed <- shutdown, phase <- Phases

\* Every behaviour of buffer.c is one of the abstract queue: records leave in
\* the order in which they were pushed, none is lost, duplicated or torn, a
\* push succeeds only with room and before the shutdown, and a pop fails only
\* after the shutdown and once the buffer is drained.
ImplementsQueue == Queue!Spec

=============================================================================
