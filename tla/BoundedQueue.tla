---------------------------- MODULE BoundedQueue ----------------------------
(***************************************************************************)
(* What include/buffer.h promises its callers: a FIFO queue of at most     *)
(* Capacity records that can be closed.  A call has three visible steps:   *)
(* it is made, it takes effect in one indivisible step, and it returns.    *)
(* Nothing of the mutex, of the condition variables or of the circular     *)
(* array is visible here; RingBuffer is shown to implement this module.    *)
(***************************************************************************)
EXTENDS Integers, Sequences

CONSTANTS Producers, Consumers, Items, NoItem, Capacity

VARIABLES
    queue,      \* the records pushed and not yet popped, oldest first
    closed,     \* buffer_signal_shutdown has taken effect
    phase,      \* per thread: "idle", the pending call, or its pending result
    item,       \* per thread: the argument of push, the target of pop
    ret         \* per thread: what its last call returned

vars == <<queue, closed, phase, item, ret>>

Threads == Producers \cup Consumers

Init ==
    /\ queue = << >>
    /\ closed = FALSE
    /\ phase = [t \in Threads |-> "idle"]
    /\ item = [t \in Threads |-> NoItem]
    /\ ret = [t \in Threads |-> FALSE]

Become(t, p) == phase' = [phase EXCEPT ![t] = p]

Invoke(t, call) ==
    /\ phase[t] = "idle"
    /\ Become(t, call)
    /\ UNCHANGED <<queue, closed, item, ret>>

InvokePush(t, v) ==
    /\ phase[t] = "idle"
    /\ Become(t, "push")
    /\ item' = [item EXCEPT ![t] = v]
    /\ UNCHANGED <<queue, closed, ret>>

\* A push takes effect only while the queue is open and has room.
Put(t) ==
    /\ phase[t] = "push"
    /\ ~closed
    /\ Len(queue) < Capacity
    /\ queue' = Append(queue, item[t])
    /\ Become(t, "true")
    /\ UNCHANGED <<closed, item, ret>>

Refuse(t) ==
    /\ phase[t] = "push"
    /\ closed
    /\ Become(t, "false")
    /\ UNCHANGED <<queue, closed, item, ret>>

\* A pop hands out the oldest record, also after the queue was closed.
Get(t) ==
    /\ phase[t] = "pop"
    /\ queue # << >>
    /\ item' = [item EXCEPT ![t] = Head(queue)]
    /\ queue' = Tail(queue)
    /\ Become(t, "true")
    /\ UNCHANGED <<closed, ret>>

Drained(t) ==
    /\ phase[t] = "pop"
    /\ closed
    /\ queue = << >>
    /\ Become(t, "false")
    /\ UNCHANGED <<queue, closed, item, ret>>

Close(t) ==
    /\ phase[t] = "shutdown"
    /\ closed' = TRUE
    /\ Become(t, "true")
    /\ UNCHANGED <<queue, item, ret>>

Query(t) ==
    /\ phase[t] = "query"
    /\ Become(t, IF closed THEN "true" ELSE "false")
    /\ UNCHANGED <<queue, closed, item, ret>>

Return(t) ==
    /\ phase[t] \in {"true", "false"}
    /\ ret' = [ret EXCEPT ![t] = (phase[t] = "true")]
    /\ Become(t, "idle")
    /\ UNCHANGED <<queue, closed, item>>

Next ==
    \/ \E t \in Producers :
          \/ \E v \in Items : InvokePush(t, v)
          \/ Put(t)
          \/ Refuse(t)
    \/ \E t \in Consumers : Invoke(t, "pop") \/ Get(t) \/ Drained(t)
    \/ \E t \in Threads :
          \/ Invoke(t, "shutdown")
          \/ Invoke(t, "query")
          \/ Close(t)
          \/ Query(t)
          \/ Return(t)

Spec == Init /\ [][Next]_vars
=============================================================================
