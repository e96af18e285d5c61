-------------------------- MODULE BenchmarkBuffer --------------------------
(***************************************************************************)
(* tests/benchmark_buffer.cpp, the one client that runs the ring buffer    *)
(* from its allocation to its destruction: twice, a warm-up and a timed    *)
(* run, main creates a buffer and a thread that pushes N_RECORDS records,  *)
(* pops as many, joins the thread and destroys the buffer.                 *)
(*                                                                         *)
(* main's stage: init (about to call buffer_init), create, pop (in its     *)
(* loop), join, destroy, exited.                                           *)
(***************************************************************************)
EXTENDS RingBuffer

CONSTANTS
    Main,         \* the thread that pops
    Producer,     \* the thread that pushes
    Record,       \* the record SYN001
    N_RECORDS,    \* 1000000
    MaxSpurious   \* bound on the wakeups without a signal, in a run

ASSUME ClientAssumption == /\ Producers = {Producer}
                           /\ Consumers = {Main}
                           /\ Items = {Record}
                           /\ N_RECORDS \in Nat \ {0}
                           /\ MaxSpurious \in Nat

VARIABLES
    stage,
    run,        \* 1 for the warm-up, 2 for the timed run
    allocated,  \* g_buf points to a buffer
    running,    \* the producer thread exists
    pushes,     \* calls of buffer_push in this run
    pops,       \* calls of buffer_pop in this run
    spurious    \* wakeups without a signal in this run

client == <<stage, run, allocated, running, pushes, pops, spurious>>
benchVars == <<vars, client>>

BenchInit ==
    /\ Init
    /\ stage = "init"
    /\ run = 1
    /\ allocated = FALSE
    /\ running = FALSE
    /\ pushes = 0
    /\ pops = 0
    /\ spurious = 0

-----------------------------------------------------------------------------
\* Mutation: tail is left as the memory of the last buffer has it.
BufferInitKeepsTail ==
    /\ stage = "init"
    /\ data' = [k \in Slots |-> NoItem]
    /\ head' = 0
    /\ count' = 0
    /\ shutdown' = FALSE
    /\ lock' = NoThread
    /\ allocated' = TRUE
    /\ stage' = "create"
    /\ UNCHANGED <<tail, pc, item, ret, run, running, pushes, pops, spurious>>

\* buffer_init, with a new array, mutex and condition variables.
buffer_init ==
    /\ stage = "init"
    /\ data' = [k \in Slots |-> NoItem]
    /\ head' = 0
    /\ tail' = 0
    /\ count' = 0
    /\ shutdown' = FALSE
    /\ lock' = NoThread
    /\ allocated' = TRUE
    /\ stage' = "create"
    /\ UNCHANGED <<pc, item, ret, run, running, pushes, pops, spurious>>

\* One of its two allocations fails, nothing is kept, and main returns 1.
buffer_init_fails ==
    /\ stage = "init"
    /\ stage' = "exited"
    /\ UNCHANGED <<vars, run, allocated, running, pushes, pops, spurious>>

\* pthread_create.  Nobody looks at its result.
CreateProducer ==
    /\ stage = "create"
    /\ running' \in BOOLEAN
    /\ pushes' = 0
    /\ pops' = 0
    /\ spurious' = 0
    /\ stage' = "pop"
    /\ UNCHANGED <<vars, run, allocated>>

Push ==
    /\ running
    /\ pushes < N_RECORDS
    /\ buffer_push(Producer, Record)
    /\ pushes' = pushes + 1
    /\ UNCHANGED <<stage, run, allocated, running, pops, spurious>>

ProducerReturns ==
    /\ running
    /\ pushes = N_RECORDS
    /\ pc[Producer] = "idle"
    /\ running' = FALSE
    /\ UNCHANGED <<vars, stage, run, allocated, pushes, pops, spurious>>

Pop ==
    /\ stage = "pop"
    /\ pops < N_RECORDS
    /\ Call(Main, "pop_lock")
    /\ pops' = pops + 1
    /\ UNCHANGED <<stage, run, allocated, running, pushes, spurious>>

PopsDone ==
    /\ stage = "pop"
    /\ pops = N_RECORDS
    /\ pc[Main] = "idle"
    /\ stage' = "join"
    /\ UNCHANGED <<vars, run, allocated, running, pushes, pops, spurious>>

\* Mutation: the thread is not waited for.
JoinForgotten ==
    /\ stage = "join"
    /\ stage' = "destroy"
    /\ UNCHANGED <<vars, run, allocated, running, pushes, pops, spurious>>

\* pthread_join
Join ==
    /\ stage = "join"
    /\ ~running
    /\ stage' = "destroy"
    /\ UNCHANGED <<vars, run, allocated, running, pushes, pops, spurious>>

buffer_destroy ==
    /\ stage = "destroy"
    /\ allocated' = FALSE
    /\ IF run = 1 THEN run' = 2 /\ stage' = "init"
                  ELSE run' = 2 /\ stage' = "exited"
    /\ UNCHANGED <<vars, running, pushes, pops, spurious>>

-----------------------------------------------------------------------------
Inside(t) == Step(t) /\ UNCHANGED client

MainStep == buffer_init \/ buffer_init_fails \/ CreateProducer \/ Pop
              \/ PopsDone \/ Join \/ buffer_destroy \/ Inside(Main)

ProducerStep == Push \/ ProducerReturns \/ Inside(Producer)

Spurious ==
    /\ spurious < MaxSpurious
    /\ \E t \in Threads : SpuriousWakeup(t)
    /\ spurious' = spurious + 1
    /\ UNCHANGED <<stage, run, allocated, running, pushes, pops>>

BenchNext == MainStep \/ ProducerStep \/ Spurious

\* The scheduler runs both threads.
BenchSpec == /\ BenchInit /\ [][BenchNext]_benchVars
             /\ WF_benchVars(MainStep) /\ WF_benchVars(ProducerStep)

-----------------------------------------------------------------------------
(* Correctness. *)

\* The state of the client, with that of the buffer.
BenchTypeOK ==
    /\ TypeOK
    /\ stage \in {"init", "create", "pop", "join", "destroy", "exited"}
    /\ run \in 1 .. 2
    /\ allocated \in BOOLEAN
    /\ running \in BOOLEAN
    /\ pushes \in 0 .. N_RECORDS
    /\ pops \in 0 .. N_RECORDS
    /\ spurious \in 0 .. MaxSpurious

\* buffer_destroy is called on a free mutex and on condition variables nobody
\* waits for, when every record has been taken out; no thread is inside a
\* function of the buffer while there is none, before, between and after the
\* two runs.
DestroyIsSafe ==
    /\ stage = "destroy" => lock = NoThread /\ count = 0 /\ At({"idle"}) = Threads
    /\ ~allocated => At({"idle"}) = Threads /\ ~running

\* The benchmark comes to its end, a full and an empty buffer notwithstanding:
\* main is not left asleep by a record or a signal that got lost, be the producer
\* still at work or done.  The one excuse is a run whose producer was never
\* created, so that nothing was pushed: then main stays in its loop for ever.
BenchmarkEnds == <>(stage = "exited" \/ [](stage = "pop" /\ ~running /\ pushes = 0))

=============================================================================
