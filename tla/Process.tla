------------------------------- MODULE Process -------------------------------
(***************************************************************************)
(* The process of src/main.cpp on the ring buffer of src/ingestion         *)
(* itself: the ingestion thread and main call the functions of RingBuffer  *)
(* and run through them step by step, with the mutex, the condition        *)
(* variables and wakeups that no signal caused.  Between their calls they  *)
(* take the steps of Engine, which this module is shown to implement.      *)
(***************************************************************************)
EXTENDS RingBuffer, Sequences

CONSTANTS
    Main, Ingester,   \* the two threads
    Replies, Garbage, MaxLeaks,               \* as in Ingestion
    Unknown, IdSize, StopSize, UIntModulus,   \* as in VehicleRecords
    CellOf, BucketCount, WindowSize, StampModulus, MaxRecords,   \* as in Engine
    MaxSpurious   \* bound on the wakeups without a signal

VARIABLES
    at,         \* the control point of ingestion_thread, as in Ingestion
    reply, payload, size, leaked, msg, i, pushed,
    main,       \* main's control point, as in Engine
    thread, total_processed, owner, recent, phase, arg,
    updated,    \* what update returned
    accepted, handled,
    spurious    \* history: wakeups without a signal so far

heap == <<payload, size, leaked>>
ingester == <<at, reply, heap, msg, i, pushed>>
arena == <<owner, recent, phase, arg, updated>>
consumer == <<main, total_processed, arena, handled>>
client == <<ingester, consumer, thread, accepted>>
processVars == <<vars, client, spurious>>

\* The steps of the two threads outside the functions of the buffer.
Own == INSTANCE Engine
         WITH pc <- at, ret <- updated, queue <- Contents,
              popped_bus <- item[Main], NoRecord <- NoItem

ASSUME ProcessAssumption ==
    /\ Producers = {Ingester}
    /\ Consumers = {Main}
    /\ MaxSpurious \in Nat
    /\ \A r \in Replies :
         /\ r.chunks \in Nat
         /\ r.feed # Garbage =>
              /\ r.feed \in Seq({r.feed[k] : k \in DOMAIN r.feed})
              /\ \A k \in {k \in DOMAIN r.feed : Own!HasPosition(r.feed[k])} :
                   Own!Flatten(r.feed[k]) \in Items

\* What Engine and Ingestion ask of the constants, asked here as well.
ASSUME EngineAssumptions ==
    /\ Own!RepliesAssumption
    /\ Own!LeaksAssumption
    /\ Own!WidthsAssumption
    /\ Own!CellsAssumption
    /\ Own!ArenaAssumption
    /\ Own!ReadingsAssumption
    /\ Own!MaxRecordsAssumption

ProcessInit ==
    /\ Init
    /\ Own!EngineInit
    /\ spurious = 0

-----------------------------------------------------------------------------
(* The ingestion thread. *)

\* ingestion_thread calls buffer_is_shutdown at the head of its loop.
CallQuery ==
    /\ thread
    /\ at = "check"
    /\ Call(Ingester, "query_lock")
    /\ UNCHANGED <<client, spurious>>

QueryReturns ==
    /\ at = "check"
    /\ UnlockAndReturn(Ingester)
    /\ at' = IF ret'[Ingester] THEN "done" ELSE "fetch"
    /\ UNCHANGED <<reply, heap, msg, i, pushed, consumer, thread, accepted, spurious>>

\* parse_and_queue calls buffer_push.
CallPush ==
    /\ thread
    /\ Own!AtEntity
    /\ Own!HasPosition(Own!Entity)
    /\ buffer_push(Ingester, Own!Flatten(Own!Entity))
    /\ UNCHANGED <<client, spurious>>

\* The buffer has accepted the record once its indices have moved.
PushAccepts ==
    /\ PushPublish(Ingester)
    /\ pushed' = Append(pushed, item[Ingester])
    /\ accepted' = Append(accepted, item[Ingester])
    /\ UNCHANGED <<at, reply, heap, msg, i, consumer, thread, spurious>>

\* Mutation: parse_and_queue takes true for a failure and tries again.
PushReturnsRetries ==
    /\ at = "entities"
    /\ UnlockAndReturn(Ingester)
    /\ at' = at
    /\ i' = IF ret'[Ingester] THEN i ELSE i + 1
    /\ UNCHANGED <<reply, heap, msg, pushed, consumer, thread, accepted, spurious>>

\* The walk goes on, or ends if the push was refused.
PushReturns ==
    /\ at = "entities"
    /\ UnlockAndReturn(Ingester)
    /\ at' = IF ret'[Ingester] THEN at ELSE "release"
    /\ i' = IF ret'[Ingester] THEN i + 1 ELSE i
    /\ UNCHANGED <<reply, heap, msg, pushed, consumer, thread, accepted, spurious>>

\* The other steps inside the buffer are nothing to the thread outside.
Inside(t) ==
    /\ Step(t)
    /\ pc[t] \notin {"push_publish", "ret_true", "ret_false"}
    /\ UNCHANGED <<client, spurious>>

\* What the thread does outside the buffer, but for waiting on the network.
OutsideStep ==
    \/ Own!CurlInitFails
    \/ \E r \in Replies : Own!StartDownload(r)
    \/ at = "aborted" /\ Own!DownloadFails
    \/ Own!UnpackFails \/ Own!Unpack
    \/ Own!SkipEntity \/ Own!EntitiesDone
    \/ Own!FreeUnpacked
    \/ Own!FreePayload
    \/ Own!Wake

Outside(step) ==
    /\ UNCHANGED <<vars, spurious>>
    /\ Own!InThread(step)

IngesterStep ==
    \/ CallQuery \/ QueryReturns
    \/ CallPush \/ PushAccepts \/ PushReturns
    \/ Inside(Ingester)
    \/ Outside(OutsideStep)

-----------------------------------------------------------------------------
(* main *)

CallPop ==
    /\ main = "pop"
    /\ Call(Main, "pop_lock")
    /\ UNCHANGED <<client, spurious>>

\* Mutation: got_data is read the wrong way round.
PopReturnsInverted ==
    /\ main = "pop"
    /\ UnlockAndReturn(Main)
    /\ main' = IF ret'[Main] THEN "pop" ELSE "filter"
    /\ UNCHANGED <<ingester, total_processed, arena, handled, thread, accepted, spurious>>

\* buffer_pop returns; got_data decides whether there is a record to look at.
PopReturns ==
    /\ main = "pop"
    /\ UnlockAndReturn(Main)
    /\ main' = IF ret'[Main] THEN "filter" ELSE "pop"
    /\ UNCHANGED <<ingester, total_processed, arena, handled, thread, accepted, spurious>>

MainOutside ==
    /\ UNCHANGED <<vars, spurious>>
    /\ \/ Own!BufferInitFails \/ Own!BufferInit \/ Own!CreateThread
       \/ Own!PassOver \/ Own!CallUpdate \/ Own!UpdateRecords \/ Own!UpdateReturns

MainStep == CallPop \/ Inside(Main) \/ PopReturns \/ MainOutside

-----------------------------------------------------------------------------
Spurious ==
    /\ spurious < MaxSpurious
    /\ \E t \in Threads : SpuriousWakeup(t)
    /\ spurious' = spurious + 1
    /\ UNCHANGED client

ProcessNext == MainStep \/ IngesterStep \/ Outside(Own!NetworkStep) \/ Spurious

ProcessSpec == ProcessInit /\ [][ProcessNext]_processVars

\* The scheduler runs both threads; the network owes nothing.  The thread lets go
\* of the mutex for the 15 seconds of its sleep, so main gets it in the end.
FairProcessSpec ==
    /\ ProcessSpec
    /\ WF_processVars(MainStep)
    /\ WF_processVars(IngesterStep)
    /\ SF_processVars(pthread_mutex_lock(Main) /\ Inside(Main))

-----------------------------------------------------------------------------
(* Correctness. *)

\* The process as Engine sees it: a push is over when the record is in the queue,
\* and a pop when main's popped_bus has it.
Passed == IF at = "entities" /\ pc[Ingester] = "ret_true" THEN i + 1 ELSE i
Stage == IF main = "pop" /\ pc[Main] \in {"pop_advance", "ret_true"} THEN "filter" ELSE main

System == INSTANCE Engine
            WITH pc <- at, ret <- updated, queue <- Contents, i <- Passed, main <- Stage,
                 popped_bus <- item[Main], NoRecord <- NoItem

\* The composition: two threads that share buffer.c behave as the process in which
\* a push and a pop are one step each, and what is true of that one is true here.
ImplementsEngine == System!EngineSpec

\* The threads never wait for each other: main does not sleep on an empty buffer
\* while the ingestion thread sleeps on a full one, whoever took the last signal.
NotBothAsleep == ~(pc[Main] = "pop_wait" /\ pc[Ingester] = "push_wait")

\* Every record that went into the buffer is dealt with by main in the end, also
\* when main slept at the time.
RecordsReachMain == System!EveryRecordHandled

=============================================================================
