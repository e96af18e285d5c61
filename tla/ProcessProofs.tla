---------------------------- MODULE ProcessProofs ----------------------------
(***************************************************************************)
(* The two threads of main.cpp on the steps of buffer.c implement Engine,  *)
(* where a push and a pop are one step, and never wait for each other; for *)
(* every capacity and all replies.  The invariant of the buffer is joined  *)
(* with what ties a thread's place inside the buffer to its place outside. *)
(* So the theorems about Engine are theorems about these threads.          *)
(***************************************************************************)
EXTENDS Process, RingBufferProofs

InQuery == {"query_lock", "query_read", "ret_false"}

\* The call a thread is in is the one its place outside the buffer asks for, and
\* nobody shuts the buffer down.
Places ==
    /\ shutdown = FALSE
    /\ pc[Main] \in PopPoints \cup {"idle", "ret_true"}
    /\ pc[Ingester] \in PushPoints \cup InQuery \cup {"idle", "ret_true"}
    /\ main # "pop" => pc[Main] = "idle"
    /\ main \in {"init", "create"} => ~thread
    /\ ~thread => pc[Ingester] = "idle"
    /\ pc[Ingester] \in InQuery => at = "check"
    /\ pc[Ingester] \in PushPoints \cup {"ret_true"} =>
         /\ at = "entities" /\ i <= Len(reply.feed)
         /\ Own!HasPosition(reply.feed[i])
    /\ pc[Ingester] \in PushPoints => item[Ingester] = Own!Flatten(reply.feed[i])

\* The walk is over a feed that decoded.
Feed ==
    /\ at \in {"download", "unpack", "entities"} => reply \in Replies
    /\ at = "entities" => reply.feed # Garbage /\ i \in Nat \ {0}
    /\ pushed \in Seq(Items)

PInv == IInv /\ NoLostWakeup /\ Places /\ Feed

-----------------------------------------------------------------------------
\* The threads of the process.
LEMMA Pair ==
  /\ Threads = {Ingester, Main} /\ Ingester # Main
  /\ Ingester \in Threads /\ Main \in Threads
  /\ Producers = {Ingester} /\ Consumers = {Main}
BY ProcessAssumption, ThreadsAssumption DEF Threads

\* What the ingestion thread does inside the buffer, apart from the step by which
\* a record gets in and from returning, shows nowhere else.
LEMMA IngesterInside ==
  ASSUME IInv, IInv', Places, Inside(Ingester)
  PROVE  /\ Contents' = Contents /\ UNCHANGED <<shutdown, item>>
         /\ pc' = [pc EXCEPT ![Ingester] = pc'[Ingester]]
         /\ \/ pc[Ingester] \in PushPoints /\ pc'[Ingester] \in PushPoints
            \/ pc[Ingester] \in InQuery /\ pc'[Ingester] \in InQuery
<1> USE Pair DEF Inside, Goto
<1>0. pc \in [Threads -> ControlPoints] /\ Step(Ingester)
  BY DEF IInv, TypeOK
<1>1. CASE pthread_mutex_lock(Ingester)
  <2>1. /\ pc' = [pc EXCEPT ![Ingester] = pc'[Ingester]]
        /\ \/ pc[Ingester] = "push_lock" /\ pc'[Ingester] = "push_test"
           \/ pc[Ingester] = "query_lock" /\ pc'[Ingester] = "query_read"
    BY <1>0, <1>1 DEF pthread_mutex_lock, AfterLock, Places, PushPoints, InQuery
  <2>2. Contents' = Contents
    BY <1>0, <1>1, <2>1, ContentsKept DEF pthread_mutex_lock
  <2> QED
    BY <1>1, <2>1, <2>2 DEF pthread_mutex_lock, PushPoints, InQuery
<1>2. CASE PushWait(Ingester)
  <2>1. Contents' = Contents
    BY <1>0, <1>2, ContentsKept DEF PushWait
  <2> QED
    BY <1>0, <1>2, <2>1 DEF PushWait, PushPoints
<1>3. CASE PushStore(Ingester)
  <2>1. Contents' = Contents
    BY <1>3, StoreStep
  <2> QED
    BY <1>0, <1>3, <2>1 DEF PushStore, PushPoints
<1>4. CASE QueryRead(Ingester)
  <2>1. Contents' = Contents
    BY <1>0, <1>4, ContentsKept DEF QueryRead, Places
  <2> QED
    BY <1>0, <1>4, <2>1 DEF QueryRead, InQuery, Places
<1>5. \/ pthread_mutex_lock(Ingester) \/ PushWait(Ingester) \/ PushStore(Ingester)
      \/ QueryRead(Ingester)
  BY <1>0 DEF Step, PushStep, PopStep, PushRefused, PushPublish, PopWait, PopDrained, PopLoad,
              PopAdvance, ShutdownSet, UnlockAndReturn, Places, PushPoints, InQuery
<1> QED
  BY <1>1, <1>2, <1>3, <1>4, <1>5

\* The step by which a record gets in; it may wake main.
LEMMA IngesterPublishes ==
  ASSUME IInv, IInv', Places, PushPublish(Ingester)
  PROVE  /\ Contents' = Append(Contents, item[Ingester])
         /\ Len(Contents) < Capacity
         /\ UNCHANGED <<shutdown, item>>
         /\ pc[Ingester] = "push_publish" /\ pc'[Ingester] = "ret_true"
         /\ \/ pc'[Main] = pc[Main]
            \/ pc[Main] = "pop_wait" /\ pc'[Main] = "pop_lock"
<1> USE Pair
<1>1. pc[Ingester] = "push_publish" /\ UNCHANGED <<shutdown, item>>
  BY DEF PushPublish
<1>2. Signalled(Ingester, "pop_wait", "pop_lock")
  BY SignalEffect DEF PushPublish, ControlPoints, AfterLock, IInv, TypeOK
<1>3. Contents' = Append(Contents, item[Ingester])
  BY PutStep
<1>4. Len(Contents) < Capacity
  <2>1. Taken = 0 /\ count < Capacity /\ count \in Nat
    BY <1>1, TakenValue, CapacityAssumption DEF TakenFacts, Holding, IInv, LocalInv, TypeOK
  <2>2. Len(Contents) = count - 0
    BY <2>1, ContentsIsSeq DEF ContentsFacts
  <2> QED
    BY <2>1, <2>2
<1> QED
  BY <1>1, <1>2, <1>3, <1>4 DEF Signalled

\* Main inside the buffer: it copies the oldest record out, or does nothing that
\* shows, apart from waking the ingestion thread.
LEMMA MainInside ==
  ASSUME IInv, IInv', Places, Inside(Main)
  PROVE  /\ shutdown' = shutdown /\ item'[Ingester] = item[Ingester]
         /\ pc[Main] \in PopPoints /\ pc'[Main] \in PopPoints \cup {"ret_true"}
         /\ \/ pc'[Ingester] = pc[Ingester]
            \/ pc[Ingester] = "push_wait" /\ pc'[Ingester] = "push_lock"
         /\ \/ /\ pc[Main] = "pop_test" /\ pc'[Main] = "pop_advance"
               /\ Contents # << >> /\ Contents' = Tail(Contents)
               /\ item'[Main] = Head(Contents)
            \/ /\ Contents' = Contents /\ item' = item
               /\ pc'[Main] \in {"pop_advance", "ret_true"}
                    <=> pc[Main] \in {"pop_advance", "ret_true"}
<1> USE Pair DEF Inside, Goto
<1>0. pc \in [Threads -> ControlPoints] /\ item \in [Threads -> Items \cup {NoItem}] /\ Step(Main)
  BY DEF IInv, TypeOK
<1>1. CASE pthread_mutex_lock(Main)
  <2>0. pc[Main] = "pop_lock"
    BY <1>1 DEF pthread_mutex_lock, AfterLock, Places, PopPoints
  <2>1. pc[Main] = "pop_lock" /\ pc' = [pc EXCEPT ![Main] = "pop_test"]
    BY <1>1, <2>0 DEF pthread_mutex_lock, AfterLock
  <2>2. Contents' = Contents
    BY <1>0, <1>1, <2>1, ContentsKept DEF pthread_mutex_lock
  <2> QED
    BY <1>0, <1>1, <2>1, <2>2 DEF pthread_mutex_lock, PopPoints
<1>2. CASE PopWait(Main)
  <2>1. Contents' = Contents
    BY <1>0, <1>2, ContentsKept DEF PopWait
  <2> QED
    BY <1>0, <1>2, <2>1 DEF PopWait, PopPoints
<1>3. CASE PopLoad(Main)
  <2>1. Contents # << >> /\ Contents' = Tail(Contents) /\ data[tail] = Head(Contents)
    BY <1>3, GetStep
  <2> QED
    BY <1>0, <1>3, <2>1 DEF PopLoad, PopPoints
<1>4. CASE PopAdvance(Main)
  <2>1. Contents' = Contents
    BY <1>4, AdvanceStep
  <2>2. Signalled(Main, "push_wait", "push_lock")
    BY <1>0, <1>4, SignalEffect DEF PopAdvance, ControlPoints, AfterLock
  <2> QED
    BY <1>0, <1>4, <2>1, <2>2 DEF PopAdvance, Signalled, PopPoints
<1>5. pthread_mutex_lock(Main) \/ PopWait(Main) \/ PopLoad(Main) \/ PopAdvance(Main)
  BY <1>0 DEF Step, PushStep, PopStep, PushWait, PushRefused, PushStore, PushPublish,
              PopDrained, ShutdownSet, QueryRead, UnlockAndReturn, Places, PopPoints
<1> QED
  BY <1>1, <1>2, <1>3, <1>4, <1>5

\* Returning from the buffer, and calling it.
LEMMA Returning ==
  ASSUME IInv, NEW t \in Threads, UnlockAndReturn(t)
  PROVE  /\ Contents' = Contents /\ UNCHANGED <<shutdown, item>>
         /\ pc[t] \in {"ret_true", "ret_false"}
         /\ pc' = [pc EXCEPT ![t] = "idle"]
         /\ ret'[t] = (pc[t] = "ret_true")
<1>1. pc \in [Threads -> ControlPoints] /\ ret \in [Threads -> BOOLEAN]
  BY DEF IInv, TypeOK
<1>2. Contents' = Contents
  BY <1>1, ContentsKept DEF UnlockAndReturn, Goto
<1> QED
  BY <1>1, <1>2 DEF UnlockAndReturn, Goto

LEMMA Calling ==
  ASSUME IInv, NEW t \in Threads, NEW l \in DOMAIN AfterLock, Call(t, l)
  PROVE  /\ Contents' = Contents /\ UNCHANGED <<shutdown, item>>
         /\ pc[t] = "idle" /\ pc' = [pc EXCEPT ![t] = l]
<1>1. pc \in [Threads -> ControlPoints]
  BY DEF IInv, TypeOK
<1>2. Contents' = Contents
  BY <1>1, ContentsKept DEF Call, Goto, AfterLock
<1> QED
  BY <1>1, <1>2 DEF Call, Goto

LEMMA CallingPush ==
  ASSUME IInv, NEW v, buffer_push(Ingester, v)
  PROVE  /\ Contents' = Contents /\ UNCHANGED shutdown
         /\ item' = [item EXCEPT ![Ingester] = v]
         /\ pc[Ingester] = "idle" /\ pc' = [pc EXCEPT ![Ingester] = "push_lock"]
<1>1. pc \in [Threads -> ControlPoints]
  BY DEF IInv, TypeOK
<1>2. Contents' = Contents
  BY <1>1, Pair, ContentsKept DEF buffer_push, Goto
<1> QED
  BY <1>1, <1>2 DEF buffer_push, Goto

LEMMA Waking ==
  ASSUME IInv, Spurious
  PROVE  /\ Contents' = Contents /\ UNCHANGED <<shutdown, item>>
         /\ \A t \in Threads : \/ pc'[t] = pc[t]
                               \/ pc[t] = "push_wait" /\ pc'[t] = "push_lock"
                               \/ pc[t] = "pop_wait" /\ pc'[t] = "pop_lock"
<1>1. pc \in [Threads -> ControlPoints]
  BY DEF IInv, TypeOK
<1>2. Contents' = Contents
  BY <1>1, ContentsKept DEF Spurious, SpuriousWakeup, Goto
<1> QED
  BY <1>1, <1>2 DEF Spurious, SpuriousWakeup, Goto

-----------------------------------------------------------------------------
(* The invariant. *)

\* Seen from the buffer alone, every step is one that its functions take.
LEMMA StepIsRingStep ==
  ASSUME PInv, [ProcessNext]_processVars
  PROVE  [Next]_vars
<1> USE Pair
<1>1. CASE CallQuery
  BY <1>1 DEF CallQuery, Next
<1>2. CASE QueryReturns \/ PushReturns
  BY <1>2 DEF QueryReturns, PushReturns, Step, Next
<1>3. CASE CallPush
  <2>1. /\ reply \in Replies /\ reply.feed # Garbage
        /\ i \in Nat \ {0} /\ i <= Len(reply.feed)
        /\ Own!HasPosition(reply.feed[i])
        /\ buffer_push(Ingester, Own!Flatten(reply.feed[i]))
    BY <1>3 DEF CallPush, Own!AtEntity, Own!Entity, PInv, Feed
  <2>2. i \in DOMAIN reply.feed
    BY <2>1, ProcessAssumption
  <2>3. Own!Flatten(reply.feed[i]) \in Items
    BY <2>1, <2>2, ProcessAssumption
  <2> QED
    BY <2>1, <2>3 DEF Next
<1>4. CASE PushAccepts
  BY <1>4 DEF PushAccepts, Step, PushStep, Next
<1>5. CASE Inside(Ingester) \/ Inside(Main)
  BY <1>5 DEF Inside, Next
<1>6. CASE CallPop
  BY <1>6 DEF CallPop, Next
<1>7. CASE PopReturns
  BY <1>7 DEF PopReturns, Step, Next
<1>8. CASE Outside(OutsideStep) \/ Outside(Own!NetworkStep) \/ MainOutside
             \/ UNCHANGED processVars
  BY <1>8 DEF Outside, MainOutside, processVars
<1>9. CASE Spurious
  BY <1>9 DEF Spurious, Next
<1> QED
  BY <1>1, <1>2, <1>3, <1>4, <1>5, <1>6, <1>7, <1>8, <1>9
     DEF ProcessNext, MainStep, IngesterStep

LEMMA InitPInv == ProcessInit => PInv
<1> SUFFICES ASSUME ProcessInit PROVE PInv
  OBVIOUS
<1> USE Pair
<1>1. IInv /\ NoLostWakeup
  BY InitIInv, InitNoLostWakeup DEF ProcessInit
<1>2. Places
  BY DEF ProcessInit, Init, Own!EngineInit, Places, PushPoints, PopPoints, InQuery
<1>3. Feed
  BY DEF ProcessInit, Own!EngineInit, Own!Init, Feed
<1> QED
  BY <1>1, <1>2, <1>3 DEF PInv

\* Outside the buffer the walk stays on a feed that decoded.
LEMMA OutsideFeed ==
  ASSUME PInv, Outside(OutsideStep) \/ Outside(Own!NetworkStep)
  PROVE  /\ Feed'
         /\ pc[Ingester] = "idle"
         /\ UNCHANGED <<vars, consumer, thread, spurious>>
<1> USE DEF heap
<1>0. /\ UNCHANGED <<vars, consumer, thread, spurious>>
      /\ OutsideStep \/ Own!NetworkStep
  BY DEF Outside, Own!InThread, Own!consumer, consumer, arena, Own!arena
<1>1. Feed /\ Places /\ pc \in [Threads -> ControlPoints]
  BY DEF PInv, IInv, TypeOK
<1> DEFINE Quiet == Own!CurlInitFails \/ (at = "aborted" /\ Own!DownloadFails) \/ Own!UnpackFails
                      \/ Own!EntitiesDone \/ Own!FreeUnpacked \/ Own!FreePayload
           Download == \/ \E r \in Replies : Own!StartDownload(r)
                       \/ Own!WriteMemoryCallback \/ Own!WriteMemoryCallbackFails
                       \/ at = "download" /\ Own!DownloadFails
                       \/ Own!DownloadDone
<1>2. Quiet \/ Download \/ Own!Unpack \/ Own!SkipEntity \/ Own!Wake
  BY <1>0 DEF OutsideStep, Own!NetworkStep
<1>3. at = "entities" => i > Len(reply.feed) \/ ~Own!HasPosition(reply.feed[i])
  BY <1>2 DEF Own!CurlInitFails, Own!DownloadFails, Own!UnpackFails, Own!EntitiesDone,
              Own!FreeUnpacked, Own!FreePayload, Own!StartDownload, Own!WriteMemoryCallback,
              Own!WriteMemoryCallbackFails, Own!DownloadDone, Own!Unpack, Own!SkipEntity,
              Own!AtEntity, Own!Entity, Own!Wake
<1>4. at # "check"
  BY <1>2 DEF Own!CurlInitFails, Own!DownloadFails, Own!UnpackFails, Own!EntitiesDone,
              Own!FreeUnpacked, Own!FreePayload, Own!StartDownload, Own!WriteMemoryCallback,
              Own!WriteMemoryCallbackFails, Own!DownloadDone, Own!Unpack, Own!SkipEntity,
              Own!AtEntity, Own!Wake
<1>5. pc[Ingester] = "idle"
  <2>1. at = "entities" => Len(reply.feed) \in Nat /\ i \in Nat
    BY <1>1, ProcessAssumption DEF Feed
  <2>2. ~(at = "entities" /\ i <= Len(reply.feed) /\ Own!HasPosition(reply.feed[i]))
    BY <1>3, <2>1
  <2> QED
    BY <1>1, <1>4, <2>2 DEF Places
<1>6. Feed'
  <2>1. CASE Quiet
    <3>1. UNCHANGED <<reply, i, pushed>> /\ at' \notin {"download", "unpack", "entities"}
      BY <2>1 DEF Own!CurlInitFails, Own!DownloadFails, Own!UnpackFails, Own!EntitiesDone,
                  Own!FreeUnpacked, Own!FreePayload, Own!heap, Own!parser
    <3> QED
      BY <1>1, <3>1 DEF Feed
  <2>2. CASE Download
    <3>1. /\ reply' \in Replies
          /\ UNCHANGED <<i, pushed>> /\ at' # "entities"
      BY <1>1, <2>2
         DEF Own!StartDownload, Own!WriteMemoryCallback, Own!WriteMemoryCallbackFails,
             Own!DownloadFails, Own!DownloadDone, Own!heap, Own!parser, Feed
    <3> QED
      BY <1>1, <3>1 DEF Feed
  <2>3. CASE Own!Unpack
    BY <1>1, <2>3 DEF Own!Unpack, Feed
  <2>4. CASE Own!SkipEntity
    BY <1>1, <2>4 DEF Own!SkipEntity, Own!AtEntity, Feed
  <2>5. CASE Own!Wake
    BY <1>1, <2>5 DEF Own!Wake, Feed
  <2> QED
    BY <1>2, <2>1, <2>2, <2>3, <2>4, <2>5
<1> QED
  BY <1>0, <1>5, <1>6

\* Every step of the process preserves its invariant.
LEMMA StepPInv == PInv /\ [ProcessNext]_processVars => PInv'
<1> SUFFICES ASSUME PInv, [ProcessNext]_processVars PROVE PInv'
  OBVIOUS
<1> USE Pair DEF client, ingester, consumer, heap
<1>0. /\ IInv /\ Places /\ Feed
      /\ pc \in [Threads -> ControlPoints] /\ item \in [Threads -> Items \cup {NoItem}]
  BY DEF PInv, IInv, TypeOK
<1>1. IInv' /\ NoLostWakeup'
  <2>1. [Next]_vars
    BY StepIsRingStep
  <2>2. IInv'
    BY <1>0, <2>1, StepIInv
  <2> QED
    BY <1>0, <2>1, <2>2, StepNoLostWakeup DEF PInv
<1>2. CASE CallQuery
  <2>1. UNCHANGED <<shutdown, item>> /\ pc' = [pc EXCEPT ![Ingester] = "query_lock"]
    BY <1>0, <1>2, Calling DEF CallQuery, AfterLock
  <2>2. Places'
    BY <1>0, <1>2, <2>1 DEF CallQuery, Places, PushPoints, PopPoints, InQuery
  <2> QED
    BY <1>0, <1>1, <1>2, <2>2 DEF CallQuery, PInv, Feed
<1>3. CASE QueryReturns
  <2>1. /\ UNCHANGED <<shutdown, item>> /\ pc' = [pc EXCEPT ![Ingester] = "idle"]
        /\ at' \in {"done", "fetch"}
    BY <1>0, <1>3, Returning DEF QueryReturns
  <2>2. Places'
    BY <1>0, <1>3, <2>1 DEF QueryReturns, Places, PushPoints, PopPoints, InQuery
  <2> QED
    BY <1>0, <1>1, <1>3, <2>1, <2>2 DEF QueryReturns, PInv, Feed
<1>4. CASE CallPush
  <2>1. /\ UNCHANGED shutdown /\ pc' = [pc EXCEPT ![Ingester] = "push_lock"]
        /\ item'[Ingester] = Own!Flatten(reply.feed[i])
        /\ at = "entities" /\ i <= Len(reply.feed) /\ Own!HasPosition(reply.feed[i])
    BY <1>0, <1>4, CallingPush DEF CallPush, Own!AtEntity, Own!Entity
  <2>2. Places'
    BY <1>0, <1>4, <2>1 DEF CallPush, Places, PushPoints, PopPoints, InQuery
  <2> QED
    BY <1>0, <1>1, <1>4, <2>2 DEF CallPush, PInv, Feed
<1>5. CASE PushAccepts
  <2>1. /\ UNCHANGED <<shutdown, item>>
        /\ pc[Ingester] = "push_publish" /\ pc'[Ingester] = "ret_true"
        /\ \/ pc'[Main] = pc[Main]
           \/ pc[Main] = "pop_wait" /\ pc'[Main] = "pop_lock"
    BY <1>0, <1>1, <1>5, IngesterPublishes DEF PushAccepts
  <2>2. Places'
    <3>1. UNCHANGED <<at, reply, i, main, thread>>
      BY <1>5 DEF PushAccepts
    <3> QED
      BY <1>0, <2>1, <3>1 DEF Places, PushPoints, PopPoints, InQuery
  <2>3. item[Ingester] \in Items
    BY <1>0, <2>1 DEF IInv, LocalInv, PushPoints
  <2>4. Feed'
    BY <1>0, <1>5, <2>3 DEF PushAccepts, Feed
  <2> QED
    BY <1>1, <2>2, <2>4 DEF PInv
<1>6. CASE PushReturns
  <2>1. /\ UNCHANGED <<shutdown, item>> /\ pc' = [pc EXCEPT ![Ingester] = "idle"]
        /\ pc[Ingester] \in {"ret_true", "ret_false"}
        /\ ret'[Ingester] = (pc[Ingester] = "ret_true")
    BY <1>0, <1>6, Returning DEF PushReturns
  <2>2. pc[Ingester] = "ret_true"
    BY <1>0, <1>6, <2>1 DEF PushReturns, Places, InQuery
  <2>3. at' = at /\ i' = i + 1
    BY <1>6, <2>1, <2>2 DEF PushReturns
  <2>4. Places'
    BY <1>0, <1>6, <2>1, <2>3 DEF PushReturns, Places, PushPoints, PopPoints, InQuery
  <2>5. Feed'
    BY <1>0, <1>6, <2>3 DEF PushReturns, Feed
  <2> QED
    BY <1>1, <2>4, <2>5 DEF PInv
<1>7. CASE Inside(Ingester)
  <2>1. /\ UNCHANGED <<shutdown, item>>
        /\ pc' = [pc EXCEPT ![Ingester] = pc'[Ingester]]
        /\ \/ pc[Ingester] \in PushPoints /\ pc'[Ingester] \in PushPoints
           \/ pc[Ingester] \in InQuery /\ pc'[Ingester] \in InQuery
    BY <1>0, <1>1, <1>7, IngesterInside
  <2>2. Places'
    BY <1>0, <1>7, <2>1 DEF Inside, Places, PushPoints, PopPoints, InQuery
  <2> QED
    BY <1>0, <1>1, <1>7, <2>2 DEF Inside, PInv, Feed
<1>8. CASE Inside(Main)
  <2>1. /\ shutdown' = shutdown /\ item'[Ingester] = item[Ingester]
        /\ pc[Main] \in PopPoints /\ pc'[Main] \in PopPoints \cup {"ret_true"}
        /\ \/ pc'[Ingester] = pc[Ingester]
           \/ pc[Ingester] = "push_wait" /\ pc'[Ingester] = "push_lock"
    BY <1>0, <1>1, <1>8, MainInside
  <2>2. Places'
    BY <1>0, <1>8, <2>1 DEF Inside, Places, PushPoints, PopPoints, InQuery
  <2> QED
    BY <1>0, <1>1, <1>8, <2>2 DEF Inside, PInv, Feed
<1>9. CASE CallPop
  <2>1. UNCHANGED <<shutdown, item>> /\ pc' = [pc EXCEPT ![Main] = "pop_lock"]
    BY <1>0, <1>9, Calling DEF CallPop, AfterLock
  <2>2. Places'
    BY <1>0, <1>9, <2>1 DEF CallPop, Places, PushPoints, PopPoints, InQuery
  <2> QED
    BY <1>0, <1>1, <1>9, <2>2 DEF CallPop, PInv, Feed
<1>10. CASE PopReturns
  <2>1. /\ UNCHANGED <<shutdown, item>> /\ pc' = [pc EXCEPT ![Main] = "idle"]
        /\ main' \in {"filter", "pop"}
    BY <1>0, <1>10, Returning DEF PopReturns
  <2>2. Places'
    BY <1>0, <1>10, <2>1 DEF PopReturns, Places, PushPoints, PopPoints, InQuery
  <2> QED
    BY <1>0, <1>1, <1>10, <2>2 DEF PopReturns, PInv, Feed
<1>11. CASE MainOutside
  <2>1. /\ UNCHANGED <<vars, at, reply, i, pushed>>
        /\ main = "create" \/ thread' = thread
        /\ main = "init" \/ main' \notin {"init", "create"}
        /\ main # "pop"
    BY <1>11 DEF MainOutside, Own!BufferInitFails, Own!BufferInit, Own!CreateThread,
                 Own!PassOver, Own!CallUpdate, Own!UpdateRecords, Own!UpdateReturns, Own!vars
  <2>2. Places'
    BY <1>0, <2>1 DEF vars, Places, PushPoints, PopPoints, InQuery
  <2> QED
    BY <1>0, <1>1, <2>1, <2>2 DEF PInv, Feed
<1>12. CASE Outside(OutsideStep) \/ Outside(Own!NetworkStep)
  <2>1. Feed' /\ pc[Ingester] = "idle" /\ UNCHANGED <<vars, consumer, thread, spurious>>
    BY <1>12, OutsideFeed
  <2>2. Places'
    BY <1>0, <2>1 DEF vars, Places, PushPoints, PopPoints, InQuery
  <2> QED
    BY <1>1, <2>1, <2>2 DEF PInv
<1>13. CASE Spurious
  <2>1. /\ UNCHANGED <<shutdown, item>>
        /\ \A t \in Threads : \/ pc'[t] = pc[t]
                              \/ pc[t] = "push_wait" /\ pc'[t] = "push_lock"
                              \/ pc[t] = "pop_wait" /\ pc'[t] = "pop_lock"
    BY <1>0, <1>13, Waking
  <2>2. Places'
    BY <1>0, <1>13, <2>1 DEF Spurious, Places, PushPoints, PopPoints, InQuery
  <2> QED
    BY <1>0, <1>1, <1>13, <2>2 DEF Spurious, PInv, Feed
<1>14. CASE UNCHANGED processVars
  <2>1. Places' /\ Feed'
    BY <1>0, <1>14 DEF processVars, vars, Places, PushPoints, PopPoints, InQuery, Feed
  <2> QED
    BY <1>1, <2>1 DEF PInv
<1> QED
  BY <1>2, <1>3, <1>4, <1>5, <1>6, <1>7, <1>8, <1>9, <1>10, <1>11, <1>12, <1>13, <1>14
     DEF ProcessNext, MainStep, IngesterStep

LEMMA ProcessInductive == ProcessSpec => []PInv
BY InitPInv, StepPInv, PTL DEF ProcessSpec

\* Seen from the buffer the process is two of its clients: the calls of main and of
\* ingestion_thread are calls as RingBuffer has them, and nothing else in the
\* process touches the buffer, so that all that is proved of buffer.c holds in it.
THEOREM ProcessRunsBuffer == ProcessSpec => Spec
<1>1. ProcessInit => Init
  BY DEF ProcessInit
<1>2. PInv /\ [ProcessNext]_processVars => [Next]_vars
  BY StepIsRingStep
<1> QED
  BY <1>1, <1>2, ProcessInductive, PTL DEF ProcessSpec, Spec

\* At any time at least one of the two threads is not asleep in the buffer: the
\* one signal per record is enough although either thread may have been woken by
\* something else, since main alone sleeps only on an empty buffer.
THEOREM NeverBothAsleep == ProcessSpec => []NotBothAsleep
<1>1. PInv => NotBothAsleep
  <2> SUFFICES ASSUME PInv, pc[Main] = "pop_wait", pc[Ingester] = "push_wait" PROVE FALSE
    BY DEF NotBothAsleep
  <2>1. At(Popping) = {} /\ At(Pushing) = {}
    BY Pair DEF At, Popping, Pushing
  <2>2. Main \in At({"pop_wait"}) /\ Ingester \in At({"push_wait"})
    BY Pair DEF At
  <2>3. count <= 0 /\ Capacity - count <= 0 /\ count \in Nat
    BY <2>1, <2>2, FS_EmptySet DEF PInv, NoLostWakeup, IInv, TypeOK
  <2> QED
    BY <2>3, CapacityAssumption
<1> QED
  BY <1>1, ProcessInductive, PTL

-----------------------------------------------------------------------------
(* The refinement. *)

\* Nothing that Engine sees has changed.
Stutter ==
    UNCHANGED <<at, reply, heap, msg, pushed, Contents, shutdown, Passed, Stage, item[Main],
                total_processed, arena, handled, thread, accepted>>

LEMMA Stutters == Stutter => UNCHANGED System!engineVars
BY DEF Stutter, heap, arena, System!engineVars, System!vars, System!consumer, System!arena

\* Between its calls the ingestion thread is where Engine has it.
LEMMA PassedOutside == pc[Ingester] # "ret_true" => Passed = i
BY DEF Passed

LEMMA StageOutside == main # "pop" => Stage = main
BY DEF Stage

\* The record is in the queue: Engine's push.
LEMMA AcceptsIsPush ==
  ASSUME PInv, PInv', PushAccepts
  PROVE  System!InThread(System!LocalStep)
<1> USE Pair
<1>0. IInv /\ IInv' /\ Places /\ Feed /\ Feed'
  BY DEF PInv
<1>1. /\ Contents' = Append(Contents, item[Ingester]) /\ Len(Contents) < Capacity
      /\ UNCHANGED <<shutdown, item>>
      /\ pc[Ingester] = "push_publish" /\ pc'[Ingester] = "ret_true"
      /\ \/ pc'[Main] = pc[Main]
         \/ pc[Main] = "pop_wait" /\ pc'[Main] = "pop_lock"
  BY <1>0, IngesterPublishes DEF PushAccepts
<1>2. /\ at = "entities" /\ i <= Len(reply.feed) /\ Own!HasPosition(reply.feed[i])
      /\ item[Ingester] = Own!Flatten(reply.feed[i]) /\ thread /\ shutdown = FALSE
  BY <1>0, <1>1 DEF Places, PushPoints
<1>3. /\ pushed' = Append(pushed, item[Ingester]) /\ accepted' = Append(accepted, item[Ingester])
      /\ UNCHANGED <<at, reply, heap, msg, i, consumer, thread, spurious>>
  BY DEF PushAccepts
<1>4. Passed = i /\ Passed' = i + 1
  BY <1>1, <1>2, <1>3 DEF Passed
<1>5. Stage' = Stage
  BY <1>1, <1>3 DEF Stage, consumer
<1>6. System!PushEntity
  BY <1>1, <1>2, <1>3, <1>4
     DEF System!PushEntity, System!AtEntity, System!Entity, System!HasPosition, Own!HasPosition,
         System!Flatten, Own!Flatten, System!Copied, Own!Copied, System!ToInt, Own!ToInt,
         System!heap, heap
<1>7. Len(pushed') > Len(pushed) /\ pushed'[Len(pushed')] = item[Ingester]
  BY <1>0, <1>3, <1>1 DEF Feed, IInv, LocalInv, PushPoints
<1> QED
  BY <1>1, <1>2, <1>3, <1>5, <1>6, <1>7
     DEF System!InThread, System!LocalStep, System!consumer, System!arena, consumer, arena

\* The loop of the thread goes round: Engine's test for the shutdown.
LEMMA QueryReturnsIsCheck ==
  ASSUME PInv, PInv', QueryReturns
  PROVE  System!InThread(System!LocalStep)
<1> USE Pair
<1>0. IInv /\ Places
  BY DEF PInv
<1>1. /\ Contents' = Contents /\ UNCHANGED <<shutdown, item>>
      /\ pc[Ingester] \in {"ret_true", "ret_false"}
      /\ pc' = [pc EXCEPT ![Ingester] = "idle"]
      /\ ret'[Ingester] = (pc[Ingester] = "ret_true")
  BY <1>0, Returning DEF QueryReturns
<1>2. pc \in [Threads -> ControlPoints]
  BY <1>0 DEF IInv, TypeOK
<1>3. /\ at = "check" /\ at' = IF ret'[Ingester] THEN "done" ELSE "fetch"
      /\ UNCHANGED <<reply, heap, msg, i, pushed, consumer, thread, accepted, spurious>>
  BY DEF QueryReturns
<1>4. pc[Ingester] = "ret_false" /\ thread /\ shutdown = FALSE /\ at' = "fetch"
  BY <1>0, <1>1, <1>3 DEF Places
<1>5. Passed' = Passed /\ Stage' = Stage
  BY <1>1, <1>2, <1>3, <1>4 DEF Passed, Stage, consumer
<1>6. System!CheckShutdown
  BY <1>1, <1>3, <1>4, <1>5 DEF System!CheckShutdown, System!heap, System!parser, System!ring, heap
<1> QED
  BY <1>1, <1>3, <1>4, <1>5, <1>6
     DEF System!InThread, System!LocalStep, System!consumer, System!arena, consumer, arena

\* A return from push moves the index when Engine has it moved already.
LEMMA PushReturnsStutters ==
  ASSUME PInv, PInv', PushReturns
  PROVE  Stutter
<1> USE Pair
<1>0. IInv /\ Places
  BY DEF PInv
<1>1. /\ Contents' = Contents /\ UNCHANGED <<shutdown, item>>
      /\ pc[Ingester] \in {"ret_true", "ret_false"}
      /\ pc' = [pc EXCEPT ![Ingester] = "idle"]
      /\ ret'[Ingester] = (pc[Ingester] = "ret_true")
  BY <1>0, Returning DEF PushReturns
<1>2. pc \in [Threads -> ControlPoints]
  BY <1>0 DEF IInv, TypeOK
<1>3. /\ at = "entities"
      /\ at' = IF ret'[Ingester] THEN at ELSE "release"
      /\ i' = IF ret'[Ingester] THEN i + 1 ELSE i
      /\ UNCHANGED <<reply, heap, msg, pushed, consumer, thread, accepted, spurious>>
  BY DEF PushReturns
<1>4. pc[Ingester] = "ret_true"
  BY <1>0, <1>1, <1>3 DEF Places, InQuery
<1>5. Passed' = Passed /\ Stage' = Stage
  BY <1>1, <1>2, <1>3, <1>4 DEF Passed, Stage, consumer
<1> QED
  BY <1>1, <1>3, <1>4, <1>5 DEF Stutter, consumer

\* So does a return from pop: Engine has main past it since the record was copied.
LEMMA PopReturnsStutters ==
  ASSUME PInv, PInv', PopReturns
  PROVE  Stutter
<1> USE Pair
<1>0. IInv /\ Places
  BY DEF PInv
<1>1. /\ Contents' = Contents /\ UNCHANGED <<shutdown, item>>
      /\ pc[Main] \in {"ret_true", "ret_false"}
      /\ pc' = [pc EXCEPT ![Main] = "idle"]
      /\ ret'[Main] = (pc[Main] = "ret_true")
  BY <1>0, Returning DEF PopReturns
<1>2. pc \in [Threads -> ControlPoints]
  BY <1>0 DEF IInv, TypeOK
<1>3. /\ main = "pop"
      /\ main' = IF ret'[Main] THEN "filter" ELSE "pop"
      /\ UNCHANGED <<ingester, total_processed, arena, handled, thread, accepted, spurious>>
  BY DEF PopReturns
<1>4. pc[Main] = "ret_true" /\ main' = "filter"
  BY <1>0, <1>1, <1>3 DEF Places, PopPoints
<1>5. Passed' = Passed /\ Stage' = Stage
  BY <1>1, <1>2, <1>3, <1>4 DEF Passed, Stage, ingester
<1> QED
  BY <1>1, <1>3, <1>5 DEF Stutter, ingester

\* Calling the buffer, and waiting in it, shows nowhere.
LEMMA CallsStutter ==
  ASSUME PInv, PInv', CallQuery \/ CallPush \/ CallPop \/ Spurious
  PROVE  Stutter
<1> USE Pair
<1>0. IInv /\ Places /\ pc \in [Threads -> ControlPoints]
      /\ item \in [Threads -> Items \cup {NoItem}]
  BY DEF PInv, IInv, TypeOK
<1>1. UNCHANGED client
  BY DEF CallQuery, CallPush, CallPop, Spurious
<1>2. Contents' = Contents /\ UNCHANGED shutdown /\ item'[Main] = item[Main]
  BY <1>0, Calling, CallingPush, Waking DEF CallQuery, CallPush, CallPop, AfterLock
<1>3. /\ pc'[Ingester] = "ret_true" <=> pc[Ingester] = "ret_true"
      /\ pc'[Main] \in {"pop_advance", "ret_true"} <=> pc[Main] \in {"pop_advance", "ret_true"}
  <2>1. CASE Spurious
    BY <1>0, <2>1, Waking
  <2>2. CASE CallQuery
    BY <1>0, <2>2, Calling DEF CallQuery, AfterLock
  <2>3. CASE CallPush
    BY <1>0, <2>3, CallingPush DEF CallPush
  <2>4. CASE CallPop
    BY <1>0, <2>4, Calling DEF CallPop, AfterLock
  <2> QED
    BY <2>1, <2>2, <2>3, <2>4
<1>4. Passed' = Passed /\ Stage' = Stage
  BY <1>1, <1>3 DEF Passed, Stage, client, ingester, consumer
<1> QED
  BY <1>1, <1>2, <1>4 DEF Stutter, client, ingester, consumer

\* The ingestion thread at work in the buffer.
LEMMA IngesterInsideStutters ==
  ASSUME PInv, PInv', Inside(Ingester)
  PROVE  Stutter
<1> USE Pair
<1>0. IInv /\ IInv' /\ Places /\ pc \in [Threads -> ControlPoints]
  BY DEF PInv, IInv, TypeOK
<1>1. UNCHANGED client
  BY DEF Inside
<1>2. /\ Contents' = Contents /\ UNCHANGED <<shutdown, item>>
      /\ pc' = [pc EXCEPT ![Ingester] = pc'[Ingester]]
      /\ \/ pc[Ingester] \in PushPoints /\ pc'[Ingester] \in PushPoints
         \/ pc[Ingester] \in InQuery /\ pc'[Ingester] \in InQuery
  BY <1>0, IngesterInside
<1>3. Passed' = Passed /\ Stage' = Stage
  BY <1>0, <1>1, <1>2 DEF Passed, Stage, client, ingester, consumer, PushPoints, InQuery
<1> QED
  BY <1>1, <1>2, <1>3 DEF Stutter, client, ingester, consumer

\* main at work in the buffer: Engine's pop when it copies the record out.
LEMMA MainInsidePopsOrStutters ==
  ASSUME PInv, PInv', Inside(Main)
  PROVE  System!PopRecord \/ Stutter
<1> USE Pair
<1>0. IInv /\ IInv' /\ Places
  BY DEF PInv
<1>1. UNCHANGED client
  BY DEF Inside
<1>2. /\ shutdown' = shutdown
      /\ pc[Main] \in PopPoints /\ pc'[Main] \in PopPoints \cup {"ret_true"}
      /\ \/ pc'[Ingester] = pc[Ingester]
         \/ pc[Ingester] = "push_wait" /\ pc'[Ingester] = "push_lock"
      /\ \/ /\ pc[Main] = "pop_test" /\ pc'[Main] = "pop_advance"
            /\ Contents # << >> /\ Contents' = Tail(Contents)
            /\ item'[Main] = Head(Contents)
         \/ /\ Contents' = Contents /\ item' = item
            /\ pc'[Main] \in {"pop_advance", "ret_true"}
                 <=> pc[Main] \in {"pop_advance", "ret_true"}
  BY <1>0, MainInside
<1>3. Passed' = Passed
  BY <1>1, <1>2 DEF Passed, client, ingester
<1>4. main = "pop"
  BY <1>0, <1>2 DEF Places, PopPoints
<1>5. CASE /\ pc[Main] = "pop_test" /\ pc'[Main] = "pop_advance"
           /\ Contents # << >> /\ Contents' = Tail(Contents)
           /\ item'[Main] = Head(Contents)
  <2>1. Stage = "pop" /\ Stage' = "filter"
    BY <1>1, <1>4, <1>5 DEF Stage, client, consumer
  <2> QED
    BY <1>1, <1>2, <1>3, <1>5, <2>1
       DEF System!PopRecord, System!Pop, System!heap, System!parser, System!arena,
           client, ingester, consumer, heap, arena
<1>6. CASE /\ Contents' = Contents /\ item' = item
           /\ pc'[Main] \in {"pop_advance", "ret_true"}
                <=> pc[Main] \in {"pop_advance", "ret_true"}
  <2>1. Stage' = Stage
    BY <1>1, <1>6 DEF Stage, client, consumer
  <2> QED
    BY <1>1, <1>2, <1>3, <1>6, <2>1 DEF Stutter, client, ingester, consumer
<1> QED
  BY <1>2, <1>5, <1>6

\* main outside the buffer.
LEMMA MainOutsideIsMain ==
  ASSUME PInv, PInv', MainOutside
  PROVE  System!MainStep
<1> USE Pair DEF vars
<1>0. Places /\ UNCHANGED vars
  BY DEF PInv, MainOutside
<1>1. main # "pop" /\ pc[Main] = "idle" /\ pc'[Main] = "idle"
  BY <1>0 DEF Places, MainOutside, Own!BufferInitFails, Own!BufferInit, Own!CreateThread,
              Own!PassOver, Own!CallUpdate, Own!UpdateRecords, Own!UpdateReturns
<1>2. Stage = main /\ Stage' = main'
  BY <1>1 DEF Stage
<1>3. UNCHANGED <<at, i>> => Passed' = Passed
  BY <1>0 DEF Passed
<1> USE DEF Own!vars, System!vars, Own!arena, System!arena
<1>4. CASE Own!BufferInitFails
  BY <1>2, <1>3, <1>4 DEF Own!BufferInitFails, System!BufferInitFails, System!MainStep
<1>5. CASE Own!BufferInit
  BY <1>2, <1>3, <1>5 DEF Own!BufferInit, System!BufferInit, System!MainStep
<1>6. CASE Own!CreateThread
  BY <1>2, <1>3, <1>6 DEF Own!CreateThread, System!CreateThread, System!MainStep
<1>7. CASE Own!PassOver
  BY <1>2, <1>3, <1>7
     DEF Own!PassOver, System!PassOver, Own!Anonymous, System!Anonymous, System!MainStep
<1>8. CASE Own!CallUpdate
  BY <1>2, <1>3, <1>8
     DEF Own!CallUpdate, System!CallUpdate, Own!Anonymous, System!Anonymous,
         Own!Arena!Invoke, System!Arena!Invoke, System!MainStep
<1>9. CASE Own!UpdateRecords
  BY <1>2, <1>3, <1>9
     DEF Own!UpdateRecords, System!UpdateRecords, Own!Arena!Record, System!Arena!Record,
         Own!Arena!BucketOf, System!Arena!BucketOf, Own!Arena!Pushed, System!Arena!Pushed,
         Own!Arena!Ages, System!Arena!Ages, Own!Arena!Sample, System!Arena!Sample,
         Own!Arena!Stamp, System!Arena!Stamp, Own!Arena!WindowFor, System!Arena!WindowFor,
         Own!Arena!EmptyWindow, System!Arena!EmptyWindow, System!MainStep
<1>10. CASE Own!UpdateReturns
  BY <1>2, <1>3, <1>10
     DEF Own!UpdateReturns, System!UpdateReturns, Own!Arena!Return, System!Arena!Return,
         Own!Arena!NoArgs, System!Arena!NoArgs, System!MainStep
<1> QED
  BY <1>4, <1>5, <1>6, <1>7, <1>8, <1>9, <1>10 DEF MainOutside

\* The ingestion thread outside the buffer.
LEMMA OutsideIsThread ==
  ASSUME PInv, PInv', Outside(OutsideStep) \/ Outside(Own!NetworkStep)
  PROVE  System!InThread(System!LocalStep) \/ System!InThread(System!NetworkStep)
<1> USE Pair DEF vars
<1>0. pc[Ingester] = "idle" /\ UNCHANGED vars /\ UNCHANGED <<consumer, thread, spurious>>
  BY OutsideFeed
<1>1. Passed = i /\ Passed' = i' /\ Stage' = Stage
  BY <1>0 DEF Passed, Stage, consumer
<1> USE DEF Own!heap, System!heap, Own!parser, System!parser, Own!ring, System!ring
<1>2. Outside(OutsideStep) => System!LocalStep
  <2> SUFFICES ASSUME OutsideStep PROVE System!LocalStep
    BY DEF Outside, Own!InThread
  <2>1. CASE Own!CurlInitFails
    BY <1>1, <2>1 DEF Own!CurlInitFails, System!CurlInitFails, System!LocalStep
  <2>2. CASE \E r \in Replies : Own!StartDownload(r)
    BY <1>1, <2>2 DEF Own!StartDownload, System!StartDownload, System!LocalStep
  <2>3. CASE at = "aborted" /\ Own!DownloadFails
    BY <1>1, <2>3 DEF Own!DownloadFails, System!DownloadFails, System!LocalStep
  <2>4. CASE Own!UnpackFails
    BY <1>1, <2>4 DEF Own!UnpackFails, System!UnpackFails, System!LocalStep
  <2>5. CASE Own!Unpack
    BY <1>1, <2>5 DEF Own!Unpack, System!Unpack, System!LocalStep
  <2>6. CASE Own!SkipEntity
    BY <1>1, <2>6
       DEF Own!SkipEntity, System!SkipEntity, Own!AtEntity, System!AtEntity, Own!Entity,
           System!Entity, Own!HasPosition, System!HasPosition, System!LocalStep
  <2>7. CASE Own!EntitiesDone
    BY <1>1, <2>7 DEF Own!EntitiesDone, System!EntitiesDone, System!LocalStep
  <2>8. CASE Own!FreeUnpacked
    BY <1>1, <2>8 DEF Own!FreeUnpacked, System!FreeUnpacked, System!LocalStep
  <2>9. CASE Own!FreePayload
    BY <1>1, <2>9 DEF Own!FreePayload, System!FreePayload, System!LocalStep
  <2>10. CASE Own!Wake
    BY <1>1, <2>10
       DEF Own!Wake, System!Wake, Own!NoReply, System!NoReply, System!LocalStep
  <2> QED
    BY <2>1, <2>2, <2>3, <2>4, <2>5, <2>6, <2>7, <2>8, <2>9, <2>10 DEF OutsideStep
<1>3. Outside(Own!NetworkStep) => System!NetworkStep
  BY <1>1
     DEF Outside, Own!InThread, Own!NetworkStep, System!NetworkStep,
         Own!WriteMemoryCallback, System!WriteMemoryCallback,
         Own!WriteMemoryCallbackFails, System!WriteMemoryCallbackFails,
         Own!DownloadFails, System!DownloadFails, Own!DownloadDone, System!DownloadDone
<1>4. /\ thread
      /\ at = "fetch" /\ at' = "download" /\ reply'.feed # Garbage
           => Len(accepted) + Len(reply'.feed) <= MaxRecords
      /\ accepted' = IF Len(pushed') > Len(pushed)
                       THEN Append(accepted, pushed'[Len(pushed')]) ELSE accepted
  BY DEF Outside, Own!InThread
<1>5. UNCHANGED <<System!consumer, thread>>
  BY <1>0, <1>1 DEF System!consumer, System!arena, consumer, arena
<1>6. Outside(OutsideStep) => System!InThread(System!LocalStep)
  BY <1>2, <1>4, <1>5 DEF System!InThread
<1>7. Outside(Own!NetworkStep) => System!InThread(System!NetworkStep)
  BY <1>3, <1>4, <1>5 DEF System!InThread
<1> QED
  BY <1>6, <1>7

LEMMA InitEngine == ProcessInit => System!EngineInit
<1> SUFFICES ASSUME ProcessInit PROVE System!EngineInit
  OBVIOUS
<1>1. Passed = i /\ Stage = main
  BY Pair DEF Passed, Stage, ProcessInit, Init, Own!EngineInit
<1> QED
  BY <1>1
     DEF ProcessInit, Own!EngineInit, System!EngineInit, Own!Init, System!Init,
         Own!Arena!Init, System!Arena!Init, Own!NoReply, System!NoReply,
         Own!Arena!Buckets, System!Arena!Buckets, Own!Arena!NoArgs, System!Arena!NoArgs,
         Own!Arena!EmptyWindow, System!Arena!EmptyWindow, Own!Arena!Ages, System!Arena!Ages

\* Two threads at the same time in buffer.c, asleep and woken by signals or by
\* nothing, are a process in which a push and a pop are one step each: each step of
\* theirs is one of Engine's, or shows nowhere.
THEOREM ProcessRunsEngine == ProcessSpec => ImplementsEngine
<1>1. PInv /\ PInv' /\ [ProcessNext]_processVars => [System!EngineNext]_System!engineVars
  <2> SUFFICES ASSUME PInv, PInv', [ProcessNext]_processVars
               PROVE  System!EngineNext \/ UNCHANGED System!engineVars
    OBVIOUS
  <2>1. CASE UNCHANGED processVars
    <3>1. Contents' = Contents
      BY <2>1 DEF processVars, vars, Contents, Taken, At
    <3>2. Stutter
      BY <2>1, <3>1 DEF Stutter, Passed, Stage, processVars, vars, client, ingester, consumer
    <3> QED
      BY <3>2, Stutters
  <2>2. CASE MainStep
    BY <2>2, CallsStutter, MainInsidePopsOrStutters, PopReturnsStutters, MainOutsideIsMain, Stutters
       DEF MainStep, System!EngineNext, System!MainStep
  <2>3. CASE IngesterStep \/ Outside(Own!NetworkStep)
    BY <2>3, CallsStutter, QueryReturnsIsCheck, AcceptsIsPush, PushReturnsStutters,
       IngesterInsideStutters, OutsideIsThread, Stutters
       DEF IngesterStep, System!EngineNext
  <2>4. CASE Spurious
    BY <2>4, CallsStutter, Stutters
  <2> QED
    BY <2>1, <2>2, <2>3, <2>4 DEF ProcessNext
<1> QED
  BY <1>1, InitEngine, ProcessInductive, PTL
     DEF ProcessSpec, ImplementsEngine, System!EngineSpec

-----------------------------------------------------------------------------
(* With the theorems about Engine.  System and SystemProofs are instances of *)
(* one module with one substitution; tlapm takes their definitions for       *)
(* different ones, so that they agree is proved definition by definition.    *)
SystemProofs == INSTANCE EngineProofs
                  WITH pc <- at, ret <- updated, queue <- Contents, i <- Passed,
                       main <- Stage, popped_bus <- item[Main], NoRecord <- NoItem

\* They start alike, stutter alike and take the same steps.
LEMMA SameInit == System!EngineInit <=> SystemProofs!EngineInit
  BY Zenon
     DEF System!EngineInit, SystemProofs!EngineInit, System!Init, SystemProofs!Init, System!NoReply,
         SystemProofs!NoReply, System!Arena!Init, SystemProofs!Arena!Init, System!Arena!Buckets,
         SystemProofs!Arena!Buckets, System!Arena!EmptyWindow, SystemProofs!Arena!EmptyWindow,
         System!Arena!Ages, SystemProofs!Arena!Ages, System!Arena!NoArgs, SystemProofs!Arena!NoArgs

LEMMA SameStutters == UNCHANGED System!engineVars <=> UNCHANGED SystemProofs!engineVars
  BY Zenon
     DEF System!engineVars, SystemProofs!engineVars, System!vars, SystemProofs!vars,
         System!consumer, SystemProofs!consumer, System!arena, SystemProofs!arena

LEMMA SameMainSteps == System!MainStep <=> SystemProofs!MainStep
  BY Zenon
     DEF System!MainStep, SystemProofs!MainStep, System!BufferInitFails,
         SystemProofs!BufferInitFails, System!BufferInit, SystemProofs!BufferInit,
         System!CreateThread, SystemProofs!CreateThread, System!PopRecord, SystemProofs!PopRecord,
         System!PassOver, SystemProofs!PassOver, System!CallUpdate, SystemProofs!CallUpdate,
         System!UpdateRecords, SystemProofs!UpdateRecords, System!UpdateReturns,
         SystemProofs!UpdateReturns, System!vars, SystemProofs!vars, System!parser,
         SystemProofs!parser, System!heap, SystemProofs!heap, System!arena, SystemProofs!arena,
         System!Pop, SystemProofs!Pop, System!Anonymous, SystemProofs!Anonymous,
         System!Arena!Invoke, SystemProofs!Arena!Invoke, System!Arena!Record,
         SystemProofs!Arena!Record, System!Arena!Return, SystemProofs!Arena!Return,
         System!Arena!NoArgs, SystemProofs!Arena!NoArgs, System!Arena!Stamp,
         SystemProofs!Arena!Stamp, System!Arena!BucketOf, SystemProofs!Arena!BucketOf,
         System!Arena!Ages, SystemProofs!Arena!Ages, System!Arena!EmptyWindow,
         SystemProofs!Arena!EmptyWindow, System!Arena!WindowFor, SystemProofs!Arena!WindowFor,
         System!Arena!Pushed, SystemProofs!Arena!Pushed, System!Arena!Sample,
         SystemProofs!Arena!Sample

LEMMA SameLocalSteps ==
  System!InThread(System!LocalStep) <=> SystemProofs!InThread(SystemProofs!LocalStep)
  BY Zenon
     DEF System!InThread, SystemProofs!InThread, System!LocalStep, SystemProofs!LocalStep,
         System!CheckShutdown, SystemProofs!CheckShutdown, System!CurlInitFails,
         SystemProofs!CurlInitFails, System!StartDownload, SystemProofs!StartDownload,
         System!DownloadFails, SystemProofs!DownloadFails, System!UnpackFails,
         SystemProofs!UnpackFails, System!Unpack, SystemProofs!Unpack, System!SkipEntity,
         SystemProofs!SkipEntity, System!PushEntity, SystemProofs!PushEntity, System!PushRefused,
         SystemProofs!PushRefused, System!EntitiesDone, SystemProofs!EntitiesDone,
         System!FreeUnpacked, SystemProofs!FreeUnpacked, System!FreePayload,
         SystemProofs!FreePayload, System!Wake, SystemProofs!Wake, System!AtEntity,
         SystemProofs!AtEntity, System!Entity, SystemProofs!Entity, System!NoReply,
         SystemProofs!NoReply, System!HasPosition, SystemProofs!HasPosition, System!Flatten,
         SystemProofs!Flatten, System!Copied, SystemProofs!Copied, System!ToInt, SystemProofs!ToInt,
         System!ring, SystemProofs!ring, System!parser, SystemProofs!parser, System!heap,
         SystemProofs!heap, System!consumer, SystemProofs!consumer, System!arena, SystemProofs!arena

LEMMA SameNetworkSteps ==
  System!InThread(System!NetworkStep) <=> SystemProofs!InThread(SystemProofs!NetworkStep)
  BY Zenon
     DEF System!InThread, SystemProofs!InThread, System!NetworkStep, SystemProofs!NetworkStep,
         System!WriteMemoryCallback, SystemProofs!WriteMemoryCallback,
         System!WriteMemoryCallbackFails, SystemProofs!WriteMemoryCallbackFails,
         System!DownloadFails, SystemProofs!DownloadFails, System!DownloadDone,
         SystemProofs!DownloadDone, System!ring, SystemProofs!ring, System!parser,
         SystemProofs!parser, System!heap, SystemProofs!heap, System!consumer,
         SystemProofs!consumer, System!arena, SystemProofs!arena

\* What Engine asks of its constants holds for the instance.
LEMMA SystemAssumptions ==
  /\ SystemProofs!CapacityAssumption /\ SystemProofs!RepliesAssumption
  /\ SystemProofs!LeaksAssumption /\ SystemProofs!WidthsAssumption
  /\ SystemProofs!CellsAssumption /\ SystemProofs!ArenaAssumption
  /\ SystemProofs!ReadingsAssumption /\ SystemProofs!MaxRecordsAssumption
<1>1. /\ \A e : Own!HasPosition(e) <=> SystemProofs!HasPosition(e)
      /\ \A e : Own!Flatten(e) = SystemProofs!Flatten(e)
  BY Zenon
     DEF Own!HasPosition, SystemProofs!HasPosition, Own!Flatten, SystemProofs!Flatten,
         Own!Copied, SystemProofs!Copied, Own!ToInt, SystemProofs!ToInt
<1> QED
  BY <1>1, EngineAssumptions, CapacityAssumption

\* Hence they are one specification.
LEMMA SameSpec == System!EngineSpec <=> SystemProofs!EngineSpec
<1>1. System!EngineNext <=> SystemProofs!EngineNext
  BY SameMainSteps, SameLocalSteps, SameNetworkSteps
     DEF System!EngineNext, SystemProofs!EngineNext
<1>2. [System!EngineNext]_System!engineVars
        <=> [SystemProofs!EngineNext]_SystemProofs!engineVars
  BY <1>1, SameStutters
<1> QED
  BY <1>2, SameInit, PTL DEF System!EngineSpec, SystemProofs!EngineSpec

\* From buffer_push to the end of an iteration of main's loop, through every wait,
\* signal and wakeup inside buffer.c: what the thread pushed is what main has
\* handled, what it has in its hands and what is in the slots, in this order.
THEOREM ProcessKeepsRecords == ProcessSpec => []System!NothingLost
<1>1. System!NothingLost <=> SystemProofs!NothingLost
  BY Zenon DEF System!NothingLost, SystemProofs!NothingLost
<1>2. SystemProofs!EngineSpec => []SystemProofs!NothingLost
  BY SystemProofs!RecordsKept, SystemAssumptions
<1> QED
  BY <1>1, <1>2, ProcessRunsEngine, SameSpec, PTL DEF ImplementsEngine

\* End to end on the code of the buffer: the buckets of the arena show the samples
\* of the vehicles that buffer_push accepted, the latest ones of one cell, newest
\* first, and total_processed counts the vehicles that were filed.
THEOREM ProcessFilesRecords == ProcessSpec => []System!ArenaMatchesFeed
<1>1. \A S : System!Cardinality(S) = SystemProofs!Cardinality(S)
  BY DEF System!Cardinality, SystemProofs!Cardinality
<1>2. System!ArenaMatchesFeed <=> SystemProofs!ArenaMatchesFeed
  BY <1>1, Zenon
     DEF System!ArenaMatchesFeed, SystemProofs!ArenaMatchesFeed, System!Counted,
         SystemProofs!Counted, System!Done, SystemProofs!Done, System!FiledIn, SystemProofs!FiledIn,
         System!Run, SystemProofs!Run, System!Belongs, SystemProofs!Belongs, System!CellAt,
         SystemProofs!CellAt, System!SampleAt, SystemProofs!SampleAt, System!NoSample,
         SystemProofs!NoSample, System!Age, SystemProofs!Age, System!Shows, SystemProofs!Shows,
         System!Anonymous, SystemProofs!Anonymous, System!Arena!BucketOf,
         SystemProofs!Arena!BucketOf, System!Arena!Buckets, SystemProofs!Arena!Buckets,
         System!Arena!Ages, SystemProofs!Arena!Ages
<1>3. SystemProofs!EngineSpec => []SystemProofs!ArenaMatchesFeed
  BY SystemProofs!ArenaFollowsFeed, SystemAssumptions
<1> QED
  BY <1>2, <1>3, ProcessRunsEngine, SameSpec, PTL DEF ImplementsEngine

=============================================================================
