----------------------- MODULE BenchmarkBufferProofs -----------------------
(***************************************************************************)
(* The benchmark destroys its buffer safely, for every capacity and number *)
(* of records.  The argument is one of accounts: the records in the        *)
(* buffer, with those that calls under way are yet to add and to remove,   *)
(* are as many as main has called buffer_pop less often than the producer  *)
(* has called buffer_push.  After the last pop nothing can be left, so for *)
(* its clients the buffer of the second run is the first one, found empty. *)
(***************************************************************************)
EXTENDS BenchmarkBuffer, RingBufferProofs

\* Calls of buffer_push that have not yet added their record, and of buffer_pop
\* that have not yet removed theirs.
InPush == IF pc[Producer] \in PushPoints THEN 1 ELSE 0
InPop == IF pc[Main] \in PopPoints THEN 1 ELSE 0

\* Each thread stays in its function, and no shutdown turns a call down.
Control ==
    /\ pc[Producer] \in PushPoints \cup {"idle", "ret_true"}
    /\ pc[Main] \in PopPoints \cup {"idle", "ret_true"}
    /\ shutdown = FALSE

AllIdle == pc[Producer] = "idle" /\ pc[Main] = "idle"

\* What a stage of main means for the buffer and the producer.
Stages ==
    /\ stage \in {"init", "exited"} <=> ~allocated
    /\ stage \in {"init", "create", "destroy", "exited"} => ~running
    /\ stage # "pop" => pc[Main] = "idle"
    /\ ~running => pc[Producer] = "idle"
    /\ stage \in {"init", "create", "destroy", "exited"} => count = 0

\* The account of records.
Balance ==
    /\ stage \in {"pop", "join"} => count + InPush - InPop = pushes - pops
    /\ stage = "join" => pops = N_RECORDS

BInv == IInv /\ BenchTypeOK /\ Control /\ Stages /\ Balance

-----------------------------------------------------------------------------
\* The client's threads.
LEMMA Client ==
  /\ Threads = {Producer, Main} /\ Producer # Main
  /\ Producer \in Threads /\ Main \in Threads
  /\ Producers = {Producer} /\ Consumers = {Main} /\ Record \in Items
BY ClientAssumption, ThreadsAssumption DEF Threads

\* Outside the buffer's functions a thread takes none of their steps.
LEMMA IdleTakesNoStep ==
  ASSUME NEW t \in Threads, pc[t] = "idle"
  PROVE  ~Step(t)
BY DEF Step, PushStep, PopStep, pthread_mutex_lock, AfterLock, PushWait, PushRefused,
       PushStore, PushPublish, PopWait, PopDrained, PopLoad, PopAdvance, ShutdownSet,
       QueryRead, UnlockAndReturn

\* A step inside the buffer's functions keeps each thread in its own, starts no
\* call and keeps the account: a push adds its record when it stops being one
\* that is yet to do so, and so does a pop.
LEMMA StepEffect ==
  ASSUME IInv, Control, NEW t \in Threads, Step(t)
  PROVE  /\ Control'
         /\ count' + InPush' - InPop' = count + InPush - InPop
         /\ \A u \in Threads : pc[u] = "idle" => pc'[u] = "idle"
<1> USE Client DEF IInv, TypeOK, Control, PushPoints, PopPoints, InPush, InPop
<1>1. CASE pthread_mutex_lock(t)
  BY <1>1 DEF pthread_mutex_lock, AfterLock, Goto, ring
<1>2. CASE PushWait(t) \/ PushRefused(t) \/ PushStore(t)
  BY <1>2 DEF PushWait, PushRefused, PushStore, Goto, ring
<1>3. CASE PopWait(t) \/ PopDrained(t) \/ PopLoad(t)
  BY <1>3 DEF PopWait, PopDrained, PopLoad, Goto, ring
<1>4. CASE PushPublish(t)
  <2>1. Signalled(t, "pop_wait", "pop_lock")
    BY <1>4, SignalEffect DEF PushPublish, ControlPoints, AfterLock
  <2> QED
    BY <1>4, <2>1 DEF PushPublish, Signalled
<1>5. CASE PopAdvance(t)
  <2>1. Signalled(t, "push_wait", "push_lock")
    BY <1>5, SignalEffect DEF PopAdvance, ControlPoints, AfterLock
  <2> QED
    BY <1>5, <2>1 DEF PopAdvance, Signalled
<1>6. CASE ShutdownSet(t) \/ QueryRead(t)
  BY <1>6 DEF ShutdownSet, QueryRead
<1>7. CASE UnlockAndReturn(t)
  BY <1>7 DEF UnlockAndReturn, Goto, ring
<1> QED
  BY <1>1, <1>2, <1>3, <1>4, <1>5, <1>6, <1>7 DEF Step, PushStep, PopStep

\* buffer_init makes a buffer that satisfies the buffer's own invariant.
LEMMA BufferInitIInv == IInv /\ AllIdle /\ buffer_init => IInv'
<1> SUFFICES ASSUME IInv, AllIdle, buffer_init PROVE IInv'
  OBVIOUS
<1>1. TypeOK'
  <2>1. 0 \in Slots /\ 0 \in 0 .. Capacity
    BY CapacityAssumption DEF Slots
  <2> QED
    BY <2>1 DEF IInv, TypeOK, buffer_init
<1>2. MutualExclusion' /\ LocalInv' /\ ShutdownWakesAll'
  BY Client, ThreadsAssumption
     DEF AllIdle, buffer_init, MutualExclusion, LocalInv, ShutdownWakesAll, Holding,
         PushPoints, PopPoints
<1>3. RingConsistent'
  BY CapacityAssumption DEF buffer_init, RingConsistent
<1> QED
  BY <1>1, <1>2, <1>3 DEF IInv

\* What the benchmark starts from satisfies its invariant.
LEMMA InitBInv == BenchInit => BInv
<1> SUFFICES ASSUME BenchInit PROVE BInv
  OBVIOUS
<1>1. IInv
  BY InitIInv DEF BenchInit
<1>2. BenchTypeOK
  <2>1. TypeOK
    BY <1>1 DEF IInv
  <2>2. 1 \in 1 .. 2 /\ 0 \in 0 .. N_RECORDS /\ 0 \in 0 .. MaxSpurious
    BY ClientAssumption
  <2> QED
    BY <2>1, <2>2 DEF BenchInit, BenchTypeOK
<1>3. Control /\ Stages /\ Balance
  BY Client DEF BenchInit, Init, Control, Stages, Balance
<1> QED
  BY <1>1, <1>2, <1>3 DEF BInv

\* Every step of the benchmark preserves its invariant.
LEMMA StepBInv == BInv /\ [BenchNext]_benchVars => BInv'
<1> SUFFICES ASSUME BInv, [BenchNext]_benchVars PROVE BInv'
  OBVIOUS
<1> USE Client, ClientAssumption DEF BInv, BenchTypeOK, client
<1>a. pc \in [Threads -> ControlPoints] /\ count \in Nat
  BY DEF TypeOK
<1>1. CASE buffer_init
  <2>1. AllIdle
    BY <1>1 DEF buffer_init, Stages, AllIdle
  <2>2. IInv'
    BY <1>1, <2>1, BufferInitIInv
  <2> QED
    BY <1>1, <2>2 DEF buffer_init, IInv, Control, Stages, Balance
<1>2. CASE Push
  <2>1. IInv'
    BY <1>2, StepIInv DEF Push, Next
  <2>2. Control' /\ InPush' = InPush + 1 /\ InPop' = InPop /\ pc'[Main] = pc[Main]
    BY <1>2, <1>a DEF Push, buffer_push, Goto, Control, InPush, InPop, PushPoints
  <2> QED
    BY <1>2, <1>a, <2>1, <2>2
       DEF Push, buffer_push, ring, IInv, Stages, Balance, InPush, InPop
<1>3. CASE Pop
  <2>1. IInv'
    BY <1>3, StepIInv DEF Pop, Next
  <2>2. Control' /\ InPop' = InPop + 1 /\ InPush' = InPush /\ pc'[Producer] = pc[Producer]
    BY <1>3, <1>a DEF Pop, Call, Goto, Control, InPush, InPop, PopPoints
  <2> QED
    BY <1>3, <1>a, <2>1, <2>2 DEF Pop, Call, ring, IInv, Stages, Balance, InPush, InPop
<1>4. ASSUME NEW t \in Threads, Inside(t) PROVE BInv'
  <2>1. IInv'
    BY <1>4, StepIInv DEF Inside, Next
  <2>2. /\ Control'
        /\ count' + InPush' - InPop' = count + InPush - InPop
        /\ \A u \in Threads : pc[u] = "idle" => pc'[u] = "idle"
    BY <1>4, StepEffect DEF Inside
  <2>3. stage \notin {"init", "create", "destroy", "exited"}
    <3>1. pc[t] # "idle"
      BY <1>4, IdleTakesNoStep DEF Inside
    <3> QED
      BY <3>1 DEF Stages
  <2> QED
    BY <1>4, <2>1, <2>2, <2>3 DEF Inside, IInv, Stages, Balance
<1>5. CASE Spurious
  <2>1. IInv'
    BY <1>5, StepIInv DEF Spurious, Next
  <2>2. /\ Control' /\ InPush' = InPush /\ InPop' = InPop
        /\ \A u \in Threads : pc[u] = "idle" => pc'[u] = "idle"
    BY <1>5, <1>a
       DEF Spurious, SpuriousWakeup, Goto, Control, InPush, InPop, PushPoints, PopPoints
  <2>3. count' = count
    BY <1>5 DEF Spurious, SpuriousWakeup, ring
  <2> QED
    BY <1>5, <2>1, <2>2, <2>3 DEF Spurious, IInv, Stages, Balance
<1>6. ASSUME UNCHANGED vars,
             \/ buffer_init_fails \/ CreateProducer \/ ProducerReturns \/ PopsDone
             \/ Join \/ buffer_destroy \/ UNCHANGED benchVars
      PROVE  BInv'
  <2>1. IInv'
    BY <1>6, StepIInv
  <2>2. Control' /\ InPush' = InPush /\ InPop' = InPop /\ UNCHANGED <<pc, count>>
    BY <1>6 DEF vars, Control, InPush, InPop
  <2> USE <1>6, <2>1, <2>2
  <2>3. CASE buffer_init_fails
    BY <2>3 DEF buffer_init_fails, IInv, Stages, Balance
  <2>4. CASE CreateProducer
    BY <2>4 DEF CreateProducer, IInv, Stages, Balance, InPush, InPop, PushPoints, PopPoints
  <2>5. CASE ProducerReturns
    BY <2>5 DEF ProducerReturns, IInv, Stages, Balance
  <2>6. CASE PopsDone
    BY <2>6 DEF PopsDone, IInv, Stages, Balance
  <2>7. CASE Join
    BY <2>7, <1>a DEF Join, IInv, Stages, Balance, InPush, InPop, PopPoints
  <2>8. CASE buffer_destroy
    <3>1. run' \in 1 .. 2 /\ stage' \in {"init", "exited"} /\ allocated' = FALSE
      BY <2>8 DEF buffer_destroy
    <3>2. pc[Main] = "idle" /\ ~running
      BY <2>8 DEF buffer_destroy, Stages
    <3> QED
      BY <2>8, <3>1 DEF buffer_destroy, IInv, Stages, Balance
  <2>9. CASE UNCHANGED benchVars
    BY <2>9 DEF benchVars, IInv, Stages, Balance
  <2> QED
    BY <2>3, <2>4, <2>5, <2>6, <2>7, <2>8, <2>9
<1> QED
  BY <1>1, <1>2, <1>3, <1>4, <1>5, <1>6
     DEF BenchNext, MainStep, ProducerStep, buffer_init_fails, CreateProducer,
         ProducerReturns, PopsDone, Join, buffer_destroy, benchVars

\* The invariant holds in every reachable state.
LEMMA BenchInductive == BenchSpec => []BInv
BY InitBInv, StepBInv, PTL DEF BenchSpec

\* The client and its buffer keep their types through both runs.
THEOREM BenchTypeCorrect == BenchSpec => []BenchTypeOK
<1>1. BInv => BenchTypeOK
  BY DEF BInv
<1> QED
  BY <1>1, BenchInductive, PTL

\* When the benchmark destroys its buffer the mutex is free, nobody waits in it
\* and it is empty; and no call is under way while there is no buffer.
THEOREM DestroySafe == BenchSpec => []DestroyIsSafe
<1>1. BInv => DestroyIsSafe
  <2> SUFFICES ASSUME BInv PROVE DestroyIsSafe
    OBVIOUS
  <2>1. stage = "destroy" \/ ~allocated => AllIdle /\ ~running
    BY DEF BInv, Stages, AllIdle
  <2>2. AllIdle => At({"idle"}) = Threads
    BY Client DEF AllIdle, At
  <2>3. AllIdle => lock = NoThread
    BY Client DEF AllIdle, BInv, IInv, TypeOK, MutualExclusion
  <2>4. stage = "destroy" => count = 0
    BY DEF BInv, Stages
  <2> QED
    BY <2>1, <2>2, <2>3, <2>4 DEF DestroyIsSafe
<1> QED
  BY <1>1, BenchInductive, PTL

\* Apart from buffer_init, what the benchmark does to the buffer its functions do.
LEMMA ClientCallsBuffer ==
  ASSUME [BenchNext]_benchVars, ~buffer_init
  PROVE  [Next]_vars
<1> USE Client
<1>1. CASE Push
  BY <1>1 DEF Push, Next
<1>2. CASE Pop
  BY <1>2 DEF Pop, Next
<1>3. CASE \E t \in Threads : Inside(t)
  BY <1>3 DEF Inside, Next
<1>4. CASE Spurious
  BY <1>4 DEF Spurious, Next
<1>5. CASE buffer_init_fails \/ CreateProducer \/ ProducerReturns \/ PopsDone
             \/ Join \/ buffer_destroy \/ UNCHANGED benchVars
  BY <1>5 DEF buffer_init_fails, CreateProducer, ProducerReturns, PopsDone, Join,
              buffer_destroy, benchVars
<1> QED
  BY <1>1, <1>2, <1>3, <1>4, <1>5 DEF BenchNext, MainStep, ProducerStep

\* A new buffer is to its clients what the old one was when it was destroyed.
LEMMA BufferInitUnseen ==
  ASSUME BInv, BInv', buffer_init
  PROVE  UNCHANGED Queue!vars
<1>1. IInv /\ IInv' /\ AllIdle /\ count = 0 /\ count' = 0
  BY DEF BInv, Stages, AllIdle, buffer_init
<1>2. At({"pop_advance"}) = {} /\ At({"pop_advance"})' = {}
  BY <1>1, Client DEF AllIdle, At, buffer_init
<1>3. Contents = << >>
  <2>1. Contents \in Seq(Items) /\ Len(Contents) = 0
    BY <1>1, <1>2, ContentsIsSeq DEF ContentsFacts, Taken
  <2> QED
    BY <2>1
<1>4. Contents' = << >>
  <2>1. Contents' \in Seq(Items) /\ Len(Contents') = 0
    BY <1>1, <1>2, PrimedFacts DEF ContentsFacts, Taken
  <2> QED
    BY <2>1
<1>5. Phases' = Phases
  BY DEF buffer_init, Phases
<1>6. shutdown' = shutdown /\ item' = item /\ ret' = ret
  BY DEF buffer_init, BInv, Control
<1> QED
  BY <1>3, <1>4, <1>5, <1>6 DEF Queue!vars

\* Both runs of the benchmark use one and the same abstract queue: the buffer is
\* created, filled, drained, destroyed and created again, and to the threads it
\* stays the bounded FIFO queue of buffer.h.
THEOREM RunsShareQueue == BenchSpec => ImplementsQueue
<1>1. BenchInit => Queue!Init
  BY InitRefines DEF BenchInit
<1>2. BInv /\ BInv' /\ [BenchNext]_benchVars => [Queue!Next]_(Queue!vars)
  <2> SUFFICES ASSUME BInv, BInv', [BenchNext]_benchVars
               PROVE  Queue!Next \/ UNCHANGED Queue!vars
    OBVIOUS
  <2>1. CASE buffer_init
    BY <2>1, BufferInitUnseen
  <2>2. CASE ~buffer_init
    <3>1. IInv /\ IInv' /\ [Next]_vars
      BY <2>2, ClientCallsBuffer DEF BInv
    <3> QED
      BY <3>1, StepRefines
  <2> QED
    BY <2>1, <2>2
<1> QED
  BY <1>1, <1>2, BenchInductive, PTL DEF BenchSpec, ImplementsQueue, Queue!Spec

=============================================================================
