-------------------------- MODULE RingBufferProofs --------------------------
(***************************************************************************)
(* The safety of buffer.c, and that it implements BoundedQueue, for every  *)
(* capacity and all finite sets of producer and consumer threads. The      *)
(* inductive invariant IInv adds to the properties what a thread inside a  *)
(* call knows (LocalInv): that buffer_push still has room, and has its     *)
(* record in the slot at head, between the store and the update of the     *)
(* indices, and that buffer_pop still has a record to take off the count.  *)
(***************************************************************************)
EXTENDS RingBuffer, FiniteSetTheorems, SequenceTheorems, TLAPS

PushPoints == {"push_lock", "push_test", "push_wait", "push_publish"}
PopPoints == {"pop_lock", "pop_test", "pop_wait", "pop_advance"}

LocalInv ==
    \A t \in Threads :
        /\ pc[t] \in PushPoints => t \in Producers /\ item[t] \in Items
        /\ pc[t] \in PopPoints => t \in Consumers
        /\ pc[t] = "push_publish" => count < Capacity /\ data[head] = item[t] /\ ~shutdown
        /\ pc[t] = "pop_advance" => count > 0

IInv == TypeOK /\ MutualExclusion /\ LocalInv /\ RingConsistent /\ ShutdownWakesAll

\* The index arithmetic of buffer.c, (x + 1) % rb->capacity: a remainder is a
\* slot of the array, ...
LEMMA ModRange ==
  ASSUME NEW a \in Nat
  PROVE  a % Capacity \in Slots
BY CapacityAssumption DEF Slots

\* ... below the capacity nothing wraps, ...
LEMMA ModLow ==
  ASSUME NEW a \in Nat, a < Capacity
  PROVE  a % Capacity = a
BY CapacityAssumption

\* ... up to twice the capacity it wraps once, ...
LEMMA ModHigh ==
  ASSUME NEW a \in Nat, a >= Capacity, a < 2 * Capacity
  PROVE  a % Capacity = a - Capacity
BY CapacityAssumption

\* ... and advancing an index commutes with the wrap.
LEMMA ModSucc ==
  ASSUME NEW a \in Nat, a + 1 < 2 * Capacity
  PROVE  ((a % Capacity) + 1) % Capacity = (a + 1) % Capacity
<1>1. CASE a + 1 < Capacity
  BY <1>1, ModLow, CapacityAssumption
<1>2. CASE a + 1 = Capacity
  BY <1>2, ModLow, CapacityAssumption
<1>3. CASE a + 1 > Capacity
  <2>1. a % Capacity = a - Capacity
    BY <1>3, ModHigh, CapacityAssumption
  <2>2. (a + 1) % Capacity = a + 1 - Capacity
    BY <1>3, ModHigh, CapacityAssumption
  <2>3. (a - Capacity + 1) % Capacity = a + 1 - Capacity
    BY <1>3, ModLow, CapacityAssumption
  <2> QED
    BY <2>1, <2>2, <2>3
<1> QED
  BY <1>1, <1>2, <1>3, CapacityAssumption

\* What buffer_init sets up satisfies the inductive invariant.
LEMMA InitIInv == Init => IInv
<1> SUFFICES ASSUME Init PROVE IInv
  OBVIOUS
<1>1. RingConsistent
  <2>1. 0 % Capacity = 0
    BY ModLow, CapacityAssumption
  <2> QED
    BY <2>1 DEF Init, RingConsistent
<1>2. TypeOK
  <2>1. 0 \in Slots /\ 0 \in 0 .. Capacity
    BY CapacityAssumption DEF Slots
  <2> QED
    BY <2>1 DEF Init, TypeOK, ControlPoints
<1> QED
  BY <1>1, <1>2, ThreadsAssumption
     DEF Init, IInv, MutualExclusion, LocalInv, ShutdownWakesAll, At,
         Holding, PushPoints, PopPoints

\* The control state after thread t did pthread_cond_signal and went on to
\* unlock: one other thread moved from w to l, or none was asleep at w.
Signalled(t, w, l) ==
    /\ pc' \in [Threads -> ControlPoints]
    /\ pc'[t] = "ret_true"
    /\ \/ \A u \in Threads : u # t => pc'[u] = pc[u] /\ pc[u] # w
       \/ \E s \in Threads :
             /\ s # t /\ pc[s] = w /\ pc'[s] = l
             /\ \A u \in Threads : u \notin {s, t} => pc'[u] = pc[u]

\* pthread_cond_signal wakes at most one thread, and only one that sleeps on
\* the condition variable it is given.
LEMMA SignalEffect ==
  ASSUME NEW t \in Threads, pc \in [Threads -> ControlPoints],
         NEW w \in ControlPoints, NEW l \in ControlPoints, w # "ret_true",
         pc' \in pthread_cond_signal([pc EXCEPT ![t] = "ret_true"], w, l)
  PROVE  Signalled(t, w, l)
<1> DEFINE moved == [pc EXCEPT ![t] = "ret_true"]
           sleepers == {u \in Threads : moved[u] = w}
<1>1. moved \in [Threads -> ControlPoints]
  BY DEF ControlPoints, Holding
<1>2. CASE sleepers = {}
  <2>1. pc' = moved
    BY <1>2 DEF pthread_cond_signal
  <2> QED
    BY <1>1, <1>2, <2>1 DEF Signalled
<1>3. CASE sleepers # {}
  <2>1. PICK s \in sleepers : pc' = [moved EXCEPT ![s] = l]
    BY <1>3 DEF pthread_cond_signal
  <2>2. s # t /\ pc[s] = w
    BY <2>1
  <2> QED
    BY <1>1, <2>1, <2>2 DEF Signalled
<1> QED
  BY <1>2, <1>3

\* Every step of every thread preserves the inductive invariant.
LEMMA StepIInv == IInv /\ [Next]_vars => IInv'
<1> SUFFICES ASSUME IInv, [Next]_vars PROVE IInv'
  OBVIOUS
<1> USE CapacityAssumption, ThreadsAssumption
    DEF IInv, TypeOK, MutualExclusion, LocalInv, ShutdownWakesAll, ring, At, Goto,
        PushPoints, PopPoints
<1>1. ASSUME NEW t \in Producers, NEW v \in Items, buffer_push(t, v) PROVE IInv'
  BY <1>1 DEF buffer_push, RingConsistent, ControlPoints, AfterLock, Threads, Holding
<1>2. ASSUME NEW t \in Consumers, Call(t, "pop_lock") PROVE IInv'
  BY <1>2 DEF Call, RingConsistent, ControlPoints, AfterLock, Threads, Holding
<1>3. ASSUME NEW t \in Threads, NEW l \in {"shutdown_lock", "query_lock"}, Call(t, l) PROVE IInv'
  BY <1>3 DEF Call, RingConsistent, ControlPoints, AfterLock, Holding
<1>4. ASSUME NEW t \in Threads, SpuriousWakeup(t) PROVE IInv'
  BY <1>4 DEF SpuriousWakeup, RingConsistent, ControlPoints, AfterLock, Holding
<1>5. ASSUME NEW t \in Threads, pthread_mutex_lock(t) PROVE IInv'
  BY <1>5 DEF pthread_mutex_lock, RingConsistent, ControlPoints, AfterLock, Holding
<1>6. ASSUME NEW t \in Threads, PushWait(t) PROVE IInv'
  BY <1>6 DEF PushWait, PushMustWait, RingConsistent, ControlPoints, AfterLock, Holding
<1>7. ASSUME NEW t \in Threads, PushRefused(t) PROVE IInv'
  BY <1>7 DEF PushRefused, PushMustWait, RingConsistent, ControlPoints, AfterLock, Holding
<1>8. ASSUME NEW t \in Threads, PushStore(t) PROVE IInv'
  BY <1>8 DEF PushStore, PushMustWait, RingConsistent, ControlPoints, AfterLock, Holding
<1>9. ASSUME NEW t \in Threads, PushPublish(t) PROVE IInv'
  <2> USE <1>9 DEF PushPublish
  <2>0. Signalled(t, "pop_wait", "pop_lock")
    <3>1. "pop_wait" \in ControlPoints /\ "pop_lock" \in ControlPoints
      BY DEF ControlPoints, AfterLock
    <3> QED
      BY <3>1, SignalEffect
  <2>1. pc[t] = "push_publish" /\ lock = t /\ count < Capacity /\ ~shutdown
    BY DEF Holding
  <2>2. \A u \in Threads : u # t => pc[u] \notin Holding
    BY <2>1
  <2>3. \A u \in Threads :
           \/ u = t /\ pc'[u] = "ret_true"
           \/ u # t /\ pc'[u] = pc[u]
           \/ u # t /\ pc[u] = "pop_wait" /\ pc'[u] = "pop_lock"
    BY <2>0 DEF Signalled
  <2>4. pc' \in [Threads -> ControlPoints]
    BY <2>0 DEF Signalled
  <2>5. TypeOK'
    <3>1. head + 1 \in Nat /\ count' \in 0 .. Capacity
      BY <2>1 DEF Slots
    <3>2. head' \in Slots
      BY <3>1, ModRange
    <3> QED
      BY <2>4, <3>1, <3>2
  <2>6. RingConsistent'
    <3>1. head' = (tail + count') % Capacity
      <4>1. tail + count \in Nat /\ tail + count + 1 < 2 * Capacity
        BY <2>1 DEF Slots
      <4> QED
        BY <4>1, ModSucc DEF RingConsistent, Slots
    <3>2. \A k \in 0 .. count : data[(tail + k) % Capacity] \in Items
      BY <2>1 DEF RingConsistent
    <3> QED
      BY <2>1, <3>1, <3>2 DEF RingConsistent
  <2>7. MutualExclusion'
    BY <2>1, <2>2, <2>3 DEF Holding
  <2>8. LocalInv' /\ ShutdownWakesAll'
    BY <2>1, <2>2, <2>3 DEF Holding
  <2> QED
    BY <2>5, <2>6, <2>7, <2>8
<1>10. ASSUME NEW t \in Threads, PopWait(t) PROVE IInv'
  BY <1>10 DEF PopWait, PopMustWait, RingConsistent, ControlPoints, AfterLock, Holding
<1>11. ASSUME NEW t \in Threads, PopDrained(t) PROVE IInv'
  BY <1>11 DEF PopDrained, PopMustWait, RingConsistent, ControlPoints, AfterLock, Holding
<1>12. ASSUME NEW t \in Threads, PopLoad(t) PROVE IInv'
  BY <1>12 DEF PopLoad, PopMustWait, RingConsistent, ControlPoints, AfterLock, Holding
<1>13. ASSUME NEW t \in Threads, PopAdvance(t) PROVE IInv'
  <2> USE <1>13 DEF PopAdvance
  <2>0. Signalled(t, "push_wait", "push_lock")
    <3>1. "push_wait" \in ControlPoints /\ "push_lock" \in ControlPoints
      BY DEF ControlPoints, AfterLock
    <3> QED
      BY <3>1, SignalEffect
  <2>1. pc[t] = "pop_advance" /\ lock = t /\ count > 0
    BY DEF Holding
  <2>2. \A u \in Threads : u # t => pc[u] \notin Holding
    BY <2>1
  <2>3. \A u \in Threads :
           \/ u = t /\ pc'[u] = "ret_true"
           \/ u # t /\ pc'[u] = pc[u]
           \/ u # t /\ pc[u] = "push_wait" /\ pc'[u] = "push_lock"
    BY <2>0 DEF Signalled
  <2>4. pc' \in [Threads -> ControlPoints]
    BY <2>0 DEF Signalled
  <2>5. TypeOK'
    <3>1. tail + 1 \in Nat /\ count' \in 0 .. Capacity
      BY <2>1 DEF Slots
    <3>2. tail' \in Slots
      BY <3>1, ModRange
    <3> QED
      BY <2>4, <3>1, <3>2
  <2>6. RingConsistent'
    <3>1. \A k \in 0 .. count - 1 : (tail' + k) % Capacity = (tail + k + 1) % Capacity
      <4> SUFFICES ASSUME NEW k \in 0 .. count - 1
                   PROVE  (tail' + k) % Capacity = (tail + k + 1) % Capacity
        OBVIOUS
      <4>1. CASE tail + 1 = Capacity
        <5>1. tail' = 0
          BY <4>1, ModHigh
        <5>2. k % Capacity = k
          BY ModLow
        <5>3. (Capacity + k) % Capacity = k
          BY ModHigh
        <5> QED
          BY <4>1, <5>1, <5>2, <5>3 DEF Slots
      <4>2. CASE tail + 1 < Capacity
        <5>1. tail' = tail + 1
          BY <4>2, ModLow DEF Slots
        <5> QED
          BY <5>1 DEF Slots
      <4> QED
        BY <4>1, <4>2 DEF Slots
    <3>2. head' = (tail' + count') % Capacity
      <4>1. count - 1 \in 0 .. count - 1
        BY <2>1
      <4>2. (tail' + (count - 1)) % Capacity = (tail + (count - 1) + 1) % Capacity
        BY <3>1, <4>1
      <4>3. tail + (count - 1) + 1 = tail + count /\ count' = count - 1
        BY <2>1 DEF Slots
      <4> QED
        BY <4>2, <4>3 DEF RingConsistent
    <3>3. \A k \in 0 .. count' - 1 : data'[(tail' + k) % Capacity] \in Items
      <4> SUFFICES ASSUME NEW k \in 0 .. count' - 1
                   PROVE  data[(tail' + k) % Capacity] \in Items
        OBVIOUS
      <4>1. k \in 0 .. count - 1 /\ k + 1 \in 0 .. count - 1
        BY <2>1
      <4>2. data[(tail + (k + 1)) % Capacity] \in Items
        BY <4>1 DEF RingConsistent
      <4>3. tail + (k + 1) = tail + k + 1
        BY <4>1 DEF Slots
      <4> QED
        BY <3>1, <4>1, <4>2, <4>3
    <3> QED
      BY <3>2, <3>3 DEF RingConsistent
  <2>7. MutualExclusion'
    BY <2>1, <2>2, <2>3 DEF Holding
  <2>8. LocalInv' /\ ShutdownWakesAll'
    BY <2>1, <2>2, <2>3 DEF Holding
  <2> QED
    BY <2>5, <2>6, <2>7, <2>8
<1>14. ASSUME NEW t \in Threads, ShutdownSet(t) PROVE IInv'
  BY <1>14 DEF ShutdownSet, pthread_cond_broadcast, RingConsistent, ControlPoints, AfterLock, Holding
<1>15. ASSUME NEW t \in Threads, QueryRead(t) PROVE IInv'
  BY <1>15 DEF QueryRead, RingConsistent, ControlPoints, AfterLock, Holding
<1>16. ASSUME NEW t \in Threads, UnlockAndReturn(t) PROVE IInv'
  BY <1>16 DEF UnlockAndReturn, RingConsistent, ControlPoints, AfterLock, Holding
<1>17. CASE UNCHANGED vars
  BY <1>17 DEF vars, RingConsistent
<1> QED
  BY <1>1, <1>2, <1>3, <1>4, <1>5, <1>6, <1>7, <1>8, <1>9, <1>10, <1>11, <1>12,
     <1>13, <1>14, <1>15, <1>16, <1>17
     DEF Next, Step, PushStep, PopStep

-----------------------------------------------------------------------------
(* No lost wakeup. *)

PopWake == At({"pop_wait"}) # {} => count <= Cardinality(At(Popping))
PushWake == At({"push_wait"}) # {} => Capacity - count <= Cardinality(At(Pushing))

\* The threads at a set of control points are finitely many, before and after
\* a step.
LEMMA AtFinite ==
  ASSUME NEW p
  PROVE  /\ IsFiniteSet(At(p)) /\ Cardinality(At(p)) \in Nat
         /\ IsFiniteSet(At(p)') /\ Cardinality(At(p)') \in Nat
<1>1. At(p) \in SUBSET Threads /\ At(p)' \in SUBSET Threads
  BY DEF At
<1> QED
  BY <1>1, ThreadsAssumption, FS_Subset, FS_CardinalityType

\* Steps that leave count alone, let nobody awake leave and put nobody to sleep.
LEMMA QuietPop ==
  ASSUME TypeOK, PopWake, count' = count,
         At(Popping) \subseteq At(Popping)',
         At({"pop_wait"})' \subseteq At({"pop_wait"})
  PROVE  PopWake'
<1>1. Cardinality(At(Popping)) <= Cardinality(At(Popping)')
  BY AtFinite, FS_Subset
<1>2. Cardinality(At(Popping)) \in Nat /\ Cardinality(At(Popping)') \in Nat
  BY AtFinite
<1> QED
  BY <1>1, <1>2, CapacityAssumption DEF PopWake, TypeOK

\* The same for the producers.
LEMMA QuietPush ==
  ASSUME TypeOK, PushWake, count' = count,
         At(Pushing) \subseteq At(Pushing)',
         At({"push_wait"})' \subseteq At({"push_wait"})
  PROVE  PushWake'
<1>1. Cardinality(At(Pushing)) <= Cardinality(At(Pushing)')
  BY AtFinite, FS_Subset
<1>2. Cardinality(At(Pushing)) \in Nat /\ Cardinality(At(Pushing)') \in Nat
  BY AtFinite
<1> QED
  BY <1>1, <1>2, CapacityAssumption DEF PushWake, TypeOK

\* One record more is matched by one consumer more.
LEMMA PublishWakes ==
  ASSUME TypeOK, PopWake, PushWake, NEW t \in Threads, PushPublish(t)
  PROVE  PopWake' /\ PushWake'
<1>1. Signalled(t, "pop_wait", "pop_lock")
  <2>1. "pop_wait" \in ControlPoints /\ "pop_lock" \in ControlPoints
    BY DEF ControlPoints, AfterLock
  <2> QED
    BY <2>1, SignalEffect DEF PushPublish, TypeOK
<1>2. PopWake'
  <2>1. CASE \A u \in Threads : u # t => pc'[u] = pc[u] /\ pc[u] # "pop_wait"
    BY <1>1, <2>1 DEF PopWake, At, Signalled
  <2>2. CASE \E s \in Threads :
                /\ s # t /\ pc[s] = "pop_wait" /\ pc'[s] = "pop_lock"
                /\ \A u \in Threads : u \notin {s, t} => pc'[u] = pc[u]
    <3>1. PICK s \in Threads :
                /\ s # t /\ pc[s] = "pop_wait" /\ pc'[s] = "pop_lock"
                /\ \A u \in Threads : u \notin {s, t} => pc'[u] = pc[u]
      BY <2>2
    <3>2. At(Popping)' = At(Popping) \cup {s} /\ s \notin At(Popping)
      BY <1>1, <3>1 DEF At, Popping, PushPublish, Signalled
    <3>3. Cardinality(At(Popping)') = Cardinality(At(Popping)) + 1
      BY <3>2, AtFinite, FS_AddElement
    <3>4. At({"pop_wait"}) # {}
      BY <3>1 DEF At
    <3> QED
      BY <3>3, <3>4, AtFinite DEF PopWake, PushPublish, TypeOK
  <2> QED
    BY <1>1, <2>1, <2>2 DEF Signalled
<1>3. PushWake'
  <2>1. At(Pushing)' = At(Pushing) \ {t} /\ t \in At(Pushing)
    BY <1>1 DEF At, Pushing, PushPublish, Signalled
  <2>2. Cardinality(At(Pushing)') = Cardinality(At(Pushing)) - 1
    BY <2>1, AtFinite, FS_RemoveElement
  <2>3. At({"push_wait"})' \subseteq At({"push_wait"})
    BY <1>1 DEF At, Signalled, PushPublish
  <2> QED
    BY <2>2, <2>3, AtFinite, CapacityAssumption DEF PushWake, PushPublish, TypeOK
<1> QED
  BY <1>2, <1>3

\* One slot more is matched by one producer more.
LEMMA AdvanceWakes ==
  ASSUME TypeOK, PopWake, PushWake, NEW t \in Threads, PopAdvance(t)
  PROVE  PopWake' /\ PushWake'
<1>1. Signalled(t, "push_wait", "push_lock")
  <2>1. "push_wait" \in ControlPoints /\ "push_lock" \in ControlPoints
    BY DEF ControlPoints, AfterLock
  <2> QED
    BY <2>1, SignalEffect DEF PopAdvance, TypeOK
<1>2. PushWake'
  <2>1. CASE \A u \in Threads : u # t => pc'[u] = pc[u] /\ pc[u] # "push_wait"
    BY <1>1, <2>1 DEF PushWake, At, Signalled
  <2>2. CASE \E s \in Threads :
                /\ s # t /\ pc[s] = "push_wait" /\ pc'[s] = "push_lock"
                /\ \A u \in Threads : u \notin {s, t} => pc'[u] = pc[u]
    <3>1. PICK s \in Threads :
                /\ s # t /\ pc[s] = "push_wait" /\ pc'[s] = "push_lock"
                /\ \A u \in Threads : u \notin {s, t} => pc'[u] = pc[u]
      BY <2>2
    <3>2. At(Pushing)' = At(Pushing) \cup {s} /\ s \notin At(Pushing)
      BY <1>1, <3>1 DEF At, Pushing, PopAdvance, Signalled
    <3>3. Cardinality(At(Pushing)') = Cardinality(At(Pushing)) + 1
      BY <3>2, AtFinite, FS_AddElement
    <3>4. At({"push_wait"}) # {}
      BY <3>1 DEF At
    <3> QED
      BY <3>3, <3>4, AtFinite, CapacityAssumption DEF PushWake, PopAdvance, TypeOK
  <2> QED
    BY <1>1, <2>1, <2>2 DEF Signalled
<1>3. PopWake'
  <2>1. At(Popping)' = At(Popping) \ {t} /\ t \in At(Popping)
    BY <1>1 DEF At, Popping, PopAdvance, Signalled
  <2>2. Cardinality(At(Popping)') = Cardinality(At(Popping)) - 1
    BY <2>1, AtFinite, FS_RemoveElement
  <2>3. At({"pop_wait"})' \subseteq At({"pop_wait"})
    BY <1>1 DEF At, Signalled, PopAdvance
  <2> QED
    BY <2>2, <2>3, AtFinite DEF PopWake, PopAdvance, TypeOK
<1> QED
  BY <1>2, <1>3

\* Every step of every thread preserves NoLostWakeup: one signal per record
\* keeps pace with one record per push and per pop.
LEMMA StepNoLostWakeup == IInv /\ IInv' /\ NoLostWakeup /\ [Next]_vars => NoLostWakeup'
<1> SUFFICES ASSUME IInv, IInv', PopWake, PushWake, [Next]_vars PROVE PopWake' /\ PushWake'
  BY DEF NoLostWakeup, PopWake, PushWake
<1>0. TypeOK /\ ShutdownWakesAll /\ ShutdownWakesAll'
  BY DEF IInv
<1> DEFINE QuietPopStep == /\ count' = count /\ At(Popping) \subseteq At(Popping)'
                           /\ At({"pop_wait"})' \subseteq At({"pop_wait"})
           QuietPushStep == /\ count' = count /\ At(Pushing) \subseteq At(Pushing)'
                            /\ At({"push_wait"})' \subseteq At({"push_wait"})
<1>1. ASSUME QuietPopStep PROVE PopWake'
  BY <1>0, <1>1, QuietPop
<1>2. ASSUME QuietPushStep PROVE PushWake'
  BY <1>0, <1>2, QuietPush
<1>c. Cardinality(At(Popping)') \in Nat /\ Cardinality(At(Pushing)') \in Nat
  BY AtFinite
<1>e. (count' = 0 => PopWake') /\ (count' = Capacity => PushWake')
  BY <1>c, CapacityAssumption DEF PopWake, PushWake
<1> USE DEF TypeOK, At, Popping, Pushing, ring, Goto
<1>3. ASSUME NEW t \in Producers, NEW v \in Items, buffer_push(t, v)
      PROVE  QuietPopStep /\ QuietPushStep
  BY <1>0, <1>3 DEF buffer_push, Threads
<1>4. ASSUME NEW t \in Threads, NEW l \in DOMAIN AfterLock, Call(t, l)
      PROVE  QuietPopStep /\ QuietPushStep
  BY <1>0, <1>4 DEF Call, AfterLock
<1>5. ASSUME NEW t \in Threads, SpuriousWakeup(t) PROVE QuietPopStep /\ QuietPushStep
  BY <1>0, <1>5 DEF SpuriousWakeup
<1>6. ASSUME NEW t \in Threads, pthread_mutex_lock(t) PROVE QuietPopStep /\ QuietPushStep
  BY <1>0, <1>6 DEF pthread_mutex_lock, AfterLock
<1>7. ASSUME NEW t \in Threads, PushWait(t) PROVE QuietPopStep /\ PushWake'
  BY <1>0, <1>e, <1>7 DEF PushWait, PushMustWait
<1>8. ASSUME NEW t \in Threads, PushRefused(t) PROVE QuietPopStep /\ PushWake'
  BY <1>0, <1>8 DEF PushRefused, ShutdownWakesAll, PushWake
<1>9. ASSUME NEW t \in Threads, PushStore(t) PROVE QuietPopStep /\ QuietPushStep
  BY <1>0, <1>9 DEF PushStore
<1>10. ASSUME NEW t \in Threads, PopWait(t) PROVE PopWake' /\ QuietPushStep
  BY <1>0, <1>e, <1>10 DEF PopWait, PopMustWait
<1>11. ASSUME NEW t \in Threads, PopDrained(t) PROVE PopWake' /\ QuietPushStep
  BY <1>0, <1>11 DEF PopDrained, ShutdownWakesAll, PopWake
<1>12. ASSUME NEW t \in Threads, PopLoad(t) PROVE QuietPopStep /\ QuietPushStep
  BY <1>0, <1>12 DEF PopLoad
<1>13. ASSUME NEW t \in Threads, ShutdownSet(t) PROVE PopWake' /\ PushWake'
  BY <1>0, <1>13 DEF ShutdownSet, ShutdownWakesAll, PopWake, PushWake
<1>14. ASSUME NEW t \in Threads, QueryRead(t) PROVE QuietPopStep /\ QuietPushStep
  BY <1>0, <1>14 DEF QueryRead
<1>15. ASSUME NEW t \in Threads, UnlockAndReturn(t) PROVE QuietPopStep /\ QuietPushStep
  BY <1>0, <1>15 DEF UnlockAndReturn
<1>16. CASE UNCHANGED vars
  BY <1>16 DEF vars, PopWake, PushWake
<1>17. {"pop_lock", "shutdown_lock", "query_lock"} \subseteq DOMAIN AfterLock /\ Consumers \subseteq Threads
  BY DEF AfterLock, Threads
<1> HIDE DEF QuietPopStep, QuietPushStep, TypeOK, At, Goto
<1> QED
  BY <1>0, <1>1, <1>2, <1>3, <1>4, <1>5, <1>6, <1>7, <1>8, <1>9, <1>10, <1>11,
     <1>12, <1>13, <1>14, <1>15, <1>16, <1>17, PublishWakes, AdvanceWakes
     DEF Next, Step, PushStep, PopStep

-----------------------------------------------------------------------------
(* The theorems. *)

\* Nobody sleeps in a buffer that was just initialised.
LEMMA InitNoLostWakeup == Init => NoLostWakeup
BY DEF Init, NoLostWakeup, At

\* The inductive invariant holds in every state.
LEMMA Inductive == Spec => [](IInv /\ NoLostWakeup)
<1>1. Init => IInv /\ NoLostWakeup
  BY InitIInv, InitNoLostWakeup
<1>2. (IInv /\ NoLostWakeup) /\ [Next]_vars => (IInv /\ NoLostWakeup)'
  BY StepIInv, StepNoLostWakeup
<1> QED
  BY <1>1, <1>2, PTL DEF Spec

\* Type correctness of RingBuffer: the indices never leave the allocated array
\* and count never leaves 0..capacity, for every capacity and thread set.
THEOREM TypeCorrect == Spec => []TypeOK
BY Inductive, PTL DEF IInv

\* The functions of buffer.c exclude each other: a thread is between lock and
\* unlock exactly when it owns rb->lock, on every path through them, for all
\* sets of threads.
THEOREM Mutex == Spec => []MutualExclusion
BY Inductive, PTL DEF IInv

\* head, tail and count agree and buffer_pop never copies out a slot that no
\* buffer_push wrote, for every capacity and thread set.
THEOREM Consistent == Spec => []RingConsistent
BY Inductive, PTL DEF IInv

\* After buffer_signal_shutdown set the flag no thread sleeps in buffer_push or
\* buffer_pop, for every number of threads.
THEOREM ShutdownSafe == Spec => []ShutdownWakesAll
BY Inductive, PTL DEF IInv

\* No wakeup is lost, for any number of producers and consumers: buffer.c may
\* use pthread_cond_signal where a broadcast would seem the safe choice.
THEOREM WakeupSafe == Spec => []NoLostWakeup
BY Inductive, PTL

-----------------------------------------------------------------------------
(* RingBuffer implements BoundedQueue.  A push takes effect when it advances
   head, a pop when it copies the record out; every other step of a call is
   invisible, apart from its invocation and its return. *)

\* Only the owner of the mutex can be between copying a record out and
\* advancing tail.
TakenFacts ==
    /\ \A t \in Threads : pc[t] \in Holding \ {"pop_advance"} => Taken = 0
    /\ \A t \in Threads : pc[t] = "pop_advance" => Taken = 1
    /\ lock = NoThread => Taken = 0
    /\ Taken \in {0, 1}
    /\ count - Taken \in Nat

\* At most one record is copied out and not yet taken off the count.
LEMMA TakenValue == IInv => TakenFacts
<1> SUFFICES ASSUME IInv PROVE TakenFacts
  OBVIOUS
<1>1. count - Taken \in Nat
  <2>1. CASE At({"pop_advance"}) = {}
    BY <2>1 DEF Taken, IInv, TypeOK
  <2>2. CASE At({"pop_advance"}) # {}
    BY <2>2 DEF Taken, IInv, TypeOK, LocalInv, At
  <2> QED
    BY <2>1, <2>2
<1> QED
  BY <1>1, ThreadsAssumption DEF TakenFacts, IInv, MutualExclusion, Taken, At, Holding

ContentsFacts == Contents \in Seq(Items) /\ Len(Contents) = count - Taken

\* The refinement mapping yields a sequence of records.
LEMMA ContentsIsSeq == IInv => ContentsFacts
<1> SUFFICES ASSUME IInv PROVE ContentsFacts
  OBVIOUS
<1>1. count - Taken \in Nat
  BY TakenValue DEF TakenFacts
<1>2. \A k \in 1 .. count - Taken : data[(tail + Taken + k - 1) % Capacity] \in Items
  <2> SUFFICES ASSUME NEW k \in 1 .. count - Taken
               PROVE  data[(tail + Taken + k - 1) % Capacity] \in Items
    OBVIOUS
  <2>1. Taken + k - 1 \in 0 .. count - 1 /\ tail + (Taken + k - 1) = tail + Taken + k - 1
    BY <1>1, TakenValue, CapacityAssumption DEF IInv, TypeOK, Slots, TakenFacts
  <2> QED
    BY <2>1 DEF IInv, RingConsistent
<1> QED
  BY <1>1, <1>2 DEF Contents, ContentsFacts

\* Both facts hold after a step, too.
LEMMA PrimedFacts == IInv' => TakenFacts' /\ ContentsFacts'
BY TakenValue, ContentsIsSeq, PTL

\* The phases after a step in which only t's phase changes.
LEMMA PhaseStep ==
  ASSUME NEW t \in Threads, NEW p, PhaseOf(pc'[t]) = p,
         \A u \in Threads : u # t => PhaseOf(pc'[u]) = PhaseOf(pc[u])
  PROVE  Phases' = [Phases EXCEPT ![t] = p]
BY DEF Phases

\* Advancing head and count appends the stored record.
LEMMA PutStep ==
  ASSUME IInv, IInv', NEW t \in Threads, PushPublish(t)
  PROVE  Contents' = Append(Contents, item[t])
<1>1. pc[t] = "push_publish" /\ pc'[t] = "ret_true"
  BY SignalEffect DEF PushPublish, Signalled, IInv, TypeOK, ControlPoints, AfterLock
<1>2. Taken = 0 /\ Taken' = 0
  BY <1>1, TakenValue, PrimedFacts DEF Holding, TakenFacts
<1>3. item[t] \in Items /\ data[head] = item[t] /\ head = (tail + count) % Capacity
  BY <1>1 DEF IInv, LocalInv, RingConsistent, PushPoints
<1>4. count \in Nat /\ count' = count + 1 /\ tail \in Nat /\ tail' = tail /\ data' = data
  BY CapacityAssumption DEF PushPublish, IInv, TypeOK, Slots
<1>5. Contents \in Seq(Items) /\ Len(Contents) = count
  BY <1>2, <1>4, ContentsIsSeq DEF ContentsFacts
<1>6. Contents' \in Seq(Items) /\ Len(Contents') = count + 1
  BY <1>2, <1>4, PrimedFacts DEF ContentsFacts
<1>7. ASSUME NEW k \in 1 .. count + 1 PROVE Contents'[k] = Append(Contents, item[t])[k]
  <2>1. Contents'[k] = data[(tail + k - 1) % Capacity]
    BY <1>2, <1>4 DEF Contents
  <2>2. CASE k <= count
    BY <1>2, <1>3, <1>4, <1>5, <2>1, <2>2 DEF Contents
  <2>3. CASE k = count + 1
    BY <1>3, <1>4, <1>5, <2>1, <2>3
  <2>4. k <= count \/ k = count + 1
    BY <1>4
  <2> QED
    BY <2>2, <2>3, <2>4
<1>8. Append(Contents, item[t]) \in Seq(Items) /\ Len(Append(Contents, item[t])) = count + 1
  BY <1>3, <1>5
<1> QED
  BY <1>4, <1>6, <1>7, <1>8, SeqEqual

\* Copying the record at tail out takes the head off the queue.
LEMMA GetStep ==
  ASSUME IInv, IInv', NEW t \in Threads, PopLoad(t)
  PROVE  /\ Contents # << >>
         /\ Contents' = Tail(Contents)
         /\ data[tail] = Head(Contents)
<1>1. pc[t] = "pop_test" /\ pc'[t] = "pop_advance"
  BY DEF PopLoad, Goto, IInv, TypeOK
<1>2. Taken = 0 /\ Taken' = 1
  BY <1>1, TakenValue, PrimedFacts DEF Holding, TakenFacts
<1>3. count \in Nat \ {0} /\ count' = count /\ tail \in Nat /\ tail < Capacity /\ tail' = tail /\ data' = data
  BY CapacityAssumption DEF PopLoad, PopMustWait, ring, IInv, TypeOK, Slots
<1>4. Contents \in Seq(Items) /\ Len(Contents) = count
  BY <1>2, <1>3, ContentsIsSeq DEF ContentsFacts
<1>5. Contents' \in Seq(Items) /\ Len(Contents') = count - 1
  BY <1>2, <1>3, PrimedFacts DEF ContentsFacts
<1>6. Contents # << >>
  BY <1>3, <1>4
<1>7. Head(Contents) = data[tail]
  <2>1. tail % Capacity = tail
    BY <1>3, ModLow
  <2>2. Contents[1] = data[(tail + 0 + 1 - 1) % Capacity]
    BY <1>2, <1>3 DEF Contents
  <2> QED
    BY <1>3, <1>4, <1>6, <2>1, <2>2
<1>8. ASSUME NEW k \in 1 .. count - 1 PROVE Contents'[k] = Tail(Contents)[k]
  <2>1. Contents'[k] = data[(tail + 1 + k - 1) % Capacity]
    BY <1>2, <1>3 DEF Contents
  <2>2. Contents[k + 1] = data[(tail + 0 + (k + 1) - 1) % Capacity]
    BY <1>2, <1>3 DEF Contents
  <2>3. Tail(Contents)[k] = Contents[k + 1]
    BY <1>3, <1>4, <1>6, HeadTailProperties
  <2>4. tail + 1 + k - 1 = tail + 0 + (k + 1) - 1
    BY <1>3
  <2> QED
    BY <2>1, <2>2, <2>3, <2>4
<1>9. Tail(Contents) \in Seq(Items) /\ Len(Tail(Contents)) = count - 1
  BY <1>4, <1>6, HeadTailProperties
<1> QED
  BY <1>5, <1>6, <1>7, <1>8, <1>9, SeqEqual

\* Two positions less than a capacity apart are different slots.
LEMMA ModDistinct ==
  ASSUME NEW a \in Nat, NEW b \in Nat, a < b, b < a + Capacity, b < 2 * Capacity
  PROVE  a % Capacity # b % Capacity
<1> USE CapacityAssumption
<1>1. CASE b < Capacity
  BY <1>1, ModLow
<1>2. CASE b >= Capacity /\ a < Capacity
  BY <1>2, ModLow, ModHigh
<1>3. CASE a >= Capacity
  BY <1>3, ModHigh
<1> QED
  BY <1>1, <1>2, <1>3

\* Storing the record changes no slot between tail and head.
LEMMA StoreStep ==
  ASSUME IInv, IInv', NEW t \in Threads, PushStore(t)
  PROVE  Contents' = Contents
<1>1. pc[t] = "push_test" /\ pc'[t] = "push_publish"
  BY DEF PushStore, Goto, IInv, TypeOK
<1>2. Taken = 0 /\ Taken' = 0
  BY <1>1, TakenValue, PrimedFacts DEF Holding, TakenFacts
<1>3. /\ count \in Nat /\ count < Capacity /\ count' = count
      /\ tail \in Nat /\ tail < Capacity /\ tail' = tail
      /\ head = (tail + count) % Capacity
      /\ data \in [Slots -> Items \cup {NoItem}]
      /\ data' = [data EXCEPT ![head] = item[t]]
  BY CapacityAssumption DEF PushStore, PushMustWait, IInv, TypeOK, RingConsistent, Slots
<1>4. ASSUME NEW k \in 1 .. count
      PROVE  data'[(tail + 0 + k - 1) % Capacity] = data[(tail + 0 + k - 1) % Capacity]
  <2> DEFINE a == tail + 0 + k - 1
  <2>1. a \in Nat /\ a < tail + count /\ tail + count < a + Capacity /\ a < 2 * Capacity
        /\ tail + count \in Nat /\ tail + count < 2 * Capacity
    BY <1>3, CapacityAssumption
  <2>2. a % Capacity \in Slots
    BY <2>1, ModRange
  <2>3. a % Capacity # (tail + count) % Capacity
    BY <2>1, ModDistinct
  <2> QED
    BY <1>3, <2>2, <2>3
<1>5. /\ Contents = [k \in 1 .. count |-> data[(tail + 0 + k - 1) % Capacity]]
      /\ Contents' = [k \in 1 .. count |-> data'[(tail + 0 + k - 1) % Capacity]]
  <2>1. count - 0 = count
    BY <1>3
  <2>2. count' = count /\ tail' = tail
    BY <1>3
  <2> QED
    BY <1>2, <2>1, <2>2 DEF Contents
<1> QED
  BY <1>4, <1>5

\* Advancing tail past the record already copied out.
LEMMA AdvanceStep ==
  ASSUME IInv, IInv', NEW t \in Threads, PopAdvance(t)
  PROVE  Contents' = Contents
<1>1. pc[t] = "pop_advance" /\ pc'[t] = "ret_true"
  BY SignalEffect DEF PopAdvance, Signalled, IInv, TypeOK, ControlPoints, AfterLock
<1>2. Taken = 1 /\ Taken' = 0
  BY <1>1, TakenValue, PrimedFacts DEF Holding, TakenFacts
<1>3. /\ count \in Nat \ {0} /\ count <= Capacity /\ count' = count - 1
      /\ tail \in Nat /\ tail < Capacity /\ tail' = (tail + 1) % Capacity
      /\ data' = data
  BY <1>1, CapacityAssumption DEF PopAdvance, IInv, TypeOK, LocalInv, Slots
<1>4. ASSUME NEW k \in 1 .. count - 1
      PROVE  (tail' + 0 + k - 1) % Capacity = (tail + 1 + k - 1) % Capacity
  <2>1. CASE tail + 1 = Capacity
    <3>1. tail' = 0
      BY <1>3, <2>1, ModHigh, CapacityAssumption
    <3>2. (0 + 0 + k - 1) % Capacity = k - 1
      <4>1. 0 + 0 + k - 1 \in Nat /\ 0 + 0 + k - 1 < Capacity
        BY <1>3, CapacityAssumption
      <4> QED
        BY <4>1, ModLow
    <3>3. (Capacity + k - 1) % Capacity = k - 1
      BY <1>3, ModHigh, CapacityAssumption
    <3> QED
      BY <2>1, <3>1, <3>2, <3>3
  <2>2. CASE tail + 1 < Capacity
    <3>1. tail' = tail + 1
      BY <1>3, <2>2, ModLow
    <3>2. tail + 1 + 0 + k - 1 = tail + 1 + k - 1
      BY <1>3
    <3> QED
      BY <3>1, <3>2
  <2> QED
    BY <1>3, <2>1, <2>2, CapacityAssumption
<1> QED
  BY <1>2, <1>3, <1>4 DEF Contents

\* A step that moves nobody to or from pop_advance keeps the contents.
LEMMA ContentsKept ==
  ASSUME UNCHANGED ring,
         \A u \in Threads : pc'[u] = "pop_advance" <=> pc[u] = "pop_advance"
  PROVE  Contents' = Contents
<1>1. At({"pop_advance"})' = At({"pop_advance"})
  BY DEF At
<1> QED
  BY <1>1 DEF Contents, Taken, ring

\* A buffer that was just initialised is an empty open queue.
LEMMA InitRefines == Init => Queue!Init
<1> SUFFICES ASSUME Init PROVE Queue!Init
  OBVIOUS
<1>1. Contents = << >>
  <2>1. IInv
    BY InitIInv
  <2>2. Contents \in Seq(Items) /\ Len(Contents) = 0
    BY <2>1, ContentsIsSeq DEF Init, ContentsFacts, Taken, At
  <2> QED
    BY <2>2
<1>2. Phases = [t \in Threads |-> "idle"]
  BY DEF Init, Phases, PhaseOf
<1> QED
  BY <1>1, <1>2 DEF Init, Queue!Init, Queue!Threads, Threads

\* Every step of buffer.c is a step of the abstract queue or changes nothing
\* in it.
LEMMA StepRefines == IInv /\ IInv' /\ [Next]_vars => [Queue!Next]_(Queue!vars)
<1> SUFFICES ASSUME IInv, IInv', [Next]_vars PROVE Queue!Next \/ UNCHANGED Queue!vars
  OBVIOUS
<1>0. pc \in [Threads -> ControlPoints]
  BY DEF IInv, TypeOK
<1> USE DEF Goto, ring
<1>1. ASSUME NEW t \in Producers, NEW v \in Items, buffer_push(t, v) PROVE Queue!InvokePush(t, v)
  <2>1. t \in Threads /\ Contents' = Contents
    BY <1>0, <1>1, ContentsKept DEF buffer_push, Threads
  <2>2. Phases' = [Phases EXCEPT ![t] = "push"]
    BY <1>0, <1>1, <2>1, PhaseStep DEF buffer_push, PhaseOf
  <2>3. Phases[t] = "idle"
    BY <1>1, <2>1 DEF buffer_push, Phases, PhaseOf
  <2> QED
    BY <1>1, <2>1, <2>2, <2>3 DEF buffer_push, Queue!InvokePush, Queue!Become
<1>2. ASSUME NEW t \in Threads, NEW l \in DOMAIN AfterLock, Call(t, l) PROVE Queue!Invoke(t, PhaseOf(l))
  <2>1. Contents' = Contents
    BY <1>0, <1>2, ContentsKept DEF Call, AfterLock
  <2>2. Phases' = [Phases EXCEPT ![t] = PhaseOf(l)]
    BY <1>0, <1>2, PhaseStep DEF Call
  <2>3. Phases[t] = "idle"
    BY <1>2 DEF Call, Phases, PhaseOf
  <2> QED
    BY <1>2, <2>1, <2>2, <2>3 DEF Call, Queue!Invoke, Queue!Become
<1>3. ASSUME NEW t \in Threads, SpuriousWakeup(t) PROVE UNCHANGED Queue!vars
  <2>1. Contents' = Contents
    BY <1>0, <1>3, ContentsKept DEF SpuriousWakeup
  <2>2. Phases' = Phases
    BY <1>0, <1>3 DEF SpuriousWakeup, Phases, PhaseOf
  <2> QED
    BY <1>3, <2>1, <2>2 DEF SpuriousWakeup, Queue!vars
<1>4. ASSUME NEW t \in Threads, pthread_mutex_lock(t) PROVE UNCHANGED Queue!vars
  <2>1. Contents' = Contents
    BY <1>0, <1>4, ContentsKept DEF pthread_mutex_lock, AfterLock
  <2>2. Phases' = Phases
    BY <1>0, <1>4 DEF pthread_mutex_lock, AfterLock, Phases, PhaseOf
  <2> QED
    BY <1>4, <2>1, <2>2 DEF pthread_mutex_lock, Queue!vars
<1>5. ASSUME NEW t \in Threads, PushWait(t) PROVE UNCHANGED Queue!vars
  <2>1. Contents' = Contents
    BY <1>0, <1>5, ContentsKept DEF PushWait
  <2>2. Phases' = Phases
    BY <1>0, <1>5 DEF PushWait, Phases, PhaseOf
  <2> QED
    BY <1>5, <2>1, <2>2 DEF PushWait, Queue!vars
<1>6. ASSUME NEW t \in Threads, PushStore(t) PROVE UNCHANGED Queue!vars
  <2>1. Contents' = Contents
    BY <1>0, <1>6, StoreStep DEF PushStore
  <2>2. Phases' = Phases
    BY <1>0, <1>6 DEF PushStore, Phases, PhaseOf
  <2> QED
    BY <1>6, <2>1, <2>2 DEF PushStore, Queue!vars
<1>7. ASSUME NEW t \in Threads, PopWait(t) PROVE UNCHANGED Queue!vars
  <2>1. Contents' = Contents
    BY <1>0, <1>7, ContentsKept DEF PopWait
  <2>2. Phases' = Phases
    BY <1>0, <1>7 DEF PopWait, Phases, PhaseOf
  <2> QED
    BY <1>7, <2>1, <2>2 DEF PopWait, Queue!vars
<1>8. ASSUME NEW t \in Threads, PopAdvance(t) PROVE UNCHANGED Queue!vars
  <2>1. Contents' = Contents
    BY <1>0, <1>8, AdvanceStep DEF PopAdvance
  <2>2. Phases' = Phases
    <3>1. Signalled(t, "push_wait", "push_lock")
      BY <1>0, <1>8, SignalEffect DEF PopAdvance, ControlPoints, AfterLock
    <3> QED
      BY <1>8, <3>1 DEF PopAdvance, Signalled, Phases, PhaseOf
  <2> QED
    BY <1>8, <2>1, <2>2 DEF PopAdvance, Queue!vars
<1>9. ASSUME NEW t \in Threads, PushRefused(t) PROVE t \in Producers /\ Queue!Refuse(t)
  <2>0. t \in Producers
    BY <1>9 DEF PushRefused, IInv, LocalInv, PushPoints
  <2>1. Contents' = Contents
    BY <1>0, <1>9, ContentsKept DEF PushRefused
  <2>2. Phases' = [Phases EXCEPT ![t] = "false"]
    BY <1>0, <1>9, PhaseStep DEF PushRefused, PhaseOf
  <2>3. Phases[t] = "push"
    BY <1>9 DEF PushRefused, Phases, PhaseOf
  <2> QED
    BY <2>0, <1>9, <2>1, <2>2, <2>3 DEF PushRefused, Queue!Refuse, Queue!Become
<1>10. ASSUME NEW t \in Threads, PopDrained(t) PROVE t \in Consumers /\ Queue!Drained(t)
  <2>0. t \in Consumers
    BY <1>10 DEF PopDrained, IInv, LocalInv, PopPoints
  <2>4. Contents = << >>
    <3>1. Taken = 0 /\ count = 0
      BY <1>10, TakenValue DEF PopDrained, TakenFacts, Holding
    <3>2. Contents \in Seq(Items) /\ Len(Contents) = 0
      BY <3>1, ContentsIsSeq DEF ContentsFacts
    <3> QED
      BY <3>2
  <2>1. Contents' = Contents
    BY <1>0, <1>10, ContentsKept DEF PopDrained
  <2>2. Phases' = [Phases EXCEPT ![t] = "false"]
    BY <1>0, <1>10, PhaseStep DEF PopDrained, PhaseOf
  <2>3. Phases[t] = "pop"
    BY <1>10 DEF PopDrained, Phases, PhaseOf
  <2> QED
    BY <2>0, <2>4, <1>10, <2>1, <2>2, <2>3 DEF PopDrained, Queue!Drained, Queue!Become
<1>11. ASSUME NEW t \in Threads, PushPublish(t) PROVE t \in Producers /\ Queue!Put(t)
  <2>0. t \in Producers
    BY <1>11 DEF PushPublish, IInv, LocalInv, PushPoints
  <2>1. Contents' = Append(Contents, item[t])
    BY <1>11, PutStep
  <2>4. Len(Contents) < Capacity /\ ~shutdown
    <3>1. Taken = 0 /\ count < Capacity /\ count \in Nat /\ ~shutdown
      BY <1>11, TakenValue, CapacityAssumption
         DEF PushPublish, TakenFacts, Holding, IInv, LocalInv, TypeOK
    <3>2. Len(Contents) = count - 0
      BY <3>1, ContentsIsSeq DEF ContentsFacts
    <3> QED
      BY <3>1, <3>2
  <2>2. Phases' = [Phases EXCEPT ![t] = "true"]
    <3>1. Signalled(t, "pop_wait", "pop_lock")
      BY <1>0, <1>11, SignalEffect DEF PushPublish, ControlPoints, AfterLock
    <3> QED
      BY <3>1, PhaseStep DEF Signalled, PhaseOf
  <2>3. Phases[t] = "push"
    BY <1>11 DEF PushPublish, Phases, PhaseOf
  <2> QED
    BY <2>0, <2>4, <1>11, <2>1, <2>2, <2>3 DEF PushPublish, Queue!Put, Queue!Become
<1>12. ASSUME NEW t \in Threads, PopLoad(t) PROVE t \in Consumers /\ Queue!Get(t)
  <2>0. t \in Consumers
    BY <1>12 DEF PopLoad, IInv, LocalInv, PopPoints
  <2>1. Contents # << >> /\ Contents' = Tail(Contents) /\ data[tail] = Head(Contents)
    BY <1>12, GetStep
  <2>2. Phases' = [Phases EXCEPT ![t] = "true"]
    BY <1>0, <1>12, PhaseStep DEF PopLoad, PhaseOf
  <2>3. Phases[t] = "pop"
    BY <1>12 DEF PopLoad, Phases, PhaseOf
  <2> QED
    BY <2>0, <1>12, <2>1, <2>2, <2>3 DEF PopLoad, Queue!Get, Queue!Become
<1>13. ASSUME NEW t \in Threads, ShutdownSet(t) PROVE Queue!Close(t)
  <2>1. Contents' = Contents
    BY <1>0, <1>13, ContentsKept DEF ShutdownSet, pthread_cond_broadcast
  <2>2. Phases' = [Phases EXCEPT ![t] = "true"]
    BY <1>0, <1>13, PhaseStep DEF ShutdownSet, pthread_cond_broadcast, PhaseOf
  <2>3. Phases[t] = "shutdown"
    BY <1>13 DEF ShutdownSet, Phases, PhaseOf
  <2> QED
    BY <1>13, <2>1, <2>2, <2>3 DEF ShutdownSet, Queue!Close, Queue!Become
<1>14. ASSUME NEW t \in Threads, QueryRead(t) PROVE Queue!Query(t)
  <2>1. Contents' = Contents
    BY <1>0, <1>14, ContentsKept DEF QueryRead
  <2>2. Phases' = [Phases EXCEPT ![t] = (IF shutdown THEN "true" ELSE "false")]
    BY <1>0, <1>14, PhaseStep DEF QueryRead, PhaseOf
  <2>3. Phases[t] = "query"
    BY <1>14 DEF QueryRead, Phases, PhaseOf
  <2> QED
    BY <1>14, <2>1, <2>2, <2>3 DEF QueryRead, Queue!Query, Queue!Become
<1>15. ASSUME NEW t \in Threads, UnlockAndReturn(t) PROVE Queue!Return(t)
  <2>1. Contents' = Contents
    BY <1>0, <1>15, ContentsKept DEF UnlockAndReturn
  <2>2. Phases' = [Phases EXCEPT ![t] = "idle"]
    BY <1>0, <1>15, PhaseStep DEF UnlockAndReturn, PhaseOf
  <2>3. Phases[t] = IF pc[t] = "ret_true" THEN "true" ELSE "false"
    BY <1>15 DEF UnlockAndReturn, Phases, PhaseOf
  <2> QED
    BY <1>15, <2>1, <2>2, <2>3 DEF UnlockAndReturn, Queue!Return, Queue!Become
<1>16. CASE UNCHANGED vars
  <2>1. Contents' = Contents
    BY <1>16, ContentsKept DEF vars
  <2>2. Phases' = Phases
    BY <1>16 DEF vars, Phases
  <2> QED
    BY <1>16, <2>1, <2>2 DEF vars, Queue!vars
<1>17. /\ PhaseOf("pop_lock") = "pop"
       /\ PhaseOf("shutdown_lock") = "shutdown"
       /\ PhaseOf("query_lock") = "query"
       /\ {"pop_lock", "shutdown_lock", "query_lock"} \subseteq DOMAIN AfterLock
       /\ Consumers \subseteq Threads
       /\ Queue!Threads = Threads
  BY DEF PhaseOf, AfterLock, Threads, Queue!Threads
<1>18. CASE Next
  <2>1. CASE \E t \in Producers, v \in Items : buffer_push(t, v)
    BY <1>1, <2>1 DEF Queue!Next
  <2>2. CASE \E t \in Consumers : Call(t, "pop_lock")
    BY <1>2, <1>17, <2>2 DEF Queue!Next
  <2>3. CASE \E t \in Threads : Call(t, "shutdown_lock") \/ Call(t, "query_lock")
    BY <1>2, <1>17, <2>3 DEF Queue!Next
  <2>4. CASE \E t \in Threads : SpuriousWakeup(t)
    BY <1>3, <2>4
  <2>5. CASE \E t \in Threads : Step(t)
    BY <1>4, <1>5, <1>6, <1>7, <1>8, <1>9, <1>10, <1>11, <1>12, <1>13, <1>14,
       <1>15, <1>17, <2>5 DEF Step, PushStep, PopStep, Queue!Next
  <2> QED
    BY <1>18, <2>1, <2>2, <2>3, <2>4, <2>5 DEF Next
<1> QED
  BY <1>16, <1>18

\* buffer.c implements the closable bounded FIFO queue of BoundedQueue, for
\* every capacity and all sets of producer and consumer threads.
THEOREM Refinement == Spec => ImplementsQueue
<1>1. Init => Queue!Init
  BY InitRefines
<1>2. IInv /\ IInv' /\ [Next]_vars => [Queue!Next]_(Queue!vars)
  BY StepRefines
<1>3. Spec => []IInv
  BY Inductive, PTL
<1> QED
  BY <1>1, <1>2, <1>3, PTL DEF Spec, ImplementsQueue, Queue!Spec
=============================================================================
