---------------------------- MODULE EngineProofs ----------------------------
(***************************************************************************)
(* The process of main.cpp for all replies, capacities, sizes of the arena *)
(* and maps from places to cells.  It runs the ingestion thread as         *)
(* Ingestion has it and the arena as RecentWindow has it, so that all that *)
(* is proved of either holds in the process; no record is lost or doubled  *)
(* between buffer_push and the end of an iteration of main's loop; and the *)
(* arena shows what the feeds said.                                        *)
(***************************************************************************)
EXTENDS Engine, FiniteSetTheorems, SequenceTheorems, TLAPS

-----------------------------------------------------------------------------
(***************************************************************************)
(* The safety of the ingestion thread for all replies of the server, all   *)
(* capacities of the buffer and any behaviour of the other threads.  The   *)
(* inductive invariant adds to the properties where the current reply is   *)
(* used, that a block of some size is there, and that a download without   *)
(* data is one the bound MaxLeaks allows for.                              *)
(***************************************************************************)

\* The records that a reply can lead to.
Feeds == {r.feed : r \in {r \in Replies : r.feed # Garbage}}
FeedRecords ==
    UNION {{Flatten(f[k]) : k \in {k \in 1 .. Len(f) : HasPosition(f[k])}} : f \in Feeds}

Walking == {"entities", "release"}
Idle == {"check", "fetch", "sleep", "done"}

LocalInv ==
    /\ queue \in Seq(FeedRecords)
    /\ pushed \in Seq(FeedRecords)
    /\ i \in Nat \ {0}
    /\ pc \in {"download", "aborted"} \cup Parsing => reply \in Replies
    /\ pc \in Walking => reply.feed # Garbage
    /\ pc \in Idle => size = 0
    /\ pc = "download" /\ size > 0 => payload
    /\ pc = "download" /\ reply.chunks = 0 => leaked < MaxLeaks
    /\ pc = "release" => i <= Len(reply.feed) + 1

IInv == TypeOK /\ HeapDiscipline /\ FeedInOrder /\ LocalInv

\* A feed that decodes is a sequence of entities.
LEMMA FeedIsSeq ==
  ASSUME reply \in Replies, reply.feed # Garbage
  PROVE  /\ Len(reply.feed) \in Nat
         /\ \A k \in 1 .. Len(reply.feed) :
              HasPosition(reply.feed[k]) => Flatten(reply.feed[k]) \in FeedRecords
<1>1. reply.feed \in Seq({reply.feed[k] : k \in DOMAIN reply.feed})
  BY RepliesAssumption
<1>2. reply.feed \in Feeds
  BY DEF Feeds
<1> QED
  BY <1>2 DEF FeedRecords

\* Passing one entity moves the places of the following records by one if it has
\* a position, and else not at all.
LEMMA RankStep ==
  ASSUME NEW feed, NEW n \in Nat
  PROVE  /\ Rank(feed, n) \in Nat
         /\ Rank(feed, n + 1) = Rank(feed, n) + (IF HasPosition(feed[n + 1]) THEN 1 ELSE 0)
<1> DEFINE P(m) == {j \in 1 .. m : HasPosition(feed[j])}
<1>1. IsFiniteSet(1 .. n)
  BY FS_Interval
<1>2. IsFiniteSet(P(n)) /\ Cardinality(P(n)) \in Nat
  BY <1>1, FS_Subset, FS_CardinalityType
<1>3. n + 1 \notin P(n)
  OBVIOUS
<1>4. CASE HasPosition(feed[n + 1])
  <2>1. P(n + 1) = P(n) \cup {n + 1}
    BY <1>4
  <2>2. Cardinality(P(n) \cup {n + 1}) = Cardinality(P(n)) + 1
    BY <1>2, FS_AddElement
  <2> QED
    BY <1>2, <2>2 DEF Rank
<1>5. CASE ~HasPosition(feed[n + 1])
  <2>1. P(n + 1) = P(n)
    BY <1>5
  <2>2. Rank(feed, n + 1) = Rank(feed, n)
    BY <2>1 DEF Rank
  <2> QED
    BY <1>2, <1>5, <2>2 DEF Rank
<1> QED
  BY <1>4, <1>5

\* No record stands beyond the last place.
LEMMA RankMonotone ==
  ASSUME NEW feed, NEW n \in Nat, NEW k \in 1 .. n, HasPosition(feed[k])
  PROVE  Rank(feed, k) \in 1 .. Rank(feed, n)
<1> DEFINE P(m) == {j \in 1 .. m : HasPosition(feed[j])}
<1>1. IsFiniteSet(1 .. n) /\ IsFiniteSet(1 .. k)
  BY FS_Interval
<1>2. P(k) \subseteq P(n) /\ k \in P(k)
  OBVIOUS
<1>3. IsFiniteSet(P(n)) /\ IsFiniteSet(P(k))
  BY <1>1, FS_Subset
<1>4. Cardinality(P(k)) \in Nat /\ Cardinality(P(n)) \in Nat
  BY <1>3, FS_CardinalityType
<1>5. Cardinality(P(k)) <= Cardinality(P(n))
  BY <1>3, FS_Subset
<1>6. Cardinality(P(k)) # 0
  BY <1>3, FS_EmptySet
<1> QED
  BY <1>4, <1>5, <1>6 DEF Rank

\* Passing an entity without a position adds no record.
LEMMA SkipKeepsOrder ==
  ASSUME NEW feed, NEW n \in Nat, NEW records, RecordsOf(records, feed, n),
         ~HasPosition(feed[n + 1])
  PROVE  RecordsOf(records, feed, n + 1)
<1>1. Rank(feed, n + 1) = Rank(feed, n)
  BY RankStep
<1>2. \A k \in 1 .. n + 1 : k \in 1 .. n \/ k = n + 1
  OBVIOUS
<1> QED
  BY <1>1 DEF RecordsOf

\* Pushing the record of an entity with a position puts it at its place.
LEMMA PushKeepsOrder ==
  ASSUME NEW S, NEW feed, NEW n \in Nat, NEW records \in Seq(S),
         RecordsOf(records, feed, n), HasPosition(feed[n + 1]),
         Flatten(feed[n + 1]) \in S
  PROVE  RecordsOf(Append(records, Flatten(feed[n + 1])), feed, n + 1)
<1> DEFINE new == Append(records, Flatten(feed[n + 1]))
<1>1. Rank(feed, n) \in Nat /\ Rank(feed, n + 1) = Rank(feed, n) + 1
  BY RankStep
<1>2. Len(records) = Rank(feed, n)
  BY DEF RecordsOf
<1>3. Len(new) = Rank(feed, n + 1)
  BY <1>1, <1>2
<1>4. ASSUME NEW k \in 1 .. n + 1, HasPosition(feed[k])
      PROVE  new[Rank(feed, k)] = Flatten(feed[k])
  <2>1. CASE k = n + 1
    BY <1>1, <1>2, <2>1
  <2>2. CASE k \in 1 .. n
    <3>1. Rank(feed, k) \in 1 .. Len(records)
      BY <1>2, <1>4, <2>2, RankMonotone
    <3>2. records[Rank(feed, k)] = Flatten(feed[k])
      BY <1>4, <2>2 DEF RecordsOf
    <3>3. new[Rank(feed, k)] = records[Rank(feed, k)]
      BY <3>1
    <3> QED
      BY <3>2, <3>3
  <2>3. k = n + 1 \/ k \in 1 .. n
    OBVIOUS
  <2> QED
    BY <2>1, <2>2, <2>3
<1> QED
  BY <1>3, <1>4 DEF RecordsOf

\* The number of chunks of a reply is a natural number, and 0 for no reply.
LEMMA Chunks ==
  /\ \A r \in Replies \cup {NoReply} : r.chunks \in Nat /\ 0 \in 0 .. r.chunks
  /\ NoReply.chunks = 0
<1>1. NoReply.chunks = 0
  BY DEF NoReply
<1>2. \A r \in Replies : r.chunks \in Nat
  BY RepliesAssumption
<1> QED
  BY <1>1, <1>2

\* What main sets up satisfies the inductive invariant.
LEMMA InitIInv == Init => IInv
<1> SUFFICES ASSUME Init PROVE IInv
  OBVIOUS
<1>1. size \in 0 .. reply.chunks
  BY Chunks DEF Init
<1>2. TypeOK
  <2>1. leaked \in 0 .. MaxLeaks /\ Len(queue) <= Capacity
    BY CapacityAssumption, LeaksAssumption DEF Init
  <2> QED
    BY <1>1, <2>1 DEF Init, TypeOK
<1>3. HeapDiscipline /\ FeedInOrder
  BY DEF Init, HeapDiscipline, FeedInOrder, Parsing
<1>4. LocalInv
  BY DEF Init, LocalInv, Parsing, Walking
<1> QED
  BY <1>2, <1>3, <1>4 DEF IInv

\* Every step of the thread, the network, a consumer and the thread that asks
\* for a shutdown preserves the inductive invariant.
LEMMA StepIInv == IInv /\ [Next]_vars => IInv'
<1> SUFFICES ASSUME IInv, [Next]_vars PROVE IInv'
  OBVIOUS
<1> USE CapacityAssumption, LeaksAssumption
    DEF IInv, Parsing, Walking, Idle, heap, parser, ring
<1>a. reply.chunks \in Nat /\ 0 \in 0 .. reply.chunks /\ NoReply.chunks = 0
  BY Chunks DEF TypeOK
<1>b. pc \in Walking => /\ Len(reply.feed) \in Nat
                        /\ \A k \in 1 .. Len(reply.feed) :
                             HasPosition(reply.feed[k])
                               => Flatten(reply.feed[k]) \in FeedRecords
  BY FeedIsSeq DEF LocalInv
<1>1. CASE CheckShutdown
  BY <1>1 DEF CheckShutdown, TypeOK, HeapDiscipline, FeedInOrder, LocalInv
<1>2. CASE CurlInitFails
  BY <1>2 DEF CurlInitFails, TypeOK, HeapDiscipline, FeedInOrder, LocalInv
<1>3. ASSUME NEW r \in Replies, StartDownload(r) PROVE IInv'
  <2>0. size' \in 0 .. reply'.chunks
    BY <1>3, Chunks DEF StartDownload
  <2>1. TypeOK'
    BY <1>3, <2>0 DEF StartDownload, TypeOK
  <2>2. HeapDiscipline'
    BY <1>3 DEF StartDownload, HeapDiscipline
  <2>3. FeedInOrder'
    BY <1>3 DEF StartDownload, FeedInOrder
  <2>4. LocalInv'
    BY <1>3 DEF StartDownload, LocalInv
  <2> QED
    BY <2>1, <2>2, <2>3, <2>4
<1>4. CASE WriteMemoryCallback
  <2>1. TypeOK'
    BY <1>a, <1>4 DEF WriteMemoryCallback, TypeOK
  <2>2. HeapDiscipline'
    BY <1>4 DEF WriteMemoryCallback, HeapDiscipline
  <2>3. FeedInOrder'
    BY <1>4 DEF WriteMemoryCallback, FeedInOrder
  <2>4. LocalInv'
    BY <1>4 DEF WriteMemoryCallback, LocalInv
  <2> QED
    BY <2>1, <2>2, <2>3, <2>4
<1>5. CASE WriteMemoryCallbackFails
  BY <1>5 DEF WriteMemoryCallbackFails, TypeOK, HeapDiscipline, FeedInOrder, LocalInv
<1>6. CASE DownloadFails
  <2>0. size' \in 0 .. reply'.chunks
    BY <1>a, <1>6 DEF DownloadFails
  <2>1. TypeOK'
    BY <1>6, <2>0 DEF DownloadFails, TypeOK
  <2>2. HeapDiscipline'
    BY <1>6 DEF DownloadFails, HeapDiscipline
  <2>3. FeedInOrder'
    BY <1>6 DEF DownloadFails, FeedInOrder
  <2>4. LocalInv'
    BY <1>6 DEF DownloadFails, LocalInv
  <2> QED
    BY <2>1, <2>2, <2>3, <2>4
<1>7. CASE DownloadDone
  <2>0. leaked' \in 0 .. MaxLeaks /\ (pc' = "sleep" => size' = 0)
    BY <1>7 DEF DownloadDone, TypeOK, LocalInv
  <2>1. TypeOK'
    BY <1>7, <2>0 DEF DownloadDone, TypeOK
  <2>2. HeapDiscipline'
    BY <1>7 DEF DownloadDone, HeapDiscipline
  <2>3. FeedInOrder'
    BY <1>7 DEF DownloadDone, FeedInOrder
  <2>4. LocalInv'
    BY <1>7, <2>0 DEF DownloadDone, LocalInv
  <2> QED
    BY <2>1, <2>2, <2>3, <2>4
<1>8. CASE UnpackFails
  BY <1>8 DEF UnpackFails, TypeOK, HeapDiscipline, FeedInOrder, LocalInv
<1>9. CASE Unpack
  <2>0. RecordsOf(<< >>, reply.feed, 0)
    BY FS_EmptySet DEF RecordsOf, Rank
  <2>1. TypeOK'
    BY <1>9 DEF Unpack, TypeOK
  <2>2. HeapDiscipline'
    BY <1>9 DEF Unpack, HeapDiscipline
  <2>3. FeedInOrder'
    BY <1>9, <2>0 DEF Unpack, FeedInOrder
  <2>4. LocalInv'
    BY <1>9 DEF Unpack, LocalInv
  <2> QED
    BY <2>1, <2>2, <2>3, <2>4
<1>10. CASE SkipEntity
  <2>1. TypeOK'
    BY <1>10 DEF SkipEntity, TypeOK, AtEntity
  <2>2. HeapDiscipline'
    BY <1>10 DEF SkipEntity, HeapDiscipline
  <2>3. FeedInOrder'
    <3>1. RecordsOf(pushed, reply.feed, i - 1)
      BY <1>10 DEF SkipEntity, AtEntity, FeedInOrder
    <3>2. i - 1 \in Nat /\ (i - 1) + 1 = i
      BY DEF LocalInv
    <3>3. RecordsOf(pushed, reply.feed, i)
      BY <1>10, <3>1, <3>2, SkipKeepsOrder DEF SkipEntity, Entity
    <3> QED
      BY <1>10, <3>2, <3>3 DEF SkipEntity, FeedInOrder
  <2>4. LocalInv'
    BY <1>10 DEF SkipEntity, LocalInv, AtEntity
  <2> QED
    BY <2>1, <2>2, <2>3, <2>4
<1>11. CASE PushEntity
  <2>1. TypeOK'
    BY <1>11 DEF PushEntity, TypeOK, HeapDiscipline, AtEntity
  <2>2. HeapDiscipline'
    BY <1>11 DEF PushEntity, HeapDiscipline
  <2>3. FeedInOrder'
    <3>1. RecordsOf(pushed, reply.feed, i - 1)
      BY <1>11 DEF PushEntity, AtEntity, FeedInOrder
    <3>2. i - 1 \in Nat /\ (i - 1) + 1 = i
      BY DEF LocalInv
    <3>3. RecordsOf(Append(pushed, Flatten(reply.feed[i])), reply.feed, i)
      <4>1. Flatten(reply.feed[i]) \in FeedRecords
        <5>1. pc \in Walking /\ i \in Nat \ {0} /\ i <= Len(reply.feed)
              /\ HasPosition(reply.feed[i])
          BY <1>11 DEF PushEntity, AtEntity, Entity, LocalInv
        <5> QED
          BY <1>b, <5>1
      <4> QED
        BY <1>11, <3>1, <3>2, <4>1, PushKeepsOrder DEF PushEntity, Entity, LocalInv
    <3> QED
      BY <1>11, <3>2, <3>3 DEF PushEntity, Entity, FeedInOrder
  <2>4. LocalInv'
    BY <1>b, <1>11 DEF PushEntity, LocalInv, AtEntity, Entity
  <2> QED
    BY <2>1, <2>2, <2>3, <2>4
<1>12. CASE PushRefused
  <2>1. TypeOK'
    BY <1>12 DEF PushRefused, TypeOK
  <2>2. HeapDiscipline'
    BY <1>12 DEF PushRefused, HeapDiscipline, AtEntity
  <2>3. FeedInOrder'
    BY <1>12 DEF PushRefused, FeedInOrder, AtEntity
  <2>4. LocalInv'
    BY <1>12 DEF PushRefused, LocalInv, AtEntity
  <2> QED
    BY <2>1, <2>2, <2>3, <2>4
<1>13. CASE EntitiesDone
  BY <1>13 DEF EntitiesDone, TypeOK, HeapDiscipline, FeedInOrder, LocalInv
<1>14. CASE FreeUnpacked
  BY <1>14 DEF FreeUnpacked, TypeOK, HeapDiscipline, FeedInOrder, LocalInv
<1>15. CASE FreePayload
  <2>0. size' \in 0 .. reply'.chunks
    BY <1>a, <1>15 DEF FreePayload
  <2>1. TypeOK'
    BY <1>15, <2>0 DEF FreePayload, TypeOK
  <2>2. HeapDiscipline'
    BY <1>15 DEF FreePayload, HeapDiscipline
  <2>3. FeedInOrder'
    BY <1>15 DEF FreePayload, FeedInOrder
  <2>4. LocalInv'
    BY <1>15 DEF FreePayload, LocalInv
  <2> QED
    BY <2>1, <2>2, <2>3, <2>4
<1>16. CASE Wake
  <2>1. TypeOK'
    BY <1>a, <1>16 DEF Wake, TypeOK, LocalInv
  <2>2. HeapDiscipline'
    BY <1>16 DEF Wake, HeapDiscipline
  <2>3. FeedInOrder'
    BY <1>16 DEF Wake, FeedInOrder
  <2>4. LocalInv'
    BY <1>16 DEF Wake, LocalInv
  <2> QED
    BY <2>1, <2>2, <2>3, <2>4
<1>17. CASE Pop
  BY <1>17 DEF Pop, TypeOK, HeapDiscipline, FeedInOrder, LocalInv
<1>18. CASE SignalShutdown
  BY <1>18 DEF SignalShutdown, TypeOK, HeapDiscipline, FeedInOrder, LocalInv
<1>19. CASE UNCHANGED vars
  BY <1>19 DEF vars, TypeOK, HeapDiscipline, FeedInOrder, LocalInv
<1> QED
  BY <1>1, <1>2, <1>3, <1>4, <1>5, <1>6, <1>7, <1>8, <1>9, <1>10, <1>11, <1>12,
     <1>13, <1>14, <1>15, <1>16, <1>17, <1>18, <1>19
     DEF Next, LocalStep, NetworkStep, Finished

\* Hence it holds in every reachable state.
LEMMA Inductive == Spec => []IInv
BY InitIInv, StepIInv, PTL DEF Spec

\* No download exceeds its reply, no walk runs past its feed and no push exceeds
\* the buffer's capacity.
THEOREM IngestionTypeCorrect == Spec => []TypeOK
<1>1. IInv => TypeOK
  BY DEF IInv
<1> QED
  BY <1>1, Inductive, PTL

\* fetcher.c, parser.c and ingestion_thread use the payload and the message only
\* while they exist and give both up on every path.
THEOREM HeapSafe == Spec => []HeapDiscipline
<1>1. IInv => HeapDiscipline
  BY DEF IInv
<1> QED
  BY <1>1, Inductive, PTL

\* The buffer receives each feed complete and in order, whatever the feed and
\* however often buffer_push had to wait.
THEOREM FeedOrdered == Spec => []FeedInOrder
<1>1. IInv => FeedInOrder
  BY DEF IInv
<1> QED
  BY <1>1, Inductive, PTL

-----------------------------------------------------------------------------
(* The process. *)

\* The number of records in main's hands.
InHand == IF main \in {"filter", "update"} THEN 1 ELSE 0

\* NothingLost, position by position.
Accounted ==
    /\ accepted \in Seq(FeedRecords)
    /\ handled \in Nat
    /\ Len(accepted) = handled + InHand + Len(queue)
    /\ InHand = 1 => popped_bus = accepted[handled + 1]
    /\ \A k \in 1 .. Len(queue) : queue[k] = accepted[handled + InHand + k]

-----------------------------------------------------------------------------
\* A step of the process is a step of the thread, a pop of its buffer, or
\* invisible to it.
LEMMA StepIsIngestionStep == [EngineNext]_engineVars => [Next]_vars
<1> SUFFICES ASSUME [EngineNext]_engineVars PROVE [Next]_vars
  OBVIOUS
<1>1. CASE InThread(LocalStep)
  BY <1>1 DEF InThread, Next
<1>2. CASE InThread(NetworkStep)
  BY <1>2 DEF InThread, Next
<1>3. CASE PopRecord
  BY <1>3 DEF PopRecord, Next
<1>4. CASE MainStep /\ ~PopRecord
  BY <1>4
     DEF MainStep, BufferInitFails, BufferInit, CreateThread, PassOver, CallUpdate,
         UpdateRecords, UpdateReturns
<1>5. CASE UNCHANGED engineVars
  BY <1>5 DEF engineVars
<1> QED
  BY <1>1, <1>2, <1>3, <1>4, <1>5 DEF EngineNext

\* The composition implements its component: seen from the thread and its buffer,
\* main.cpp behaves as Ingestion says, with main as the consumer.
THEOREM ProcessRunsIngestion == EngineSpec => Spec
<1>1. EngineInit => Init
  BY DEF EngineInit
<1> QED
  BY <1>1, StepIsIngestionStep, PTL DEF EngineSpec, Spec

\* One step of the thread pushes one record into the buffer and takes note of it,
\* or leaves the buffer alone.
LEMMA ThreadEffect ==
  ASSUME IInv, LocalStep \/ NetworkStep
  PROVE  \/ \E r \in FeedRecords : queue' = Append(queue, r) /\ pushed' = Append(pushed, r)
         \/ queue' = queue /\ Len(pushed') <= Len(pushed)
<1> USE DEF ring, parser
<1>1. pushed \in Seq(FeedRecords) /\ queue \in Seq(FeedRecords)
  BY DEF IInv, LocalInv
<1>2. CASE PushEntity
  <2>1. /\ pc \in Walking /\ reply \in Replies /\ reply.feed # Garbage
        /\ i \in 1 .. Len(reply.feed)
    BY <1>2 DEF PushEntity, AtEntity, IInv, LocalInv, Walking, TypeOK
  <2>2. Flatten(reply.feed[i]) \in FeedRecords
    BY <1>2, <2>1, FeedIsSeq DEF PushEntity, Entity
  <2> QED
    BY <1>2, <2>2 DEF PushEntity, Entity
<1>3. CASE Unpack \/ Wake
  BY <1>3 DEF Unpack, Wake
<1>4. CASE \E r \in Replies : StartDownload(r)
  BY <1>4 DEF StartDownload
<1>5. CASE NetworkStep
  BY <1>5
     DEF NetworkStep, WriteMemoryCallback, WriteMemoryCallbackFails, DownloadFails,
         DownloadDone
<1>6. CASE CheckShutdown \/ CurlInitFails \/ DownloadFails \/ UnpackFails \/ SkipEntity
             \/ PushRefused \/ EntitiesDone \/ FreeUnpacked \/ FreePayload
  BY <1>6
     DEF CheckShutdown, CurlInitFails, DownloadFails, UnpackFails, SkipEntity, PushRefused,
         EntitiesDone, FreeUnpacked, FreePayload
<1> QED
  BY <1>2, <1>3, <1>4, <1>5, <1>6 DEF LocalStep

\* Every step of the process keeps account of the records.
LEMMA StepAccounted == IInv /\ Accounted /\ [EngineNext]_engineVars => Accounted'
<1> SUFFICES ASSUME IInv, Accounted, [EngineNext]_engineVars PROVE Accounted'
  OBVIOUS
<1>1. queue \in Seq(FeedRecords)
  BY DEF IInv, LocalInv
<1>2. ASSUME LocalStep \/ NetworkStep, UNCHANGED consumer,
             accepted' = IF Len(pushed') > Len(pushed)
                           THEN Append(accepted, pushed'[Len(pushed')]) ELSE accepted
      PROVE  Accounted'
  <2>1. UNCHANGED <<main, popped_bus, handled>>
    BY <1>2 DEF consumer
  <2>2. pushed \in Seq(FeedRecords) /\ Len(pushed) \in Nat
    BY DEF IInv, LocalInv
  <2>3. CASE queue' = queue /\ Len(pushed') <= Len(pushed)
    <3>1. accepted' = accepted
      BY <1>2, <2>3
    <3> QED
      BY <2>1, <2>3, <3>1 DEF Accounted, InHand
  <2>4. ASSUME NEW r \in FeedRecords, queue' = Append(queue, r), pushed' = Append(pushed, r)
        PROVE  Accounted'
    <3>1. accepted' = Append(accepted, r)
      BY <1>2, <2>4
    <3>2. InHand' = InHand /\ InHand \in {0, 1}
      BY <2>1 DEF InHand
    <3>3. /\ Len(accepted) \in Nat /\ Len(queue) \in Nat /\ handled \in Nat
          /\ Len(accepted) = handled + InHand + Len(queue)
      BY DEF Accounted
    <3>4. /\ accepted' \in Seq(FeedRecords)
          /\ Len(accepted') = Len(accepted) + 1
          /\ Len(queue') = Len(queue) + 1
      BY <2>4, <3>1 DEF Accounted
    <3>5. /\ \A k \in 1 .. Len(accepted) : accepted'[k] = accepted[k]
          /\ accepted'[Len(accepted) + 1] = r
          /\ \A k \in 1 .. Len(queue) : queue'[k] = queue[k]
          /\ queue'[Len(queue) + 1] = r
      BY <2>4, <3>1
    <3>6. ASSUME NEW k \in 1 .. Len(queue')
          PROVE  queue'[k] = accepted'[handled + InHand + k]
      <4>1. CASE k = Len(queue) + 1
        BY <3>2, <3>3, <3>5, <4>1
      <4>2. CASE k \in 1 .. Len(queue)
        <5>1. handled + InHand + k \in 1 .. Len(accepted)
          BY <3>2, <3>3, <4>2
        <5> QED
          BY <3>5, <4>2, <5>1 DEF Accounted
      <4> QED
        BY <3>4, <4>1, <4>2
    <3>7. InHand = 1 => popped_bus = accepted'[handled + 1]
      BY <3>5 DEF Accounted
    <3> QED
      BY <2>1, <3>2, <3>4, <3>6, <3>7 DEF Accounted
  <2> QED
    BY <1>2, <2>3, <2>4, ThreadEffect
<1>3. CASE PopRecord
  <2>1. /\ UNCHANGED <<accepted, handled>>
        /\ queue # << >> /\ queue' = Tail(queue) /\ popped_bus' = Head(queue)
        /\ InHand = 0 /\ InHand' = 1
    BY <1>3 DEF PopRecord, Pop, InHand
  <2>2. Len(queue) \in Nat \ {0} /\ handled \in Nat
    BY <2>1 DEF Accounted
  <2>3. /\ Len(queue') = Len(queue) - 1
        /\ \A k \in 1 .. Len(queue') : queue'[k] = queue[k + 1]
        /\ popped_bus' = queue[1]
    BY <2>1
  <2>4. \A k \in 1 .. Len(queue) : queue[k] = accepted[handled + k]
    BY <2>1 DEF Accounted
  <2>5. ASSUME NEW k \in 1 .. Len(queue')
        PROVE  queue'[k] = accepted[handled + 1 + k]
    <3>1. k + 1 \in 1 .. Len(queue) /\ handled + (k + 1) = handled + 1 + k
      BY <2>2, <2>3
    <3> QED
      BY <2>3, <2>4, <3>1
  <2>6. popped_bus' = accepted[handled + 1]
    BY <2>3, <2>4
  <2>7. accepted \in Seq(FeedRecords) /\ Len(accepted) = handled + 1 + Len(queue')
    BY <2>1, <2>2, <2>3 DEF Accounted
  <2> QED
    BY <2>1, <2>2, <2>5, <2>6, <2>7 DEF Accounted
<1>4. CASE PassOver \/ UpdateReturns
  BY <1>4 DEF PassOver, UpdateReturns, vars, Accounted, InHand
<1>5. CASE CallUpdate \/ UpdateRecords
  BY <1>5 DEF CallUpdate, UpdateRecords, vars, Accounted, InHand
<1>6. CASE BufferInitFails \/ BufferInit \/ CreateThread
  BY <1>6 DEF BufferInitFails, BufferInit, CreateThread, vars, Accounted, InHand
<1>7. CASE UNCHANGED engineVars
  BY <1>7 DEF engineVars, vars, consumer, Accounted, InHand
<1> QED
  BY <1>2, <1>3, <1>4, <1>5, <1>6, <1>7 DEF EngineNext, MainStep, InThread

\* The account, put together, is NothingLost.
LEMMA AccountedIsNothingLost ==
  ASSUME Accounted, queue \in Seq(FeedRecords)
  PROVE  NothingLost
<1> DEFINE done == SubSeq(accepted, 1, handled)
           hand == IF main \in {"filter", "update"} THEN <<popped_bus>> ELSE << >>
           all == done \o hand \o queue
<1>1. /\ accepted \in Seq(FeedRecords) /\ handled \in Nat /\ Len(queue) \in Nat
      /\ InHand \in {0, 1}
      /\ Len(accepted) = handled + InHand + Len(queue)
  BY DEF Accounted, InHand
<1>2. /\ done \in Seq(FeedRecords) /\ Len(done) = handled
      /\ \A k \in 1 .. handled : done[k] = accepted[k]
  BY <1>1
<1>3. /\ hand \in Seq(FeedRecords) /\ Len(hand) = InHand
      /\ InHand = 1 => hand[1] = accepted[handled + 1]
  <2>1. CASE InHand = 1
    <3>1. hand = <<accepted[handled + 1]>>
      BY <2>1 DEF Accounted, InHand
    <3>2. accepted[handled + 1] \in FeedRecords
      BY <1>1, <2>1
    <3> QED
      BY <2>1, <3>1, <3>2
  <2>2. CASE InHand = 0
    BY <2>2 DEF InHand
  <2> QED
    BY <1>1, <2>1, <2>2
<1> HIDE DEF done, hand
<1>4. /\ all \in Seq(FeedRecords) /\ Len(all) = Len(accepted)
      /\ \A k \in 1 .. handled : all[k] = done[k]
      /\ InHand = 1 => all[handled + 1] = hand[1]
      /\ \A k \in 1 .. Len(queue) : all[handled + InHand + k] = queue[k]
  <2> DEFINE mine == done \o hand
  <2>1. /\ mine \in Seq(FeedRecords) /\ Len(mine) = handled + InHand
        /\ \A k \in 1 .. handled : mine[k] = done[k]
        /\ InHand = 1 => mine[handled + 1] = hand[1]
    BY <1>2, <1>3
  <2>2. all = mine \o queue
    OBVIOUS
  <2> HIDE DEF mine, all
  <2>3. all \in Seq(FeedRecords) /\ Len(all) = Len(mine) + Len(queue)
    BY <2>1, <2>2, ConcatProperties
  <2>4. \A k \in 1 .. handled + InHand : all[k] = mine[k]
    BY <2>1, <2>2
  <2>5. \A k \in 1 .. Len(queue) : all[handled + InHand + k] = queue[k]
    BY <2>1, <2>2
  <2> QED
    BY <1>1, <2>1, <2>3, <2>4, <2>5
<1> HIDE DEF all
<1>5. ASSUME NEW k \in 1 .. Len(accepted)
      PROVE  all[k] = accepted[k]
  <2>1. CASE k <= handled
    BY <1>2, <1>4, <2>1
  <2>2. CASE InHand = 1 /\ k = handled + 1
    BY <1>3, <1>4, <2>2
  <2>3. CASE k > handled + InHand
    <3>1. k - (handled + InHand) \in 1 .. Len(queue)
      BY <1>1, <2>3
    <3>2. handled + InHand + (k - (handled + InHand)) = k
      BY <1>1
    <3> QED
      BY <1>4, <3>1, <3>2 DEF Accounted
  <2> QED
    BY <1>1, <2>1, <2>2, <2>3
<1>6. all = accepted
  BY <1>1, <1>4, <1>5
<1> QED
  BY <1>6 DEF NothingLost, all, hand, done

-----------------------------------------------------------------------------
(* The arena. *)

\* A number above all others makes each of them one older and is the first itself.
LEMMA AgesWithNewest ==
  ASSUME NEW R, IsFiniteSet(R), R \subseteq Nat, NEW n \in Nat, \A l \in R : l < n
  PROVE  /\ Cardinality(R) \in Nat
         /\ Cardinality(R \cup {n}) = Cardinality(R) + 1
         /\ Age(R \cup {n}, n) = 1
         /\ \A k \in R : Age(R, k) \in Nat \ {0} /\ Age(R \cup {n}, k) = Age(R, k) + 1
<1>1. n \notin R
  OBVIOUS
<1>2. Cardinality(R) \in Nat /\ Cardinality(R \cup {n}) = Cardinality(R) + 1
  BY <1>1, FS_AddElement, FS_CardinalityType
<1>3. Age(R \cup {n}, n) = 1
  <2>1. n >= n /\ \A l \in R : ~(l >= n)
    OBVIOUS
  <2>2. {l \in R \cup {n} : l >= n} = {n}
    BY <2>1
  <2> QED
    BY <2>2, FS_Singleton DEF Age
<1>4. ASSUME NEW k \in R
      PROVE  Age(R, k) \in Nat \ {0} /\ Age(R \cup {n}, k) = Age(R, k) + 1
  <2> DEFINE U == {l \in R : l >= k}
  <2>1. IsFiniteSet(U) /\ k \in U /\ n \notin U
    BY FS_Subset
  <2>2. {l \in R \cup {n} : l >= k} = U \cup {n}
    OBVIOUS
  <2>3. Cardinality(U) \in Nat /\ Cardinality(U \cup {n}) = Cardinality(U) + 1
    BY <2>1, FS_AddElement, FS_CardinalityType
  <2>4. Cardinality(U) # 0
    BY <2>1, FS_EmptySet
  <2> QED
    BY <2>2, <2>3, <2>4 DEF Age
<1> QED
  BY <1>2, <1>3, <1>4

\* A window that shows the records of R, newest first, shows those of R and n once
\* the sample of n is pushed.
LEMMA PushShowsNewest ==
  ASSUME NEW R, IsFiniteSet(R), R \subseteq Nat, NEW n \in Nat, \A l \in R : l < n,
         NEW w, Shows(w, R)
  PROVE  Shows(Arena!Pushed(w, SampleAt(n)), R \cup {n})
<1> DEFINE Q == R \cup {n}
           v == Arena!Pushed(w, SampleAt(n))
<1>1. /\ Cardinality(R) \in Nat /\ Cardinality(Q) = Cardinality(R) + 1
      /\ Age(Q, n) = 1
      /\ \A k \in R : Age(R, k) \in Nat \ {0} /\ Age(Q, k) = Age(R, k) + 1
  BY AgesWithNewest
<1> USE ArenaAssumption DEF Arena!Ages
<1>2. v[1] = SampleAt(n) /\ \A j \in 2 .. WindowSize : v[j] = w[j - 1]
  BY DEF Arena!Pushed
<1> HIDE DEF v
<1>3. \A k \in R : Age(Q, k) <= WindowSize => v[Age(Q, k)] = SampleAt(k)
  <2> SUFFICES ASSUME NEW k \in R, Age(Q, k) <= WindowSize PROVE v[Age(Q, k)] = SampleAt(k)
    OBVIOUS
  <2>1. v[Age(Q, k)] = w[Age(R, k)] /\ Age(R, k) <= WindowSize
    BY <1>1, <1>2
  <2> QED
    BY <2>1 DEF Shows
<1>4. v[Age(Q, n)] = SampleAt(n)
  BY <1>1, <1>2
<1>5. \A j \in Arena!Ages : j > Cardinality(Q) => v[j] = NoSample
  BY <1>1, <1>2 DEF Shows
<1> QED
  BY <1>3, <1>4, <1>5 DEF v, Shows

\* What main has told the arena: the call under way is that of the record in its hands.
Calling ==
    /\ main \in {"init", "create", "pop", "filter", "update", "exited"}
    /\ thread \in BOOLEAN
    /\ phase \in [{"main"} -> {"idle", "update", "stored"}]
    /\ DOMAIN arg = {"main"} /\ DOMAIN ret = {"main"}
    /\ owner \in [Arena!Buckets -> Nat] /\ DOMAIN recent = Arena!Buckets
    /\ main = "update" <=> phase["main"] # "idle"
    /\ main = "update" =>
         /\ ~Anonymous(popped_bus)
         /\ arg["main"] = [cell      |-> CellOf[popped_bus.position],
                           speed     |-> popped_bus.speed,
                           timestamp |-> popped_bus.timestamp]
    /\ phase["main"] = "stored" => arg["main"].cell # 0

\* The arena's part of ArenaMatchesFeed.
BucketRight(b) ==
    /\ IF FiledIn(b) = {} THEN owner[b] = 0 ELSE Run(b) # {}
    /\ Shows(recent[b], Run(b))
WindowsRight == \A b \in Arena!Buckets : BucketRight(b)

CountRight == total_processed = Cardinality(Counted)

\* A record that the thread pushed is at a place the map knows.
LEMMA Readings ==
  ASSUME NEW r \in FeedRecords
  PROVE  /\ r.position \in DOMAIN CellOf /\ CellOf[r.position] \in Nat
         /\ r.speed \in Int /\ r.timestamp \in Nat
<1>1. PICK f \in Feeds : r \in {Flatten(f[k]) : k \in {k \in 1 .. Len(f) : HasPosition(f[k])}}
  BY DEF FeedRecords
<1>2. PICK k \in 1 .. Len(f) : HasPosition(f[k]) /\ r = Flatten(f[k])
  BY <1>1
<1>3. PICK answer \in Replies : answer.feed # Garbage /\ f = answer.feed
  BY DEF Feeds
<1>4. k \in DOMAIN f
  <2>1. f \in Seq({f[j] : j \in DOMAIN f})
    BY <1>3, RepliesAssumption
  <2> QED
    BY <1>2, <2>1
<1> QED
  BY <1>2, <1>3, <1>4, ReadingsAssumption, CellsAssumption

LEMMA BucketExists ==
  ASSUME NEW c \in Nat
  PROVE  Arena!BucketOf(c) \in Arena!Buckets
BY ArenaAssumption DEF Arena!BucketOf, Arena!Buckets

\* The buckets' records are few enough to count.
LEMMA RunFinite ==
  ASSUME Accounted, NEW b
  PROVE  /\ IsFiniteSet(Run(b)) /\ Run(b) \subseteq FiledIn(b)
         /\ FiledIn(b) \subseteq Done /\ Done \subseteq Nat
<1>1. handled \in Nat
  BY DEF Accounted
<1>2. IsFiniteSet(Done) /\ Done \subseteq Nat
  BY <1>1, FS_Interval DEF Done
<1>3. Run(b) \subseteq FiledIn(b) /\ FiledIn(b) \subseteq Done
  BY DEF Run, FiledIn
<1> QED
  BY <1>2, <1>3, FS_Subset

\* A run is of one cell, that of its bucket.
LEMMA RunOfOneCell ==
  ASSUME Accounted, NEW b, NEW k \in Run(b)
  PROVE  k \in Nat /\ CellAt(k) = owner[b] /\ CellAt(k) # 0
<1>1. k \in Nat /\ k \in FiledIn(b) /\ k >= k
  BY RunFinite
<1> QED
  BY <1>1 DEF Run, FiledIn, Belongs

\* Storing a record of cell c finds a window that shows the run of c so far.
LEMMA WindowAsFound ==
  ASSUME Accounted, NEW b, BucketRight(b), NEW c \in Nat \ {0}
  PROVE  Shows(Arena!WindowFor(b, c), IF owner[b] = c THEN Run(b) ELSE {})
<1>1. CASE owner[b] = c
  BY <1>1 DEF BucketRight, Arena!WindowFor
<1>2. CASE owner[b] # c
  <2>1. \A j \in Arena!Ages : Arena!EmptyWindow[j] = NoSample
    BY DEF Arena!EmptyWindow, NoSample
  <2>2. ASSUME owner[b] = 0 PROVE \A j \in Arena!Ages : recent[b][j] = NoSample
    <3>1. Run(b) = {}
      BY <2>2, RunOfOneCell
    <3> QED
      BY <3>1, FS_EmptySet, ArenaAssumption DEF BucketRight, Shows, Arena!Ages
  <2>3. \A j \in Arena!Ages : Arena!WindowFor(b, c)[j] = NoSample
    BY <1>2, <2>1, <2>2 DEF Arena!WindowFor
  <2> QED
    BY <1>2, <2>3 DEF Shows
<1> QED
  BY <1>1, <1>2

\* A bucket whose records and content stay as they are stays right.
LEMMA BucketFrame ==
  ASSUME NEW b, BucketRight(b),
         FiledIn(b)' = FiledIn(b), owner'[b] = owner[b], recent'[b] = recent[b],
         \A k \in FiledIn(b) : accepted'[k] = accepted[k]
  PROVE  BucketRight(b)'
<1>1. \A k \in FiledIn(b) : CellAt(k)' = CellAt(k) /\ SampleAt(k)' = SampleAt(k)
  BY DEF CellAt, SampleAt
<1>2. Run(b)' = Run(b)
  BY <1>1 DEF Run
<1>3. Run(b) \subseteq FiledIn(b)
  BY DEF Run
<1> QED
  BY <1>1, <1>2, <1>3 DEF BucketRight, Shows, NoSample

\* A record that joins the bucket of its cell joins the run of that cell, or is
\* the first of a new one.
LEMMA RunGrows ==
  ASSUME Accounted, NEW b, BucketRight(b), NEW n \in Nat, \A l \in Done : l < n,
         accepted' = accepted, FiledIn(b)' = FiledIn(b) \cup {n},
         owner'[b] = CellAt(n)
  PROVE  Run(b)' = (IF owner[b] = CellAt(n) THEN Run(b) ELSE {}) \cup {n}
<1>1. \A k : CellAt(k)' = CellAt(k)
  BY DEF CellAt
<1>2. FiledIn(b) \subseteq Nat /\ \A l \in FiledIn(b) : l < n
  BY RunFinite
<1>3. Run(b)' = {k \in FiledIn(b) \cup {n} :
                   \A l \in FiledIn(b) \cup {n} : l >= k => CellAt(l) = CellAt(n)}
  BY <1>1 DEF Run
<1>4. n \in Run(b)'
  BY <1>2, <1>3
<1>5. CASE owner[b] = CellAt(n)
  BY <1>2, <1>3, <1>5 DEF Run
<1>6. CASE owner[b] # CellAt(n)
  <2> SUFFICES ASSUME NEW k \in FiledIn(b), k \in Run(b)' PROVE FALSE
    BY <1>3, <1>4, <1>6
  <2>1. PICK m \in Run(b) : TRUE
    BY DEF BucketRight
  <2>2. m \in FiledIn(b) /\ CellAt(m) = owner[b]
    BY <2>1, RunFinite, RunOfOneCell
  <2>3. CASE m >= k
    BY <1>3, <1>6, <2>2, <2>3
  <2>4. CASE ~(m >= k)
    <3>1. k >= m /\ k >= k
      BY <1>2, <2>2, <2>4
    <3>2. CellAt(k) = owner[b]
      BY <2>1, <3>1 DEF Run
    <3>3. CellAt(k) = CellAt(n)
      BY <1>3, <3>1
    <3> QED
      BY <1>6, <3>2, <3>3
  <2> QED
    BY <2>3, <2>4
<1> QED
  BY <1>5, <1>6

\* update puts the record in main's hands into the bucket of its cell, and leaves
\* the others alone.
LEMMA RecordKeepsWindows ==
  ASSUME Accounted, Calling, WindowsRight, UpdateRecords
  PROVE  WindowsRight'
<1>1. /\ main = "update" /\ phase["main"] = "update" /\ phase'["main"] = "stored"
      /\ UNCHANGED <<accepted, handled>>
  BY DEF UpdateRecords, Arena!Record, Calling
<1>2. PICK n \in Nat : /\ n = handled + 1
                       /\ popped_bus = accepted[n] /\ popped_bus \in FeedRecords
  <2>1. InHand = 1
    BY <1>1 DEF InHand
  <2> QED
    BY <2>1 DEF Accounted
<1>3. PICK c \in Nat \ {0} : c = CellAt(n) /\ arg["main"].cell = c
  BY <1>1, <1>2, Readings DEF UpdateRecords, Arena!Record, Calling, CellAt
<1>4. /\ ~Anonymous(accepted[n])
      /\ Arena!Sample(arg["main"]) = SampleAt(n)
  BY <1>1, <1>2 DEF Calling, SampleAt, Arena!Sample, Arena!Stamp
<1>5. PICK B \in Arena!Buckets : B = Arena!BucketOf(c)
  BY BucketExists
<1>6. /\ owner' = [owner EXCEPT ![B] = c]
      /\ recent' = [recent EXCEPT ![B] = Arena!Pushed(Arena!WindowFor(B, c), SampleAt(n))]
  BY <1>3, <1>4, <1>5 DEF UpdateRecords, Arena!Record
<1>7. Done = 1 .. handled /\ Done' = Done \cup {n} /\ n \notin Done /\ \A l \in Done : l < n
  BY <1>1, <1>2 DEF Done, Accounted
<1>8. ASSUME NEW b
      PROVE  FiledIn(b)' = IF b = B THEN FiledIn(b) \cup {n} ELSE FiledIn(b)
  BY <1>1, <1>3, <1>4, <1>5, <1>7 DEF FiledIn, Belongs, CellAt
<1>9. BucketRight(B)'
  <2> DEFINE R == IF owner[B] = c THEN Run(B) ELSE {}
             w == Arena!WindowFor(B, c)
  <2>1. owner'[B] = c /\ recent'[B] = Arena!Pushed(w, SampleAt(n)) /\ BucketRight(B)
    BY <1>6 DEF Calling, WindowsRight
  <2>2. Run(B)' = R \cup {n}
    BY <1>1, <1>3, <1>7, <1>8, <2>1, RunGrows
  <2>3. IsFiniteSet(R) /\ R \subseteq Nat /\ \A l \in R : l < n
    BY <1>7, RunFinite, FS_EmptySet
  <2>4. Shows(w, R)
    BY <2>1, WindowAsFound
  <2>5. \A k : SampleAt(k)' = SampleAt(k)
    BY <1>1 DEF SampleAt
  <2> HIDE DEF R, w
  <2>6. Shows(Arena!Pushed(w, SampleAt(n)), R \cup {n})
    BY <2>3, <2>4, PushShowsNewest
  <2>7. Shows(recent[B], Run(B))'
    BY <2>1, <2>2, <2>5, <2>6 DEF Shows, NoSample
  <2>8. FiledIn(B)' # {} /\ Run(B)' # {}
    BY <1>8, <2>2
  <2> QED
    BY <2>7, <2>8 DEF BucketRight
<1>10. ASSUME NEW b \in Arena!Buckets, b # B PROVE BucketRight(b)'
  <2>1. FiledIn(b)' = FiledIn(b) /\ owner'[b] = owner[b] /\ recent'[b] = recent[b]
    BY <1>6, <1>8, <1>10 DEF Calling
  <2> QED
    BY <1>1, <2>1, BucketFrame DEF WindowsRight
<1> QED
  BY <1>9, <1>10 DEF WindowsRight, Arena!Buckets

\* What neither touches the arena nor adds a record due in it keeps the windows right.
LEMMA OthersKeepWindows ==
  ASSUME WindowsRight, UNCHANGED <<owner, recent>>, Done \subseteq Done',
         \A k \in Done : accepted'[k] = accepted[k],
         \A k \in Done' \ Done : ~Belongs(k)'
  PROVE  WindowsRight'
<1>1. ASSUME NEW b
      PROVE  FiledIn(b)' = FiledIn(b) /\ \A k \in FiledIn(b) : accepted'[k] = accepted[k]
  <2>1. FiledIn(b) \subseteq Done
    BY DEF FiledIn
  <2> QED
    BY <2>1 DEF FiledIn, Belongs, CellAt
<1> QED
  BY <1>1, BucketFrame DEF WindowsRight, Arena!Buckets

\* No more records are counted than handled.
LEMMA CountRange ==
  ASSUME handled \in Nat
  PROVE  /\ IsFiniteSet(Counted)
         /\ Cardinality(Counted) \in 0 .. handled
<1>1. /\ IsFiniteSet(1 .. handled) /\ Cardinality(1 .. handled) = handled
      /\ Counted \subseteq 1 .. handled
  BY FS_Interval DEF Counted
<1>2. /\ IsFiniteSet(Counted) /\ Cardinality(Counted) \in Nat
      /\ Cardinality(Counted) <= handled
  BY <1>1, FS_Subset, FS_CardinalityType
<1> QED
  BY <1>2

\* One more record is handled: it counts if it belongs in the arena.
LEMMA CountStep ==
  ASSUME handled \in Nat, handled' = handled + 1, accepted' = accepted
  PROVE  Cardinality(Counted)'
           = Cardinality(Counted) + (IF Belongs(handled + 1) THEN 1 ELSE 0)
<1> DEFINE n == handled + 1
<1>2. IsFiniteSet(Counted) /\ Cardinality(Counted) \in Nat
  BY CountRange
<1>3. Counted' = {k \in 1 .. n : Belongs(k)}
  BY DEF Counted, Belongs, CellAt
<1>4. CASE Belongs(n)
  <2>1. Counted' = Counted \cup {n} /\ n \notin Counted
    BY <1>3, <1>4 DEF Counted
  <2>2. Cardinality(Counted \cup {n}) = Cardinality(Counted) + 1
    BY <1>2, <2>1, FS_AddElement
  <2> QED
    BY <1>2, <1>4, <2>1, <2>2
<1>5. CASE ~Belongs(n)
  <2>1. Counted' = Counted
    BY <1>3, <1>5 DEF Counted
  <2> QED
    BY <1>2, <1>5, <2>1
<1> QED
  BY <1>4, <1>5

\* A step of the thread appends at most one record to those accepted and leaves main
\* and its arena alone.
LEMMA ThreadKeepsArena ==
  ASSUME Accounted, Calling, WindowsRight, CountRight,
         InThread(LocalStep) \/ InThread(NetworkStep)
  PROVE  (Calling /\ WindowsRight /\ CountRight)'
<1>1. /\ UNCHANGED <<consumer, thread>>
      /\ accepted' = IF Len(pushed') > Len(pushed)
                       THEN Append(accepted, pushed'[Len(pushed')]) ELSE accepted
  BY DEF InThread
<1> USE <1>1 DEF consumer, arena
<1>2. /\ handled \in Nat /\ handled <= Len(accepted)
      /\ phase["main"] = "stored" => handled + 1 <= Len(accepted)
  BY DEF Accounted, InHand, Calling
<1>3. \A k \in 1 .. Len(accepted) : accepted'[k] = accepted[k]
  BY DEF Accounted
<1>4. Done' = Done /\ Done \subseteq 1 .. Len(accepted)
  BY <1>2 DEF Done
<1>5. WindowsRight'
  BY <1>3, <1>4, OthersKeepWindows
<1>6. CountRight'
  <2>1. Counted' = Counted
    BY <1>2, <1>3 DEF Counted, Belongs, CellAt
  <2> QED
    BY <2>1 DEF CountRight
<1> QED
  BY <1>5, <1>6 DEF Calling

\* Being done with a record that update has stored, or that does not belong in the
\* arena, counts it or does not, and leaves the windows right.
LEMMA HandledKeepsArena ==
  ASSUME Accounted, Calling, WindowsRight, CountRight,
         handled' = handled + 1, UNCHANGED <<accepted, owner, recent>>,
         phase'["main"] = "idle",
         phase["main"] = "stored" <=> Belongs(handled + 1),
         total_processed' = total_processed + (IF phase["main"] = "stored" THEN 1 ELSE 0)
  PROVE  WindowsRight' /\ CountRight'
<1>1. handled \in Nat
  BY DEF Accounted
<1>2. Done' = 1 .. handled + 1 /\ Done \subseteq Done'
      /\ (phase["main"] = "stored" => Done' = Done)
      /\ (phase["main"] # "stored" => Done' \ Done = {handled + 1})
  BY <1>1 DEF Done
<1>3. \A k \in Done' \ Done : ~Belongs(k)'
  BY <1>2 DEF Belongs, CellAt
<1>4. WindowsRight'
  BY <1>2, <1>3, OthersKeepWindows
<1>5. CountRight'
  BY <1>1, CountStep DEF CountRight
<1> QED
  BY <1>4, <1>5

\* Every step of the process keeps the windows and the count right.
LEMMA StepArena ==
  IInv /\ Accounted /\ Calling /\ WindowsRight /\ CountRight /\ [EngineNext]_engineVars
    => (Calling /\ WindowsRight /\ CountRight)'
<1> SUFFICES ASSUME IInv, Accounted, Calling, WindowsRight, CountRight, [EngineNext]_engineVars
             PROVE  (Calling /\ WindowsRight /\ CountRight)'
  OBVIOUS
<1>a. handled \in Nat /\ (main \in {"filter", "update"} => popped_bus = accepted[handled + 1])
  BY DEF Accounted, InHand
<1>1. CASE InThread(LocalStep) \/ InThread(NetworkStep)
  BY <1>1, ThreadKeepsArena
<1>2. ASSUME UNCHANGED <<arena, total_processed, handled, accepted>>
      PROVE  WindowsRight' /\ CountRight'
  <2>1. Done' = Done /\ Counted' = Counted
    BY <1>2 DEF Done, Counted, Belongs, CellAt, arena
  <2>2. WindowsRight'
    BY <1>2, <2>1, OthersKeepWindows DEF arena
  <2> QED
    BY <1>2, <2>1, <2>2 DEF CountRight
<1>3. CASE BufferInitFails \/ BufferInit \/ CreateThread
  BY <1>2, <1>3 DEF BufferInitFails, BufferInit, CreateThread, arena, Calling
<1>4. CASE PopRecord
  BY <1>2, <1>4 DEF PopRecord, arena, Calling
<1>5. CASE PassOver
  <2>1. phase["main"] = "idle" /\ UNCHANGED <<arena, total_processed, accepted>>
        /\ handled' = handled + 1 /\ main = "filter"
    BY <1>5 DEF PassOver, Calling
  <2>2. ~Belongs(handled + 1)
    BY <1>5, <1>a DEF PassOver, Belongs
  <2>3. total_processed' = total_processed + 0
    BY <2>1, CountRange, <1>a DEF CountRight
  <2>4. WindowsRight' /\ CountRight'
    BY <2>1, <2>2, <2>3, HandledKeepsArena DEF arena
  <2> QED
    BY <1>5, <2>4 DEF PassOver, arena, Calling
<1>6. CASE CallUpdate
  <2>1. phase["main"] = "idle" /\ phase' = [phase EXCEPT !["main"] = "update"]
        /\ UNCHANGED <<owner, recent, total_processed, handled, accepted>>
    BY <1>6 DEF CallUpdate, Arena!Invoke
  <2>2. Done' = Done /\ Counted' = Counted
    BY <2>1 DEF Done, Counted, Belongs, CellAt, Calling
  <2>3. WindowsRight' /\ CountRight'
    BY <2>1, <2>2, OthersKeepWindows DEF CountRight
  <2> QED
    BY <1>6, <2>3 DEF CallUpdate, Arena!Invoke, Calling
<1>7. CASE UpdateRecords
  <2>1. WindowsRight'
    BY <1>7, RecordKeepsWindows
  <2>2. CountRight'
    BY <1>7 DEF UpdateRecords, CountRight, Counted, Belongs, CellAt
  <2>3. arg["main"].cell \in Nat /\ Arena!BucketOf(arg["main"].cell) \in Arena!Buckets
    <3>1. main = "update" /\ popped_bus \in FeedRecords
      BY <1>7 DEF UpdateRecords, Accounted, InHand
    <3> QED
      BY <3>1, Readings, BucketExists DEF Calling
  <2>4. Calling'
    BY <1>7, <2>3 DEF UpdateRecords, Arena!Record, Calling
  <2> QED
    BY <2>1, <2>2, <2>4
<1>8. CASE UpdateReturns
  <2>1. /\ phase' = [phase EXCEPT !["main"] = "idle"]
        /\ IF phase["main"] = "stored" THEN ret'["main"] ELSE ~ret'["main"]
        /\ UNCHANGED <<owner, recent, accepted>> /\ handled' = handled + 1
        /\ main = "update"
    BY <1>8 DEF UpdateReturns, Arena!Return, Calling
  <2>2. phase["main"] = "stored" <=> Belongs(handled + 1)
    BY <1>8, <1>a DEF UpdateReturns, Arena!Return, Belongs, CellAt, Calling
  <2>3. total_processed' = total_processed + (IF phase["main"] = "stored" THEN 1 ELSE 0)
    <3>1. total_processed \in Int
      BY CountRange, <1>a DEF CountRight
    <3>2. total_processed' = IF ret'["main"] THEN total_processed + 1 ELSE total_processed
      BY <1>8 DEF UpdateReturns
    <3> QED
      BY <2>1, <3>1, <3>2
  <2>4. phase'["main"] = "idle"
    BY <2>1 DEF Calling
  <2>5. WindowsRight' /\ CountRight'
    BY <2>1, <2>2, <2>3, <2>4, HandledKeepsArena
  <2> QED
    BY <1>8, <2>4, <2>5 DEF UpdateReturns, Arena!Return, Calling
<1>9. CASE UNCHANGED engineVars
  BY <1>2, <1>9 DEF engineVars, consumer, arena, Calling
<1> QED
  BY <1>1, <1>3, <1>4, <1>5, <1>6, <1>7, <1>8, <1>9 DEF EngineNext, MainStep

\* No record too many: what the thread may still push of its feed fits the bound.
RoomLeft ==
    /\ Len(accepted) <= MaxRecords
    /\ pc \in {"download", "unpack"} /\ reply.feed # Garbage =>
         Len(accepted) + Len(reply.feed) <= MaxRecords
    /\ pc = "entities" => Len(accepted) + Len(reply.feed) < MaxRecords + i

\* A step of the process keeps to the bound on its records.
LEMMA StepRoom == IInv /\ Accounted /\ RoomLeft /\ [EngineNext]_engineVars => RoomLeft'
<1> SUFFICES ASSUME IInv, Accounted, RoomLeft, [EngineNext]_engineVars PROVE RoomLeft'
  OBVIOUS
<1>a. /\ accepted \in Seq(FeedRecords) /\ Len(accepted) \in Nat
      /\ pushed \in Seq(FeedRecords) /\ Len(pushed) \in Nat
      /\ i \in Nat
  BY DEF Accounted, IInv, LocalInv
<1>1. ASSUME LocalStep \/ NetworkStep,
             pc = "fetch" /\ pc' = "download" /\ reply'.feed # Garbage
               => Len(accepted) + Len(reply'.feed) <= MaxRecords,
             accepted' = IF Len(pushed') > Len(pushed)
                           THEN Append(accepted, pushed'[Len(pushed')]) ELSE accepted
      PROVE  RoomLeft'
  <2> USE <1>a, MaxRecordsAssumption DEF RoomLeft, parser, ring, heap
  <2>1. CASE PushEntity
    <3>1. /\ pc = "entities" /\ pc' = pc /\ reply' = reply /\ i' = i + 1
          /\ i <= Len(reply.feed) /\ Len(reply.feed) \in Nat
      BY <2>1, FeedIsSeq DEF PushEntity, AtEntity, IInv, LocalInv, Walking, Parsing
    <3>2. Len(accepted') = Len(accepted) + 1
      BY <1>1, <2>1 DEF PushEntity
    <3>3. Len(accepted) + Len(reply.feed) < MaxRecords + i
      BY <3>1
    <3>4. Len(accepted) + 1 <= MaxRecords
      BY <3>1, <3>3
    <3>5. (Len(accepted) + 1) + Len(reply.feed) < MaxRecords + (i + 1)
      <4> DEFINE a == Len(accepted)
                 l == Len(reply.feed)
      <4>1. a \in Nat /\ l \in Nat /\ a + l < MaxRecords + i
        BY <3>1, <3>3
      <4> HIDE DEF a, l
      <4>2. (a + 1) + l < MaxRecords + (i + 1)
        BY <4>1
      <4> QED
        BY <4>2 DEF a, l
    <3>6. Len(accepted') + Len(reply'.feed) < MaxRecords + i'
      BY <3>1, <3>2, <3>5
    <3> QED
      BY <3>1, <3>4, <3>2, <3>6
  <2>2. ASSUME ~PushEntity PROVE accepted' = accepted
    BY <1>1, <2>2
       DEF LocalStep, NetworkStep, CheckShutdown, CurlInitFails, StartDownload,
           DownloadFails, UnpackFails, Unpack, SkipEntity, PushRefused, EntitiesDone,
           FreeUnpacked, FreePayload, Wake, WriteMemoryCallback,
           WriteMemoryCallbackFails, DownloadDone
  <2>3. CASE ~PushEntity /\ SkipEntity
    <3>1. Len(reply.feed) \in Nat
      BY <2>3, FeedIsSeq DEF SkipEntity, AtEntity, IInv, LocalInv, Walking, Parsing
    <3> QED
      BY <2>2, <2>3, <3>1 DEF SkipEntity, AtEntity
  <2>4. CASE ~PushEntity /\ Unpack
    <3>1. Len(reply.feed) \in Nat
      BY <2>4, FeedIsSeq DEF Unpack, IInv, LocalInv, Parsing
    <3> QED
      BY <2>2, <2>4, <3>1 DEF Unpack
  <2>5. CASE ~PushEntity /\ \E r \in Replies : StartDownload(r)
    BY <1>1, <2>2, <2>5 DEF StartDownload
  <2>6. CASE NetworkStep
    BY <2>2, <2>6
       DEF NetworkStep, WriteMemoryCallback, WriteMemoryCallbackFails, DownloadFails,
           DownloadDone, PushEntity, AtEntity
  <2>7. CASE ~PushEntity /\ (CheckShutdown \/ CurlInitFails \/ DownloadFails \/ UnpackFails
               \/ PushRefused \/ EntitiesDone \/ FreeUnpacked \/ FreePayload \/ Wake)
    BY <2>2, <2>7
       DEF CheckShutdown, CurlInitFails, DownloadFails, UnpackFails, PushRefused,
           EntitiesDone, FreeUnpacked, FreePayload, Wake
  <2> QED
    BY <1>1, <2>1, <2>3, <2>4, <2>5, <2>6, <2>7 DEF LocalStep
<1>2. CASE MainStep
  BY <1>2
     DEF MainStep, BufferInitFails, BufferInit, CreateThread, PopRecord, Pop, PassOver,
         CallUpdate, UpdateRecords, UpdateReturns, vars, parser, RoomLeft
<1>3. CASE UNCHANGED engineVars
  BY <1>3 DEF engineVars, vars, RoomLeft
<1> QED
  BY <1>1, <1>2, <1>3 DEF EngineNext, InThread

-----------------------------------------------------------------------------
EngineInv == IInv /\ Accounted /\ Calling /\ WindowsRight /\ CountRight /\ RoomLeft

\* The process starts with an empty arena and nothing counted.
LEMMA InitEngineInv == EngineInit => EngineInv
<1> SUFFICES ASSUME EngineInit PROVE EngineInv
  OBVIOUS
<1>1. IInv /\ Accounted
  BY InitIInv DEF EngineInit, Init, Accounted, InHand
<1>2. Calling
  BY DEF EngineInit, Arena!Init, Calling
<1>3. Done = {} /\ Counted = {}
  BY DEF EngineInit, Arena!Init, Done, Counted
<1>4. CountRight
  BY <1>3, FS_EmptySet DEF EngineInit, CountRight
<1>5. ASSUME NEW b \in Arena!Buckets PROVE BucketRight(b)
  <2>1. FiledIn(b) = {} /\ Run(b) = {}
    BY <1>3 DEF FiledIn, Run
  <2>2. \A j \in Arena!Ages : recent[b][j] = NoSample
    BY DEF EngineInit, Arena!Init, Arena!EmptyWindow, NoSample
  <2> QED
    BY <2>1, <2>2 DEF EngineInit, Arena!Init, BucketRight, Shows
<1>6. RoomLeft
  BY MaxRecordsAssumption DEF EngineInit, Init, RoomLeft
<1> QED
  BY <1>1, <1>2, <1>4, <1>5, <1>6 DEF EngineInv, WindowsRight

\* The invariant of the process holds in every reachable state.
LEMMA EngineInductive == EngineSpec => []EngineInv
<1>1. EngineInv /\ [EngineNext]_engineVars => EngineInv'
  BY StepIsIngestionStep, StepIInv, StepAccounted, StepArena, StepRoom DEF EngineInv
<1> QED
  BY <1>1, InitEngineInv, PTL DEF EngineSpec

\* No record is lost, doubled or overtaken on its way through the process.
THEOREM RecordsKept == EngineSpec => []NothingLost
<1>1. EngineInv => NothingLost
  BY AccountedIsNothingLost DEF EngineInv, IInv, LocalInv
<1> QED
  BY <1>1, EngineInductive, PTL

\* What the arena shows is what the feeds said: every bucket the latest run of
\* records of one cell, and the counter the records that update accepted.
THEOREM ArenaFollowsFeed == EngineSpec => []ArenaMatchesFeed
<1>1. EngineInv => ArenaMatchesFeed
  BY DEF EngineInv, WindowsRight, BucketRight, CountRight, ArenaMatchesFeed
<1> QED
  BY <1>1, EngineInductive, PTL

\* main and its arena keep their types: no counter passes the number of records,
\* and the buffer never holds more than its capacity.
THEOREM EngineTypeCorrect == EngineSpec => []EngineTypeOK
<1>1. EngineInv => EngineTypeOK
  <2> SUFFICES ASSUME EngineInv PROVE EngineTypeOK
    OBVIOUS
  <2>1. handled \in Nat /\ Len(accepted) \in Nat /\ handled <= Len(accepted)
        /\ Len(accepted) <= MaxRecords
    BY DEF EngineInv, Accounted, InHand, RoomLeft
  <2>2. total_processed \in 0 .. handled
    BY <2>1, CountRange DEF EngineInv, CountRight
  <2>3. Len(queue) <= Capacity
    BY DEF EngineInv, IInv, TypeOK
  <2> QED
    BY <2>1, <2>2, <2>3, MaxRecordsAssumption DEF EngineInv, Calling, EngineTypeOK
<1> QED
  BY <1>1, EngineInductive, PTL

\* Seen from its buckets and from the calls of update, the process is a run of the
\* abstract arena with main as its only writer.
THEOREM ProcessRunsArena == EngineSpec => Arena!Spec
<1>1. EngineInit => Arena!Init
  BY DEF EngineInit
<1>2. EngineInv /\ [EngineNext]_engineVars => [Arena!Next]_arena
  <2> SUFFICES ASSUME EngineInv, [EngineNext]_engineVars PROVE [Arena!Next]_arena
    OBVIOUS
  <2>1. CASE CallUpdate
    <3>1. popped_bus \in FeedRecords
      BY <2>1 DEF CallUpdate, EngineInv, Accounted, InHand
    <3>2. [cell      |-> CellOf[popped_bus.position],
           speed     |-> popped_bus.speed,
           timestamp |-> popped_bus.timestamp] \in Arena!Args
      BY <3>1, Readings DEF Arena!Args
    <3> QED
      BY <2>1, <3>2 DEF CallUpdate, Arena!Next
  <2>2. CASE UpdateRecords \/ UpdateReturns
    BY <2>2 DEF UpdateRecords, UpdateReturns, Arena!Next
  <2>3. CASE UNCHANGED arena
    BY <2>3
  <2>4. CASE UNCHANGED engineVars \/ InThread(LocalStep) \/ InThread(NetworkStep)
    BY <2>4 DEF engineVars, consumer, InThread, arena
  <2>5. CASE BufferInitFails \/ BufferInit \/ CreateThread \/ PopRecord \/ PassOver
    BY <2>5 DEF BufferInitFails, BufferInit, CreateThread, PopRecord, PassOver
  <2> QED
    BY <2>1, <2>2, <2>4, <2>5 DEF EngineNext, MainStep
<1> QED
  BY <1>1, <1>2, EngineInductive, PTL DEF EngineSpec, Arena!Spec, arena

=============================================================================
