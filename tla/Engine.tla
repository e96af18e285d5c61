------------------------------- MODULE Engine -------------------------------
(***************************************************************************)
(* The process of src/main.cpp: main boots, creates the ingestion thread   *)
(* and then takes records out of the ring buffer for ever, passes over     *)
(* those of vehicles without an identifier, files the others in the        *)
(* spatial arena and reports the crowded ones.  The ingestion thread is    *)
(* that of Ingestion, the ring buffer the queue that RingBuffer            *)
(* implements, the arena the shift registers that SpatialArena implements, *)
(* with main as its only writer.                                           *)
(*                                                                         *)
(* main is at one control point:                                           *)
(*   init       about to call buffer_init                                  *)
(*   create     about to call pthread_create                               *)
(*   pop        at the head of the loop, in buffer_pop                     *)
(*   filter     with a record, at the test for UNKNOWN                     *)
(*   update     in SpatialArena::update                                    *)
(*   exited     returned from main                                         *)
(***************************************************************************)
EXTENDS Ingestion

CONSTANTS
    NoRecord,       \* the zeroed popped_bus
    CellOf,         \* the cell of a position, 0 when H3 rejects it
    BucketCount, WindowSize, StampModulus,   \* as in ArenaTypes
    MaxRecords      \* bound on the records the thread pushes in all

ASSUME CellsAssumption == \A p \in DOMAIN CellOf : CellOf[p] \in Nat
ASSUME ArenaAssumption == /\ BucketCount \in Nat \ {0}
                          /\ WindowSize \in Nat \ {0}
                          /\ StampModulus \in Nat \ {0}
ASSUME ReadingsAssumption ==
    \A r \in Replies : r.feed # Garbage =>
      \A k \in {k \in DOMAIN r.feed : HasPosition(r.feed[k])} :
        LET record == Flatten(r.feed[k])
        IN  /\ record.position \in DOMAIN CellOf
            /\ record.speed \in Int
            /\ record.timestamp \in Nat
ASSUME MaxRecordsAssumption == MaxRecords \in Nat

VARIABLES
    main,             \* main's control point
    thread,           \* pthread_create has started the ingestion thread
    popped_bus,
    total_processed,
    owner, recent,    \* the arena's buckets
    phase, arg, ret,  \* main's call of update
    accepted,         \* history: every record that buffer_push has accepted
    handled           \* history: how many of them main is done with

arena == <<owner, recent, phase, arg, ret>>
consumer == <<main, popped_bus, total_processed, arena, handled>>
engineVars == <<vars, consumer, thread, accepted>>

Arena == INSTANCE RecentWindow
           WITH Writers <- {"main"}, Cells <- {CellOf[p] : p \in DOMAIN CellOf} \ {0},
                Speeds <- Int, Timestamps <- Nat

EngineInit ==
    /\ Init
    /\ Arena!Init
    /\ main = "init"
    /\ thread = FALSE
    /\ popped_bus = NoRecord
    /\ total_processed = 0
    /\ accepted = << >>
    /\ handled = 0

-----------------------------------------------------------------------------
(* main *)

\* buffer_init gives no buffer, and main returns 1.
BufferInitFails ==
    /\ main = "init"
    /\ main' = "exited"
    /\ UNCHANGED <<vars, thread, popped_bus, total_processed, arena, handled, accepted>>

BufferInit ==
    /\ main = "init"
    /\ main' = "create"
    /\ UNCHANGED <<vars, thread, popped_bus, total_processed, arena, handled, accepted>>

\* pthread_create.  Nobody looks at its result.
CreateThread ==
    /\ main = "create"
    /\ thread' \in BOOLEAN
    /\ main' = "pop"
    /\ UNCHANGED <<vars, popped_bus, total_processed, arena, handled, accepted>>

\* buffer_pop returns true; it waits while the buffer is empty.
PopRecord ==
    /\ main = "pop"
    /\ Pop
    /\ popped_bus' = Head(queue)
    /\ main' = "filter"
    /\ UNCHANGED <<thread, total_processed, arena, handled, accepted>>

\* Mutation: a vehicle without an identifier ends the loop.
PassOverBreaks ==
    /\ main = "filter"
    /\ Anonymous(popped_bus)
    /\ handled' = handled + 1
    /\ main' = "exited"
    /\ UNCHANGED <<vars, thread, popped_bus, total_processed, arena, accepted>>

PassOver ==
    /\ main = "filter"
    /\ Anonymous(popped_bus)
    /\ handled' = handled + 1
    /\ main' = "pop"
    /\ UNCHANGED <<vars, thread, popped_bus, total_processed, arena, accepted>>

\* The call of update.
CallUpdate ==
    /\ main = "filter"
    /\ ~Anonymous(popped_bus)
    /\ Arena!Invoke("main", [cell      |-> CellOf[popped_bus.position],
                             speed     |-> popped_bus.speed,
                             timestamp |-> popped_bus.timestamp])
    /\ main' = "update"
    /\ UNCHANGED <<vars, thread, popped_bus, total_processed, handled, accepted>>

UpdateRecords ==
    /\ main = "update"
    /\ Arena!Record("main")
    /\ UNCHANGED <<vars, thread, main, popped_bus, total_processed, handled, accepted>>

\* Mutation: coordinates that H3 rejects end the loop.
UpdateReturnsBreaks ==
    /\ main = "update"
    /\ Arena!Return("main")
    /\ total_processed' = IF ret'["main"] THEN total_processed + 1 ELSE total_processed
    /\ handled' = handled + 1
    /\ main' = IF ret'["main"] THEN "pop" ELSE "exited"
    /\ UNCHANGED <<vars, thread, popped_bus, accepted>>

\* Mutation: every record counts as processed.
UpdateReturnsCountsAll ==
    /\ main = "update"
    /\ Arena!Return("main")
    /\ total_processed' = total_processed + 1
    /\ handled' = handled + 1
    /\ main' = "pop"
    /\ UNCHANGED <<vars, thread, popped_bus, accepted>>

\* Mutation: a record that update rejects is tried again.
UpdateReturnsRetries ==
    /\ main = "update"
    /\ Arena!Return("main")
    /\ total_processed' = IF ret'["main"] THEN total_processed + 1 ELSE total_processed
    /\ handled' = handled + 1
    /\ main' = IF ret'["main"] THEN "pop" ELSE "filter"
    /\ UNCHANGED <<vars, thread, popped_bus, accepted>>

\* update returns; the report that may follow changes nothing.
UpdateReturns ==
    /\ main = "update"
    /\ Arena!Return("main")
    /\ total_processed' = IF ret'["main"] THEN total_processed + 1 ELSE total_processed
    /\ handled' = handled + 1
    /\ main' = "pop"
    /\ UNCHANGED <<vars, thread, popped_bus, accepted>>

MainStep == BufferInitFails \/ BufferInit \/ CreateThread \/ PopRecord
              \/ PassOver \/ CallUpdate \/ UpdateRecords \/ UpdateReturns

-----------------------------------------------------------------------------
(* The ingestion thread. *)

\* Once started, the thread takes the steps of Ingestion.  A feed that would
\* exceed MaxRecords is not offered.
InThread(step) ==
    /\ thread
    /\ step
    /\ pc = "fetch" /\ pc' = "download" /\ reply'.feed # Garbage
         => Len(accepted) + Len(reply'.feed) <= MaxRecords
    /\ accepted' = IF Len(pushed') > Len(pushed)
                     THEN Append(accepted, pushed'[Len(pushed')]) ELSE accepted
    /\ UNCHANGED <<consumer, thread>>

EngineNext == MainStep \/ InThread(LocalStep) \/ InThread(NetworkStep)

EngineSpec == EngineInit /\ [][EngineNext]_engineVars

\* The scheduler runs both threads; the network owes nothing.
FairEngineSpec ==
    EngineSpec /\ WF_engineVars(MainStep) /\ WF_engineVars(InThread(LocalStep))

-----------------------------------------------------------------------------
(* Correctness. *)

\* The state of main and its arena.
EngineTypeOK ==
    /\ main \in {"init", "create", "pop", "filter", "update", "exited"}
    /\ thread \in BOOLEAN
    /\ total_processed \in 0 .. MaxRecords
    /\ handled \in 0 .. Len(accepted)
    /\ DOMAIN owner = Arena!Buckets
    /\ Len(queue) <= Capacity

\* The cell of the k-th record pushed, and whether the record is of an identified
\* vehicle at a place on the map.
CellAt(k) == CellOf[accepted[k].position]
Belongs(k) == ~Anonymous(accepted[k]) /\ CellAt(k) # 0

\* The records that main has counted, if it is right.
Counted == {k \in 1 .. handled : Belongs(k)}

\* The records main is done with, counting one that update has already stored, and
\* those of them that are due in bucket b, by their numbers.
Done == 1 .. IF phase["main"] = "stored" THEN handled + 1 ELSE handled
FiledIn(b) == {k \in Done : Belongs(k) /\ Arena!BucketOf(CellAt(k)) = b}

\* The latest of these, as far back as they are all of one cell, that of the bucket.
Run(b) == {k \in FiledIn(b) : \A l \in FiledIn(b) : l >= k => CellAt(l) = owner[b]}

\* The sample that record k leaves in the arena.
SampleAt(k) == [speed |-> accepted[k].speed, stamp |-> accepted[k].timestamp % StampModulus]
NoSample == [speed |-> 0, stamp |-> 0]

\* The place of record k among those of a set, from the latest.
Age(records, k) == Cardinality({l \in records : l >= k})

\* A window shows the records of a set: the latest ones, newest first, and nothing
\* more if they do not fill it.
Shows(window, records) ==
    /\ \A k \in records :
         Age(records, k) <= WindowSize => window[Age(records, k)] = SampleAt(k)
    /\ \A j \in Arena!Ages : j > Cardinality(records) => window[j] = NoSample

\* What the thread pushed is what main has handled, what it has in its hands and
\* what is in the buffer, in this order: nothing is dropped between buffer_push
\* and the end of an iteration of main's loop, and nothing comes twice.
NothingLost ==
    LET hand == IF main \in {"filter", "update"} THEN <<popped_bus>> ELSE << >>
    IN  accepted = SubSeq(accepted, 1, handled) \o hand \o queue

\* End to end: of the records main is done with every identified vehicle at a
\* place on the map is counted once and filed once, in the order of the feeds: a
\* bucket shows the samples of the latest unbroken run of one cell, newest first,
\* and nothing of what came before it.
ArenaMatchesFeed ==
    /\ total_processed = Cardinality(Counted)
    /\ \A b \in Arena!Buckets :
         /\ IF FiledIn(b) = {} THEN owner[b] = 0 ELSE Run(b) # {}
         /\ Shows(recent[b], Run(b))

\* Backpressure is temporary: the thread may wait for room in the middle of a
\* feed, and main always makes it, so every walk over a feed comes to its end.
WalkEnds == pc = "entities" ~> pc = "release"

\* Every record that buffer_push accepted is eventually dealt with, however long
\* the network keeps the thread and whatever record comes before it.
EveryRecordHandled == \A n \in 1 .. MaxRecords : Len(accepted) >= n ~> handled >= n

\* However the boot goes, the process comes to something: main returns, the first
\* fetch begins, or pthread_create has failed unnoticed and main waits for ever.
BootSettles == <>(main = "exited" \/ pc = "fetch" \/ [](main = "pop" /\ ~thread))

=============================================================================
