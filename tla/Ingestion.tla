------------------------------ MODULE Ingestion ------------------------------
(***************************************************************************)
(* The ingestion thread of src/main.cpp: it downloads a feed (fetcher.c),  *)
(* decodes it and pushes one record per vehicle (parser.c), sleeps, and    *)
(* starts again until the buffer is shut down.  The ring buffer appears as *)
(* the queue that RingBuffer implements: a push takes effect in one step.  *)
(*                                                                         *)
(* The thread is at one control point pc:                                  *)
(*   check      at the head of ingestion_thread's loop                     *)
(*   fetch      on entry to fetch_gtfs_data                                *)
(*   download   in curl_easy_perform; aborted after a refused chunk        *)
(*   unpack     on entry to parse_and_queue                                *)
(*   entities   in parse_and_queue's loop, at msg->entity[i]               *)
(*   release    about to free the decoded message                          *)
(*   free       about to free the payload                                  *)
(*   sleep      in sleep_for; done when the thread has returned            *)
(***************************************************************************)
EXTENDS VehicleRecords, FiniteSets

CONSTANTS
    Replies,   \* what the server may answer: [chunks, feed] records
    Garbage,   \* the feed of a reply that does not decode
    Capacity,  \* the capacity of the ring buffer
    MaxLeaks   \* bound on the payloads the model lets the thread lose

VARIABLES
    pc,
    reply,     \* the answer to the current request
    payload,   \* the block that chunk.memory / raw_protobuf points to exists
    size,      \* chunk.size, in chunks
    leaked,    \* payload blocks that exist and that nothing points to
    msg,       \* the decoded message exists
    i,         \* parse_and_queue's index, from 1
    pushed,    \* the records this feed's buffer_push calls accepted
    queue,     \* the ring buffer: records in it, oldest first
    shutdown   \* rb->shutdown

vars == <<pc, reply, payload, size, leaked, msg, i, pushed, queue, shutdown>>
ring == <<queue, shutdown>>
parser == <<msg, i, pushed>>
heap == <<payload, size, leaked>>

ASSUME CapacityAssumption == Capacity \in Nat \ {0}
ASSUME RepliesAssumption ==
    \A r \in Replies :
      /\ r.chunks \in Nat
      /\ r.feed = Garbage \/ r.feed \in Seq({r.feed[k] : k \in DOMAIN r.feed})
ASSUME LeaksAssumption == MaxLeaks \in Nat

NoReply == [chunks |-> 0, feed |-> Garbage]

-----------------------------------------------------------------------------
Init ==
    /\ pc = "check"
    /\ reply = NoReply
    /\ payload = FALSE
    /\ size = 0
    /\ leaked = 0
    /\ msg = FALSE
    /\ i = 1
    /\ pushed = << >>
    /\ queue = << >>
    /\ shutdown = FALSE

\* Mutation: the loop runs while the buffer is shut down.
CheckShutdownInverted ==
    /\ pc = "check"
    /\ pc' = IF shutdown THEN "fetch" ELSE "done"
    /\ UNCHANGED <<reply, heap, parser, ring>>

\* The loop of ingestion_thread asks buffer_is_shutdown.
CheckShutdown ==
    /\ pc = "check"
    /\ pc' = IF shutdown THEN "done" ELSE "fetch"
    /\ UNCHANGED <<reply, heap, parser, ring>>

\* fetch_gtfs_data with no curl handle: the byte allocated first is freed.
CurlInitFails ==
    /\ pc = "fetch"
    /\ pc' = "sleep"
    /\ UNCHANGED <<reply, heap, parser, ring>>

\* malloc(1) is not checked and may leave chunk.memory NULL.
StartDownload(r) ==
    /\ pc = "fetch"
    /\ r.chunks = 0 => leaked < MaxLeaks
    /\ reply' = r
    /\ payload' \in BOOLEAN
    /\ size' = 0
    /\ pc' = "download"
    /\ UNCHANGED <<leaked, parser, ring>>

\* A chunk of the body arrives and realloc makes room for it.
WriteMemoryCallback ==
    /\ pc = "download"
    /\ size < reply.chunks
    /\ payload' = TRUE
    /\ size' = size + 1
    /\ UNCHANGED <<pc, reply, leaked, parser, ring>>

\* realloc fails: the callback returns 0 and leaves chunk as it was, and curl
\* gives the transfer up.
WriteMemoryCallbackFails ==
    /\ pc = "download"
    /\ size < reply.chunks
    /\ pc' = "aborted"
    /\ UNCHANGED <<reply, heap, parser, ring>>

\* curl_easy_perform reports an error: what has arrived is freed.
DownloadFails ==
    /\ pc \in {"download", "aborted"}
    /\ payload' = FALSE
    /\ size' = 0
    /\ pc' = "sleep"
    /\ UNCHANGED <<reply, leaked, parser, ring>>

\* CURLE_OK: the caller gets the block and its size.  It parses a block that
\* is there and not empty; otherwise it prints a warning and drops the pointer.
DownloadDone ==
    /\ pc = "download"
    /\ size = reply.chunks
    /\ IF payload /\ size > 0
         THEN /\ pc' = "unpack"
              /\ UNCHANGED heap
         ELSE /\ pc' = "sleep"
              /\ leaked' = IF payload THEN leaked + 1 ELSE leaked
              /\ payload' = FALSE
              /\ UNCHANGED size
    /\ UNCHANGED <<reply, parser, ring>>

\* Mutation: a message that does not decode ends the cycle at once.
UnpackFailsUnfreed ==
    /\ pc = "unpack"
    /\ pc' = "sleep"
    /\ UNCHANGED <<reply, heap, parser, ring>>

\* The message does not decode, or there is no memory to decode it into.
UnpackFails ==
    /\ pc = "unpack"
    /\ pc' = "free"
    /\ UNCHANGED <<reply, heap, parser, ring>>

Unpack ==
    /\ pc = "unpack"
    /\ reply.feed # Garbage
    /\ msg' = TRUE
    /\ i' = 1
    /\ pushed' = << >>
    /\ pc' = "entities"
    /\ UNCHANGED <<reply, heap, ring>>

Entity == reply.feed[i]
AtEntity == pc = "entities" /\ i <= Len(reply.feed)

\* Mutation: the first entity without a position ends the walk.
SkipEntityBreaks ==
    /\ AtEntity
    /\ ~HasPosition(Entity)
    /\ pc' = "release"
    /\ UNCHANGED <<reply, heap, parser, ring>>

\* The entity carries no vehicle with a position.
SkipEntity ==
    /\ AtEntity
    /\ ~HasPosition(Entity)
    /\ i' = i + 1
    /\ UNCHANGED <<pc, reply, heap, msg, pushed, ring>>

\* Mutation: the record is stored although the buffer is full.
PushEntityUnbounded ==
    /\ AtEntity
    /\ HasPosition(Entity)
    /\ ~shutdown
    /\ queue' = Append(queue, Flatten(Entity))
    /\ pushed' = Append(pushed, Flatten(Entity))
    /\ i' = i + 1
    /\ UNCHANGED <<pc, reply, heap, msg, shutdown>>

\* buffer_push returns true; it waits while the buffer is full.
PushEntity ==
    /\ AtEntity
    /\ HasPosition(Entity)
    /\ ~shutdown
    /\ Len(queue) < Capacity
    /\ queue' = Append(queue, Flatten(Entity))
    /\ pushed' = Append(pushed, Flatten(Entity))
    /\ i' = i + 1
    /\ UNCHANGED <<pc, reply, heap, msg, shutdown>>

\* Mutation: a push that finds the buffer full waits also after the shutdown.
PushRefusedUnlessFull ==
    /\ AtEntity
    /\ HasPosition(Entity)
    /\ shutdown
    /\ Len(queue) < Capacity
    /\ pc' = "release"
    /\ UNCHANGED <<reply, heap, parser, ring>>

\* buffer_push returns false and the loop is left.
PushRefused ==
    /\ AtEntity
    /\ HasPosition(Entity)
    /\ shutdown
    /\ pc' = "release"
    /\ UNCHANGED <<reply, heap, parser, ring>>

EntitiesDone ==
    /\ pc = "entities"
    /\ i > Len(reply.feed)
    /\ pc' = "release"
    /\ UNCHANGED <<reply, heap, parser, ring>>

\* transit_realtime__feed_message__free_unpacked
FreeUnpacked ==
    /\ pc = "release"
    /\ msg' = FALSE
    /\ pc' = "free"
    /\ UNCHANGED <<reply, heap, i, pushed, ring>>

\* free(raw_protobuf)
FreePayload ==
    /\ pc = "free"
    /\ payload' = FALSE
    /\ size' = 0
    /\ pc' = "sleep"
    /\ UNCHANGED <<reply, leaked, parser, ring>>

\* sleep_for returns; the next iteration declares its own variables.
Wake ==
    /\ pc = "sleep"
    /\ reply' = NoReply
    /\ i' = 1
    /\ pushed' = << >>
    /\ pc' = "check"
    /\ UNCHANGED <<heap, msg, ring>>

-----------------------------------------------------------------------------
(* The other threads. *)

\* A consumer's buffer_pop.
Pop ==
    /\ queue # << >>
    /\ queue' = Tail(queue)
    /\ UNCHANGED <<pc, reply, heap, parser, shutdown>>

\* buffer_signal_shutdown
SignalShutdown ==
    /\ ~shutdown
    /\ shutdown' = TRUE
    /\ UNCHANGED <<pc, reply, heap, parser, queue>>

-----------------------------------------------------------------------------
\* The steps that the thread takes without waiting for the network.  Not one
\* of them is enabled while it is blocked in buffer_push.
LocalStep ==
    \/ CheckShutdown
    \/ CurlInitFails
    \/ \E r \in Replies : StartDownload(r)
    \/ pc = "aborted" /\ DownloadFails
    \/ UnpackFails \/ Unpack
    \/ SkipEntity \/ PushEntity \/ PushRefused \/ EntitiesDone
    \/ FreeUnpacked
    \/ FreePayload
    \/ Wake

\* What happens while curl_easy_perform runs, at the network's pace.
NetworkStep ==
    \/ WriteMemoryCallback
    \/ WriteMemoryCallbackFails
    \/ pc = "download" /\ DownloadFails
    \/ DownloadDone

Finished == pc = "done" /\ UNCHANGED vars

Next == LocalStep \/ NetworkStep \/ Pop \/ SignalShutdown \/ Finished

Spec == Init /\ [][Next]_vars

\* The scheduler runs the thread; fetch_gtfs_data sets no timeout, so nothing
\* makes curl_easy_perform return, and no consumer is obliged to pop.
FairSpec == Spec /\ WF_vars(LocalStep)

-----------------------------------------------------------------------------
(* Correctness. *)

Parsing == {"unpack", "entities", "release", "free"}

\* Every variable has its type; the queue never exceeds its capacity and the
\* index stays within the feed or one past it.
TypeOK ==
    /\ pc \in {"check", "fetch", "download", "aborted", "sleep", "done"} \cup Parsing
    /\ reply \in Replies \cup {NoReply}
    /\ payload \in BOOLEAN
    /\ size \in 0 .. reply.chunks
    /\ leaked \in 0 .. MaxLeaks
    /\ msg \in BOOLEAN
    /\ pc = "entities" => i \in 1 .. Len(reply.feed) + 1
    /\ Len(queue) <= Capacity
    /\ shutdown \in BOOLEAN

\* The heap discipline of a cycle.  The parser runs only on a complete payload
\* that is still allocated, the decoded message exists exactly while it is
\* walked, and on every path back to the loop both have been given up.  Given up
\* is freed or, after an empty reply, lost: PayloadsFreed tells the two apart.
HeapDiscipline ==
    /\ pc \in Parsing => payload /\ size = reply.chunks /\ size > 0
    /\ msg <=> pc \in {"entities", "release"}
    /\ pc \in {"check", "fetch", "sleep", "done"} => ~payload

\* The place of the record of entity k among those of its feed.
Rank(feed, k) == Cardinality({j \in 1 .. k : HasPosition(feed[j])})

\* The records are those of the first n entities: one for each of them that has
\* a position, at its place, and no other.
RecordsOf(records, feed, n) ==
    /\ Len(records) = Rank(feed, n)
    /\ \A k \in 1 .. n : HasPosition(feed[k]) => records[Rank(feed, k)] = Flatten(feed[k])

\* What the thread has pushed is, at each point of the walk, the records of the
\* entities passed so far, none skipped, repeated or reordered by waiting for
\* room, and a walk ends early only because the buffer was shut down.
FeedInOrder ==
    /\ pc \in {"entities", "release"} => RecordsOf(pushed, reply.feed, i - 1)
    /\ pc = "release" /\ ~shutdown => i > Len(reply.feed)

\* After a shutdown the thread returns, unless curl never gives control back;
\* in particular it is not left waiting for room in the buffer.
ThreadStops == shutdown ~> (pc = "done" \/ [](pc = "download"))

\* README.md, "Memory usage stays bounded": no payload is lost.
PayloadsFreed == leaked = 0

=============================================================================
