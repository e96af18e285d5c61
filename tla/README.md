# TelemetrixDB: formal models

TLA+ models of TelemetrixDB from the bytes of a feed to the spatial arena, the
TLC configurations that check them on small instances, and TLAPS proofs of the
safety of its two concurrent data structures, of the ingestion thread, of the
process around them, of the decoding of feeds and of the static loader, for every
size, any number of threads, all feeds and all files. Source paths are relative to the
repository's root; `PROJECT.json` maps each definition to the lines it models.

## 1. The system

TelemetrixDB polls a GTFS-Realtime endpoint for vehicle positions and decodes
them into fixed-size records. It passes the records through a bounded buffer
to the main thread, which files speeds per H3 hexagon in memory.

```
 ingestion thread                              main thread
 fetch_gtfs_data -> parse_and_queue            buffer_pop -> SpatialArena::update
   (fetcher.c)        (parser.c)                  ^             (storage.cpp)
                          |                       |
                          +--> buffer_push ---> RingBuffer (buffer.c)
```

| Component | State | Operations | Interacts with |
|---|---|---|---|
| Ring buffer (`src/ingestion/buffer.c`) | `data`, `head`, `tail`, `count`, `capacity`, `shutdown`, one mutex, condition variables `not_empty` and `not_full` | `buffer_init`, `buffer_push`, `buffer_pop`, `buffer_signal_shutdown`, `buffer_is_shutdown`, `buffer_destroy` | shared by all threads |
| Spatial arena (`src/storage/storage.cpp`, `include/arena.h`) | 131072 buckets: `h3_index`, 60 speeds, 60 timestamps, `head`, a spinlock | constructor, `update`, destructor | H3's `latLngToCell`; written by main, and built to be written by several threads |
| Feed fetcher (`src/ingestion/fetcher.c`) | the growing block `chunk` | `fetch_gtfs_data`, `WriteMemoryCallback` (called by curl) | libcurl, the heap |
| Feed parser (`src/ingestion/parser.c`) | the decoded message, the index of the walk | `parse_and_queue` | protobuf-c, `buffer_push` |
| Ingestion thread (`src/main.cpp`) | payload pointer and size of a cycle | the loop of `ingestion_thread` | fetcher, parser, `buffer_is_shutdown` |
| Main thread (`src/main.cpp`) | static tables, the record popped, the arena | boot, consumer loop, the shutdown sequence after it | buffer, arena |
| Static GTFS loader (`src/main.cpp`) | maps from identifiers to names | `load_static_gtfs` | files |
| Benchmarks (`tests/`) | two runs of a buffer; none | create, push against pop, join, destroy; a sequential client of `update` | buffer, arena |
| Protobuf code (`gtfs-realtime.pb-c.*`) | constant tables: 12 enumerations, 28 message descriptors | unpack and free a feed (the rest is not called) | protobuf-c, parser |

What is hard in it:

* **Interleaving.** `pthread_cond_wait` gives the mutex up in the middle of a
  call, may wake with no signal, and one signal is sent per record. Updates of
  one bucket race on a spinlock.
* **Shutdown.** The flag can be set between any two steps of any thread. It must
  wake both sorts of sleeper, refuse pushes and still let pops drain the buffer.
* **Boundaries.** `head` equals `tail` when the buffer is empty and when it is
  full. The window's head wraps at 60, timestamps at 2^32, and a bucket number
  is a masked H3 index.
* **Partial failure.** Allocation, curl and decoding can each fail at any point
  of a cycle whose memory is managed by hand.
* **Blocking.** The parser waits inside a walk for as long as the buffer is
  full, and curl has no timeout.
* **Tables and conversions.** What a record says depends on generated tables,
  on which fields the schema requires, on fields sent twice or in parts, on
  numbers repeated by hand and on texts cut to fit.
* **Strings that outlive their line.** The static loader reuses its strings from
  line to line and from file to file.

The full list, with line numbers and the property aimed at each, is `hazards`
in `PROJECT.json`.

What correctness means, per component:

| Component | Correct when |
|---|---|
| Ring buffer | it is a FIFO queue with atomic operations that drains after a shutdown; no wakeup is lost; nobody sleeps after a shutdown; no path keeps the mutex |
| Arena | one writer per bucket; a bucket holds the latest samples of one cell, whole and in order; every lock is released |
| Ingestion | memory is used only while allocated and given up on every path; each feed enters the buffer complete and in order; the thread stops after a shutdown |
| Decoder and parser | a feed decodes to what its bytes stand for, or not at all if it is malformed; a record shows what was sent for that vehicle and nothing else |
| Main | what the thread pushed is filed once, in order, in the bucket of its cell; waiting always ends |
| Static loader | an identifier has the name on its own line |
| Buffer life cycle | the buffer is destroyed when nobody uses it; a run ends |

## 2. The modules

| Module | What it is |
|---|---|
| `RingBuffer` | `buffer.c`, one action per step between synchronisation points |
| `BoundedQueue` | abstract specification: a closable bounded FIFO queue with atomic operations |
| `RingBufferProofs` | its safety, and that it implements `BoundedQueue` |
| `ArenaTypes` | arguments, routing of cells to buckets, windows of samples |
| `SpatialArena` | `SpatialArena::update`, one action per access under the spinlock |
| `RecentWindow` | abstract specification: one shift register of samples per bucket |
| `SpatialArenaProofs` | its safety, and that it implements `RecentWindow` |
| `VehicleRecords` | the record made of an entity, and what main asks of a record |
| `Ingestion` | `fetcher.c`, `parser.c` and `ingestion_thread` as one thread, against an abstract ring buffer |
| `Engine` | `main` and the thread of `Ingestion`, over the abstract queue and `RecentWindow` |
| `Process` | the same two threads on `RingBuffer` itself: the buffer's own steps, waits and signals |
| `EngineProofs` | the safety of `Ingestion`, and that what the feeds said arrives in the arena |
| `ProcessProofs` | that `Process` implements `Engine`, so that the same holds on the code of the buffer, and that the threads never sleep on each other |
| `BenchmarkBuffer` | `benchmark_buffer.cpp` on `RingBuffer` itself, with `buffer_init` and `buffer_destroy` |
| `BenchmarkBufferProofs` | that the buffer is destroyed safely, and that its two lives are one queue |
| `GtfsSchema` | the enumerations and message descriptors of `gtfs-realtime.pb-c.c` |
| `WireItems`, `FeedWire` | sequences of items on the wire, and the fields they belong to by the tables |
| `MessageLevel` | unpacking a message, given how the messages inside it are unpacked |
| `MessageLevelProofs` | that a message is unpacked rightly if those inside it are |
| `FeedDecoder` | unpacking a feed, and the fields `parser.c` reads |
| `FeedDecoderProofs` | that a feed decodes to what its bytes stand for, and that the records say it |
| `StaticGtfs` | `load_static_gtfs` and the lookup of names |
| `StaticGtfsProofs` | that regular lines are kept |
| `MCRingBuffer`, `MCSpatialArena`, `MCIngestion`, `MCEngine`, `MCProcess`, `MCFeedDecoder`, `MCStaticGtfs` | instances for TLC |

`VehicleRecords` is extended by `Ingestion` and `FeedDecoder`, `Ingestion` by
`Engine`, `RingBuffer` by `BenchmarkBuffer` and `Process`; `Engine` instantiates
`RecentWindow`, `Process` instantiates `Engine`, `FeedDecoder` extends `FeedWire`
and instantiates `MessageLevel` once for each level of nesting. The composition rests on
refinements: `Engine` uses the specifications that the buffer and the arena are
proved to implement, and `Process`, where the buffer is the code's, is proved to
implement `Engine`.

Definitions marked "Mutation" in a module are faulty variants of the definition
that follows them. Each property has one that breaks it (`mutants` in
`PROJECT.json`); no specification uses them.

### 2.1 RingBuffer

The variables are the fields of `RingBuffer`, the mutex's owner, and for each
thread its control point, its record and its last return value. A thread
asleep in `pthread_cond_wait` is one whose control point is `push_wait` or
`pop_wait`. `pthread_cond_signal` moves one sleeper, any one, to the queue for
the mutex; `pthread_cond_broadcast` moves all; `SpuriousWakeup` moves one with
no signal. A step ends where another thread could see or change something:
taking the mutex, waiting, copying the record, moving the indices together
with the signal, unlocking. Copying and moving the indices are separate steps,
although both run under the mutex, so that mutual exclusion is something the
proofs need and do not get for free. Any thread may ask for a shutdown, and
any thread may query it.

`BoundedQueue` has a sequence, a flag and a phase for each thread. The
refinement mapping takes the slots from `tail` up to `head`, less the one that a
consumer has already copied out. A push takes effect when the indices move, a
pop when the record is copied.

`buffer_destroy` and the failures of `buffer_init` are in `BenchmarkBuffer`,
which has a life cycle for the buffer (section 2.6).

### 2.2 SpatialArena

The variables are the fields of each bucket and, for each writer, its control
point, arguments, local `head` and return value. `update` is split at each
access to the bucket. The spin is a step enabled when the flag is clear: a
`test_and_set` that finds it set changes nothing. Acquire and release order
make the accesses of one critical section visible to the next, so interleaving
semantics is right for them.

Coordinates are represented by the cell that `latLngToCell` maps them to, or 0
for its error. `BucketOf` is the mask of storage.cpp:37, a remainder because
the count is a power of two (`PowerOfTwo` checks that the instance is).
`H3Cell` is the layout of an H3 index: below the digits of its resolution all
bits are set. `Stamp` is the cast to `uint32_t`. Speeds are opaque values.

`RecentWindow` keeps for each bucket the cell that owns it and its samples, most
recent first. The mapping lets a call take effect when it obtains the lock: a
bucket with a writer inside counts as holding what that writer will leave
behind (`Completed`).

### 2.3 Ingestion

One thread with one control point runs through a cycle: check the flag, fetch,
download in chunks, decode, walk the entities, free the message, free the
payload, sleep. Every allocation, the transfer and the decoding may fail where
the code allows it; `malloc(1)` is not checked in fetcher.c and may leave no
block at all. The heap is three facts: whether the payload exists, whether the
message exists, and how many payloads exist that nothing points to. An entity
is a function from the names of its present fields to their values. `Flatten`
(in `VehicleRecords`) is the parser's translation, with its defaults, the
fallback from label to identifier, the percentage's way through `uint32_t` and
`int`, and texts cut to their destination.

The ring buffer is the queue that `RingBuffer` is proved to implement, so a push
is one step that is disabled while the queue is full and open. A consumer pops
when it likes and another thread may shut the buffer down at any time.

### 2.4 Engine

`main` boots (`BufferInit` or its failure, `CreateThread` with a result nobody
reads) and loops: pop, the test for UNKNOWN, the call of `update`, its effect,
its return. The call is `RecentWindow`'s `Invoke`, `Record` and `Return` with
main as the only writer. The report that follows changes no state. The thread
takes `Ingestion`'s steps once it exists. Two history variables, `accepted` and
`handled`, record what was pushed and how far main is with it. The code after
the endless loop is unreachable and no action models it; what a shutdown does
is a matter of `RingBuffer` and `Ingestion`.

### 2.5 Process

What the process looks like when the buffer is `buffer.c` and not a queue. Both
threads take `RingBuffer`'s own steps inside `buffer_is_shutdown`, `buffer_push`
and `buffer_pop`, interleaved as the mutex and the condition variables allow.
Calls and returns are steps of their own, tied to the client's control point:
the loop's test (`CallQuery`, `QueryReturns`), a push in the middle of a walk
(`CallPush`, `PushAccepts`, `PushReturns`), main's pop (`CallPop`, `PopReturns`).
What the threads do outside the buffer is taken from `Engine` (`Own`), which has
it from `Ingestion` and `RecentWindow`. A waiter may wake with no signal
(`Spurious`).

The refinement mapping (`System`) reads the queue off the slots as for
`BoundedQueue`. Two control states need care: a walk has passed an entity as soon
as the indices have moved, before `buffer_push` has unlocked and returned
(`Passed`), and main has left its pop as soon as the record is copied out, before
the indices move (`Stage`). All other variables are as they are.

### 2.6 BenchmarkBuffer

The one client in the repository that destroys a buffer. Its main thread and
its producer take `RingBuffer`'s own steps; around them are `buffer_init`, with
a failure that leaves nothing behind, the creation of the thread, N pushes and N
pops, the join and `buffer_destroy`, for the warm-up and for the timed run.

### 2.7 GtfsSchema and FeedDecoder

`GtfsSchema` has the generated tables: for each message its fields, with number,
label, type and default, and the number ranges by which the runtime finds a
field. `FeedDecoder` unpacks with them. On the wire a message is a sequence of
items (field number, wire type, value), and the value of a submessage is again
such a sequence. No message type contains itself, so the recursion of unpacking
and merging is a composition of levels: `MessageLevel` takes the operators of
the next inner level as constants, and `FeedDecoder` instantiates it six times,
from `Level1`, where no submessages are left, to `Level6`, the feed. Proofs
are possible in this form, and not with RECURSIVE operators. The runtime, protobuf-c, is not in the repository; what its
callers rely on is modelled and marked external: the lookup by ranges, unknown
numbers passed over, wire types checked (not for BOOL), required fields ticked
off, later values replacing earlier ones, repeated ones collected, submessages
in parts merged. `Reads` and `EntityView` are the fields that `parser.c` reads.
Varints, lengths and the bytes of texts are below this level; an item with an
impossible wire type stands for bytes that do not parse.

The reference the result is compared with is separate: it works with field
numbers and concatenation (`WellFormed`, `Denotes`, `Inner`, `Sent`), not with
the ranges, nor with merging, nor with the parser's names. A message that came in
parts is what the items of all its parts say together, with one exception that
`Means` states: protobuf-c merges optional submessages and not required ones, so
for the `trip` of a trip update only the last part that has one counts.

### 2.8 StaticGtfs

A line is the sequence of its pieces between commas, each with or without a
quote at either end. The k-th `std::getline` of a line yields the k-th piece or,
once the line is used up, leaves the string as it was. Header, missing files,
`strip_quotes` and the order of the files are as in the code. The reference
reads a line as comma-separated values, with quoted commas inside values:
`Starts` are the pieces at which a value starts, and `Reads` says what the v-th
value is. Quotes inside a text are not represented.

## 3. The runs

| Run | Instance | Shows |
|---|---|---|
| `ring_buffer` | 2 producers, 2 consumers, capacity 3, 2 records | `TypeOK`, `MutualExclusion`, `RingConsistent`, `NoLostWakeup`, `ShutdownWakesAll`, `ImplementsQueue` |
| `arena_safety` | 2 writers, 3 cells on 2 of 4 buckets, window of 2 | `TypeOK`, `BucketExclusion` |
| `arena_refines` | 2 writers, 2 aliased cells, 2 speeds, window of 2 | `ImplementsWindow`, `LockReleased` |
| `arena_readme_lock` | 2 writers, 3 aliased cells | a finding (section 7) |
| `ingestion_cycle` | 5 replies, capacity 2 | `TypeOK`, `HeapDiscipline`, `FeedInOrder`, `ThreadStops` |
| `ingestion_leak` | the same | a finding |
| `decoder` | 1944 feeds | `Faithful`, `RecordsTruthful`, `OccupancyTruthful` |
| `engine` | 4 replies, up to 8 records, capacity 2, 2 buckets, window of 2 | `EngineTypeOK`, `NothingLost`, `ArenaMatchesFeed`, `BootSettles`, `WalkEnds`, `EveryRecordHandled` |
| `process` | 2 replies, up to two feeds of 3 records, capacity 2, 1 wakeup without a signal | `NotBothAsleep`, `ImplementsEngine`, `RecordsReachMain` |
| `benchmark` | 5 records a run, capacity 2, 2 spurious wakeups a run | `BenchTypeOK`, `DestroyIsSafe`, `ImplementsQueue`, `BenchmarkEnds` |
| `static_regular` | 33 by 402 pairs of files, among them missing ones | `RegularLinesKept` |
| `static_names` | route files without short lines | a finding |

Why the bounds are enough:

* **Ring buffer.** Two threads of each kind are the least for which a signal can
  be taken by a thread that was not waiting, and for which a thread sleeps while
  another of its kind is awake. Capacity 3 has states that are neither full nor
  empty, and indices that wrap. Two records that can be told apart show a
  reordering, by one place or two, in all interleavings of the four threads.
  To make that affordable the run has a view that leaves out values no later step
  reads: what a call returned, and the argument of a push that is over. The
  records of `benchmark` are all the same, as in its code, so that run says
  nothing of order; those of `process` differ. The proofs remove these bounds.
* **Arena.** Two writers race for a bucket; a third only waits. A window
  of 2 wraps after few calls. With two speeds and two timestamps a sample put
  together from two calls shows. Timestamps 1 and 6 under `StampModulus` 4 include one
  that the cast changes; `Stamp` is part of both sides of the refinement, so that
  the width of what is stored is a matter of `TypeOK`, and that the low bits of
  a timestamp are what is wanted is not claimed. `arena_safety` uses indices with one unused bit
  and four buckets, so that two buckets are in use and writers of different
  buckets run side by side; the other runs have at least as many unused bits as
  the mask, as the code does. The proofs remove these bounds.
* **Ingestion.** The replies are an empty body, one that does not decode, an
  empty feed, and two feeds of vehicles with all and with no optional fields and
  an entity that is none, in one and in two chunks. The two vehicles of
  a feed do not fit a buffer of 2 together with what an earlier cycle left
  there, so the walk waits. Texts are up to three characters for a destination of
  three bytes, so one is cut. `MaxLeaks` bounds the lost payloads: an empty reply is not
  offered once two are lost. `HeapDiscipline` counts a lost payload as given
  up; that it was not freed is what `ingestion_leak` is about.
* **Decoder.** For every message type and every way from the feed down to it:
  the required fields alone; each field once more, twice, in front, with a wrong
  and with an impossible wire type; each field dropped; every number up to 20
  that is not a field's; all fields in both orders. A vehicle with all fields
  follows in each feed. Further feeds have every occupancy status and one
  beyond for a vehicle with an identifier, a full bus without one, with a label
  only, with the identifier UNKNOWN (also when a second piece of the vehicle
  says so) and with one that begins with it, percentages around the sign bit (`UIntModulus` 256), vehicles whose
  parts arrive in pieces, and a trip update split in the middle of its trip. Texts are shorter than, as long as and longer
  than their destinations. The proofs remove these bounds, too.
* **Engine.** Vehicles that stay in a cell, take over a bucket, use another one,
  have no identifier, or are off the map, in feeds that do not fit the buffer,
  over two cycles and more. A window of 2 loses samples. `MaxRecords` bounds the
  history: a feed that would exceed it is not offered.
* **Process.** The feed has three vehicles with positions and one entity without,
  for a buffer of 2: the walk may sleep on a full buffer in each cycle, main on an
  empty one; `MaxRecords` 8 allows two such feeds. The other reply does not decode. What becomes of a record in the arena is left to
  `engine`, so the vehicles are few: one on the map, one sharing its bucket, one
  without an identifier. The proofs remove these bounds.
* **Benchmark.** Five records make a buffer of 2 wrap twice and be full and empty
  several times. `MaxSpurious` bounds wakeups without a signal. `BenchmarkEnds`
  excuses one thing only, a run whose producer could not be created and which
  therefore pushed nothing; main asleep behind a producer that has done its
  pushes is a violation.
* **Static files.** Two stop lines and three route lines after the header are
  enough for a name to survive from a line or a file and for a later line to
  override an earlier one.

Deadlock is checked except in `engine`, `process` and `benchmark`: a
process whose boot fails stops, and one without its thread waits for ever.
Elsewhere an idle thread can always start a call, and what has ended stutters
(`Finished`, `Done`, `Loaded`).

**Fairness.** `arena_refines` assumes weak fairness of each writer's own steps
inside `update`, that is, that the scheduler runs every thread. It does not
assume that a spinning writer ever wins, and nothing in the code guarantees
that: the property is that locks are released. `ingestion_cycle` assumes weak
fairness of the thread's own steps. It assumes none of the network, because
`fetch_gtfs_data` sets no timeout and `curl_easy_perform` may never return, and
none of the consumer. Hence the form of `ThreadStops`: after a shutdown the
thread ends, or it stays in the transfer for ever; it is never kept by a full
buffer. `engine` and `benchmark` assume weak fairness of each of their two
threads, again the scheduler, and again nothing of the network. `process` adds
strong fairness of main obtaining the mutex: the thread takes it for its test in
every cycle, so it is not free all the time, but then sleeps for 15 seconds
(main.cpp:113) with the mutex free, and no waiter is kept from it that long. `BootSettles`
allows for a thread that could not be created: main.cpp:132 does not look at
the result, and main then waits for ever. Weak fairness is
enough for the mutex in `benchmark`: a thread can overtake the other only until
the buffer is full or empty.

## 4. What is proved

All theorems hold for every value of the constants that meets the named
assumptions: sizes are positive, the set of threads of the buffer is finite, a
thread is not both producer and consumer, no cell is 0, timestamps are natural
numbers, a feed that decodes is a sequence of entities whose positions are on
the map and whose speeds and timestamps are numbers, process and benchmark have
one producer and one consumer, a file is a sequence of lines and a line has at least
one piece, what arrives as a feed are items with items inside wherever the schema
has a submessage (`FeedsAssumption`), and the word for an unknown text is a
sequence of characters shorter than any text that `internal_id` has to cut (in the
code 7 characters against 15).

| Theorem | Statement |
|---|---|
| `TypeCorrect`, `Mutex`, `Consistent`, `ShutdownSafe`, `WakeupSafe` | the five invariants of `ring_buffer` |
| `Refinement` | `RingBuffer` implements `BoundedQueue` |
| `ArenaTypeCorrect`, `ArenaExclusive` | the two invariants of `arena_safety` |
| `ArenaRefinement` | `SpatialArena` implements `RecentWindow` |
| `OneBucketForAll` | with as many unused bits as the mask is wide, all cells share a bucket |
| `IngestionTypeCorrect`, `HeapSafe`, `FeedOrdered` | the three invariants of `ingestion_cycle` |
| `ProcessRunsIngestion` | `Engine` implements `Ingestion` |
| `ProcessRunsArena` | `Engine` implements `RecentWindow`, main being the only writer |
| `EngineTypeCorrect`, `RecordsKept`, `ArenaFollowsFeed` | the three invariants of `engine` |
| `ProcessRunsEngine` | `Process` implements `Engine` |
| `ProcessRunsBuffer` | `Process` implements `RingBuffer`, main and the thread being its clients |
| `ProcessKeepsRecords`, `ProcessFilesRecords` | `NothingLost` and `ArenaMatchesFeed` for the threads of `Process` |
| `NeverBothAsleep` | the invariant of `process` |
| `BenchTypeCorrect`, `DestroySafe` | the two invariants of `benchmark` |
| `RunsShareQueue` | `BenchmarkBuffer` implements `BoundedQueue` |
| `DecodingFaithful`, `RecordsTell`, `OccupancyTell` | the three invariants of `decoder` |
| `NestingEnds` | the messages of a feed are nested at most six deep |
| `Lift` | a level of nesting is right if the next inner one is, for every schema |
| `NamesKept` | the invariant of `static_regular` |

**Ring buffer.** `TypeOK` is not inductive: `count + 1` is in range only if
`buffer_push` still has room when it advances, two steps after it tested.
`LocalInv` says what a thread inside a call knows: between store and advance
there is room, the slot at `head` holds its record and the flag is clear;
between load and advance there is something to take off `count`. It is
preserved because only the owner of the mutex moves the fields, so
`MutualExclusion` is part of the invariant `IInv`, with `RingConsistent` for the
contents. `NoLostWakeup` is inductive relative to `IInv`. Its proof counts: a
push adds one to `count` and takes itself out of the awake producers, and its
signal adds a consumer to the awake ones if any sleeps (`PublishWakes`,
`AdvanceWakes`); every other step leaves the sets of sleeping and awake threads
as they are or moves a thread in the harmless direction (`QuietPop`,
`QuietPush`). A thread that goes to sleep does so when nothing is there to take.

The refinement proof gives each step its effect on the mapped queue: advancing
`head` appends the record (`PutStep`), copying the record out removes the head
(`GetStep`), and storing into a slot or advancing `tail` changes nothing
(`StoreStep`, `AdvanceStep`), because the slot at `head` is not among those
between `tail` and `head` while there is room (`ModDistinct`).

**Arena.** `IInv` is `TypeOK`, `BucketExclusion` and `LocalInv`: what a writer
inside `update` has read and written is still so. `OthersKeep` is the core:
a step of one writer leaves alone the bucket that another one holds. The
refinement rests on the arithmetic of the circular array: writing at `head`
overwrites the oldest sample (`OverwriteOldest`), and advancing `head` afterwards
shifts every age by one (`AgesShift`, `AdvanceShifts`). Every step between lock
and unlock leaves the mapped window as it is, since `Completed` already includes
the sample. `OneBucketForAll` is arithmetic: such an index is one less than a
multiple of the number of buckets.

**Ingestion.** `IInv` adds `LocalInv` to the three properties: a reply is at hand
wherever it is used, a block of some size is there, nothing is left of a payload
at the head of the loop. `FeedInOrder` counts: the record of an entity stands at
its rank among the entities with a position, which makes it provable without
induction over the feed. A step of the walk either leaves all ranks as they are
(`SkipKeepsOrder`) or adds the next one (`PushKeepsOrder`).

**Engine.** Every step of the process is a step of the thread, a pop, or invisible
to `Ingestion` (`StepIsIngestionStep`); hence the process implements it, and
its invariant holds there. `Accounted` is `NothingLost` position by position: the
record at place k of the buffer is the one pushed k places after those that main
has taken. A push extends both sides (`ThreadEffect`), a pop moves one record into
main's hands, the end of an iteration moves it to those handled.

`ArenaMatchesFeed` is stated by positions in `accepted`, so that no part of a
sequence has to be selected: the age of a record in a bucket is the number of
records from it to the latest, in the longest run of one cell that ends there
(`Run`, `Age`). `EngineInv` has the call under way (`Calling`: main inside
`update` holds the sample of record `handled + 1`), the buckets (`WindowsRight`),
the counter (`CountRight`) and the bound on feeds (`RoomLeft`). One step changes
the buckets, that of `Record`: for its bucket the run gets one record longer or
starts anew (`RunGrows`), every age in it goes up by one and the register shifts
(`AgesWithNewest`, `PushShowsNewest`), and the other buckets have the same
records as before (`BucketFrame`). `CountRight` is separate because the counter
moves only when `update` returns, one step later.

**Process.** Seen from the buffer every step is one of `RingBuffer`
(`StepIsRingStep`), so `IInv` and `NoLostWakeup` hold. `PInv` adds where the two
threads can be: the call a thread is in is the one its client's control point
asks for, the record under way is that of the entity the walk is at, nobody sets
the flag (`Places`), and a walk is over a feed that decoded (`Feed`).
`NeverBothAsleep` follows by counting: with nobody awake inside the buffer,
`NoLostWakeup` would have it empty for main and full for the thread, and the
capacity is not 0. For the refinement there is a lemma for each sort of step.
The one that moves the indices is Engine's push (`AcceptsIsPush`), the one that
copies the record out its pop (`MainInsidePopsOrStutters`), a query that returns
its test of the flag (`QueryReturnsIsCheck`); calls, waits, signals, wakeups and
the other returns are stutters (`CallsStutter`, `IngesterInsideStutters`,
`PushReturnsStutters`, `PopReturnsStutters`); outside the buffer a step is the
same step of Engine (`MainOutsideIsMain`, `OutsideIsThread`).

With `RecordsKept` and `ArenaFollowsFeed` this gives the two theorems about the
whole path, from `buffer_push` through the waits and wakeups in `buffer.c` to the
buckets (`ProcessKeepsRecords`, `ProcessFilesRecords`). They cite the theorems of
`EngineProofs` under the substitution of `System`; that the assumptions of
Engine hold for it is `EngineAssumptions`, which TLC evaluates.

**Benchmark.** The proof is one of accounts (`Balance`): the records in the buffer,
with what pushes under way are yet to add and without what pops under way are
yet to remove, are as many as pushes were called more than pops. After the last
pop nothing can be left, and `StepEffect` says that no step of a thread inside
the buffer disturbs the account. The buffer's own `IInv` is preserved by
`buffer_init` because no call is under way then. For the same reason, and
because the buffer is empty whenever there is none (`Stages`), `buffer_init` is
invisible to the abstract queue (`BufferInitUnseen`), and every other step is one
of `RingBuffer` (`ClientCallsBuffer`), for which `StepRefines` is proved.

**Decoder.** The argument goes up through the levels of nesting and down again
along the fields that are read. The tables come first: for each of the 28
descriptors a lemma says that its ranges send every position to the number of
the field there, and `LookupFindsFields` concludes that a number is found at the
field that has it and nowhere else. Second, the recursive functions of sequences:
such a function is unfolded once it is shown to exist (`AscendingUpto`,
`ConcatenatedUpto`, `UnpackedUpto`), and induction over lengths is stated about
sets of lengths (`Induction`, from the well-foundedness of `<`), since the
library's induction theorems take operators that no prover here instantiates. The
lemmas that carry the rest are about joining: the items of a field in the
concatenation of two messages are those in the first and then those in the
second (`ValuesJoin`).

A level is right if unpacking yields what the items denote (`UnpacksLaw`), is
refused exactly for items that are not well formed (`RefusesLaw`), and merging
two messages that denote their parts denotes all parts together (`MergeLaw`).
`Lift` derives the three laws of a level from those of the next inner one.
`FeedDecoderProofs` instantiates it six times (`Laws1` to `Laws6`), from a level
where no type is admitted to the feed. That six levels are all there are is
`NestingEnds`: every message type has a height, a feed 6, and it falls along
submessages. So the induction over the nesting is finite, and its step is one
theorem for every schema.

For the records, `FieldRead` says once for every level that a field is found in
a decoded message exactly if its number is among the items, with what the last
one says, and that a submessage is what its parts say. `Read3` to `Read5` follow
the pointers of `parser.c` in the same way, `ReadsAsSent` is the outcome for all
fields of a record, and `RecordsPaired` matches records and vehicles by position.
What main reports needs one fact more: the stored identifier is the word UNKNOWN
exactly if nothing or that word was sent (`RecordNamedAsSent`), because the word is
too short to be what is left of a longer text (`CutToUnknown`).

**Static files.** `Kept`, for the lines read so far, is inductive as it stands
(`LineStored`): a line sets the entry of one identifier, and it is the
identifier that the line names, unless the line is irregular in its first value
(`StoredNames`, `NamedStored`). For a regular line the k-th piece is the k-th
value (`RegularColumn`). Values are found by rank, not by recursion: the v-th
value starts at the piece of `Starts` that has v - 1 others before it.

## 5. What is only model-checked

Every invariant and every refinement that a passing run checks is proved. The
seven other properties are not: `LockReleased`, `ThreadStops`, `BootSettles`,
`WalkEnds`, `EveryRecordHandled`, `RecordsReachMain` and `BenchmarkEnds` are
liveness under fairness, which is beyond the prover (it has no ENABLED). TLC
checks them on the instances of section 3.

## 6. Plan

Done: ring buffer, arena and ingestion thread, in this order because the buffer
carries all data between threads and the arena is where it ends up; then the
process around them, the life cycle of the buffer, the decoder with its tables
and the static loader; then the proofs about thread, process, life cycle and
loader; then the two threads on the code of the buffer, which joins the proofs
about the buffer with those about the process; then the decoder by levels, which
made its invariants provable.

Left: nothing that the plan named. What remains model-checked is in section 5.

## 7. Findings

* `arena_readme_lock`: the low 17 bits that storage.cpp:37 keeps are among the
  18 that H3 sets in every index of resolution 9, so all cells share one bucket
  and one lock, against README.md:61. `OneBucketForAll` is the general fact.
* `ingestion_leak`: a transfer that succeeds with an empty body loses the block
  that `fetch_gtfs_data` allocated (main.cpp:109), against README.md:148.
* `static_names`: a comma inside a quoted value is taken for a separator
  (main.cpp:62), so the name stored is not the one main.cpp:64 speaks of. What
  `static_regular` shows is that other identifiers are not affected.

Noted on the way, with no run of their own:

* A line with too few fields gets the name of the line before it, since `name`
  outlives the line (main.cpp:44). `RouteLine` has this behaviour.
* `pthread_create` at main.cpp:132 is not checked; without the thread the
  process says it is online and never fetches (the third case of `BootSettles`).
* A vehicle that sends no identifier, or the identifier UNKNOWN, is not reported
  and not counted in the arena, however many passengers it has (main.cpp:143);
  `OccupancyTruthful` says so.
* The comment at buffer.c:42 says a push that finds the buffer full and shut
  down waits; the code, rightly, returns at once (`PushRefused`).
* README.md:63 says a bucket holds the 60 most recent values, and README.md:150
  that aliased cells may mix samples. The code clears the window when another
  cell arrives. Nothing is mixed (`ArenaRefinement`), and the earlier samples
  are gone.

## 8. Not modelled

* `benchmark_storage.cpp`: a sequential client of `update`; `SpatialArena` with
  one writer.
* Generated wrappers for packing and for messages other than the feed: never
  called. Tables by name and the layout of the C structs: nothing in the program
  depends on them beyond what the descriptors say.
* The code after main's endless loop: unreachable.
* The length of a reply in bytes: the fetcher collects whatever comes, and a
  finite model has a longest reply by construction.
* Cache-line alignment, log output, HTTP options.
