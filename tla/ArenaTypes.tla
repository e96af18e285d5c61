----------------------------- MODULE ArenaTypes -----------------------------
(***************************************************************************)
(* The vocabulary of the spatial arena: the arguments of an update, the    *)
(* bucket a cell is routed to, and windows of samples.  Shared by the      *)
(* model of storage.cpp and by the specification it implements.            *)
(***************************************************************************)
EXTENDS Integers

CONSTANTS
    Writers,       \* threads that call SpatialArena::update
    Cells,         \* the H3 indices that coordinates map to; 0 is none of them
    Speeds,        \* speeds a caller passes
    Timestamps,    \* timestamps a caller passes
    BucketCount,   \* BUCKET_COUNT: 131072
    WindowSize,    \* samples in a TimeWindow: 60
    StampModulus   \* a stored timestamp is smaller than this: 2^32

ASSUME SizesAssumption == /\ BucketCount \in Nat \ {0}
                          /\ WindowSize \in Nat \ {0}
                          /\ StampModulus \in Nat \ {0}
ASSUME InputsAssumption == /\ Cells \subseteq Nat \ {0}
                           /\ Timestamps \subseteq Nat

Buckets == 0 .. BucketCount - 1

\* hex_id & (BUCKET_COUNT - 1), the remainder because the count is a power of 2.
BucketOf(cell) == cell % BucketCount
ASSUME PowerOfTwo == \E k \in 0 .. BucketCount : BucketCount = 2 ^ k

\* The index that H3 gives to a place.  Below the digits of its resolution an
\* index has a digit 7, three bits set, for each of the finer resolutions up to
\* 15: unused = 3 * (15 - H3_RESOLUTION) = 18 bits for storage.cpp.
H3Cell(place, unused) == place * 2 ^ unused + (2 ^ unused - 1)

\* The arguments of update.  Coordinates are represented by the cell that
\* latLngToCell maps them to, or by 0 when it returns an error.
Args == [cell : Cells \cup {0}, speed : Speeds, timestamp : Timestamps]
NoArgs == [cell |-> 0, speed |-> 0, timestamp |-> 0]

\* static_cast<uint32_t>(timestamp) keeps the low 32 bits.
Stamp(timestamp) == timestamp % StampModulus

\* A window as a list of samples, most recent first.
Ages == 1 .. WindowSize
Sample(a) == [speed |-> a.speed, stamp |-> Stamp(a.timestamp)]
EmptyWindow == [j \in Ages |-> [speed |-> 0, stamp |-> 0]]

\* The window after sample s arrives: the oldest sample falls out.
Pushed(window, s) == [j \in Ages |-> IF j = 1 THEN s ELSE window[j - 1]]

=============================================================================
