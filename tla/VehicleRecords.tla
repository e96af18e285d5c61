--------------------------- MODULE VehicleRecords ---------------------------
(***************************************************************************)
(* The VehicleData record of include/buffer.h: how parse_and_queue makes   *)
(* one from an entity of the feed, and what main reads from it.  An entity *)
(* is a function from the names of the fields that are present to their    *)
(* values; a text is a sequence of characters.                             *)
(***************************************************************************)
EXTENDS Integers, Sequences

CONSTANTS
    Unknown,     \* the text "UNKNOWN"
    IdSize,      \* sizeof fleet_number, internal_id and route_id: 16
    StopSize,    \* sizeof stop_id: 32
    UIntModulus  \* a uint32_t is smaller than this: 2^32

ASSUME WidthsAssumption == /\ IdSize \in Nat \ {0}
                           /\ StopSize \in Nat \ {0}
                           /\ UIntModulus \in Nat \ {0}

\* entity->vehicle && entity->vehicle->position
HasPosition(e) == "position" \in DOMAIN e

\* Mutation: no room is left for the final zero.
CopiedFull(text, n) == SubSeq(text, 1, IF Len(text) < n THEN Len(text) ELSE n)

\* strncpy with the size of the destination minus one, then the final zero.
Copied(text, n) == SubSeq(text, 1, IF Len(text) < n THEN Len(text) ELSE n - 1)

\* A uint32_t stored in an int.
ToInt(n) == IF n < UIntModulus \div 2 THEN n ELSE n - UIntModulus

\* The percentage is computed as a uint32_t, also the -1 that stands for none.
Flatten(e) ==
    LET or(f, default) == IF f \in DOMAIN e THEN e[f] ELSE default
    IN  [fleet_number         |-> Copied(or("label", or("id", Unknown)), IdSize),
         internal_id          |-> Copied(or("vehicle_id", Unknown), IdSize),
         route_id             |-> Copied(or("route_id", Unknown), IdSize),
         stop_id              |-> Copied(or("stop_id", Unknown), StopSize),
         position             |-> e["position"],
         speed                |-> or("speed", 0),
         occupancy_status     |-> or("occupancy_status", 7),
         occupancy_percentage |-> ToInt(or("occupancy_percentage", UIntModulus - 1)),
         bearing              |-> or("bearing", 0),
         timestamp            |-> or("timestamp", 0),
         current_status       |-> or("current_status", 2),
         congestion_level     |-> or("congestion_level", 0)]

-----------------------------------------------------------------------------
(* What main's loop asks of a record. *)

\* Mutation: strncmp is given the length of the word, not the field's.
AnonymousByPrefix(record) ==
    /\ Len(record.internal_id) >= Len(Unknown)
    /\ SubSeq(record.internal_id, 1, Len(Unknown)) = Unknown

\* The vehicle has no identifier and main goes on to the next record.
Anonymous(record) == record.internal_id = Unknown

\* Mutation: the boundary belongs to the statuses that are reported.
HasPassengersInclusive(record) == ~Anonymous(record) /\ record.occupancy_status \in 1 .. 5

\* The record gets as far as the report and is one of PASSENGERS DETECTED.
HasPassengers(record) ==
    /\ ~Anonymous(record)
    /\ record.occupancy_status > 1 /\ record.occupancy_status < 6

\* The words of the report for a status.
get_occupancy_string(status) ==
    LET texts == <<"EMPTY", "MANY SEATS", "FEW SEATS", "STANDING ROOM ONLY",
                   "CRUSHED STANDING", "FULL", "NOT ACCEPTING PASSENGERS",
                   "NO DATA", "NOT BOARDABLE">>
    IN  IF status \in 0 .. 8 THEN texts[status + 1] ELSE "UNKNOWN"

=============================================================================
