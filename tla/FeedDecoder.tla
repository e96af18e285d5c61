---------------------------- MODULE FeedDecoder ----------------------------
(***************************************************************************)
(* How the bytes of a feed become the entities that parse_and_queue walks: *)
(* transit_realtime__feed_message__unpack, driven by the tables of         *)
(* GtfsSchema, and the fields of the result that parser.c reads.           *)
(***************************************************************************)
EXTENDS FeedWire, VehicleRecords

CONSTANT Feeds   \* a family of what may arrive, each a sequence of items

VARIABLES
    wire,     \* the bytes passed to unpack
    status,   \* "raw", "unpacked", "null" (unpack returned NULL), "freed"
    msg       \* the decoded message

vars == <<wire, status, msg>>

-----------------------------------------------------------------------------
(* The messages of GTFS-Realtime are nested at most six deep: a feed has   *)
(* entities, an alert in one selects entities, by a trip, which may be a   *)
(* modified one.  Level0 is what is never reached.                         *)

Level0Unpacked(type, items) == {}
Level0merge_messages(type, earlier, latter) == latter
Level0IsWire(type, items) == FALSE
Level0WellFormed(type, items) == FALSE
Level0Denotes(type, m, parts) == FALSE

Level1 == INSTANCE MessageLevel WITH
    UnpackedInside <- Level0Unpacked, MergedInside <- Level0merge_messages,
    IsWireInside <- Level0IsWire, WellFormedInside <- Level0WellFormed,
    DenotesInside <- Level0Denotes

Level2 == INSTANCE MessageLevel WITH
    UnpackedInside <- Level1!Unpacked, MergedInside <- Level1!merge_messages,
    IsWireInside <- Level1!IsWire, WellFormedInside <- Level1!WellFormed,
    DenotesInside <- Level1!Denotes

Level3 == INSTANCE MessageLevel WITH
    UnpackedInside <- Level2!Unpacked, MergedInside <- Level2!merge_messages,
    IsWireInside <- Level2!IsWire, WellFormedInside <- Level2!WellFormed,
    DenotesInside <- Level2!Denotes

Level4 == INSTANCE MessageLevel WITH
    UnpackedInside <- Level3!Unpacked, MergedInside <- Level3!merge_messages,
    IsWireInside <- Level3!IsWire, WellFormedInside <- Level3!WellFormed,
    DenotesInside <- Level3!Denotes

Level5 == INSTANCE MessageLevel WITH
    UnpackedInside <- Level4!Unpacked, MergedInside <- Level4!merge_messages,
    IsWireInside <- Level4!IsWire, WellFormedInside <- Level4!WellFormed,
    DenotesInside <- Level4!Denotes

Level6 == INSTANCE MessageLevel WITH
    UnpackedInside <- Level5!Unpacked, MergedInside <- Level5!merge_messages,
    IsWireInside <- Level5!IsWire, WellFormedInside <- Level5!WellFormed,
    DenotesInside <- Level5!Denotes

NoMessage == Level6!NoMessage
Unpacked(type, items) == Level6!Unpacked(type, items)

-----------------------------------------------------------------------------
(* What parse_and_queue reads of an entity. *)

\* The field of the given name in a message that may be absent: v->name, or {}
\* when v is NULL or the field is not there.
At(v, name) == {m[name] : m \in {u \in v : name \in DOMAIN u}}

\* Where parse_and_queue finds the fields of a record in an entity.
Reads(e) ==
    LET vehicle == At({e}, "vehicle")
        descriptor == At(vehicle, "vehicle")
        position == At(vehicle, "position")
    IN  [id |-> At({e}, "id"), label |-> At(descriptor, "label"),
         vehicle_id |-> At(descriptor, "id"),
         route_id |-> At(At(vehicle, "trip"), "route_id"),
         stop_id |-> At(vehicle, "stop_id"),
         position |-> {<<p["latitude"], p["longitude"]>> : p \in position},
         speed |-> At(position, "speed"), bearing |-> At(position, "bearing"),
         occupancy_status |-> At(vehicle, "occupancy_status"),
         occupancy_percentage |-> At(vehicle, "occupancy_percentage"),
         timestamp |-> At(vehicle, "timestamp"),
         current_status |-> At(vehicle, "current_status"),
         congestion_level |-> At(vehicle, "congestion_level")]

\* An entity in the form that Flatten takes.
EntityView(e) ==
    [f \in {g \in DOMAIN Reads(e) : Reads(e)[g] # {}} |-> CHOOSE v \in Reads(e)[f] : TRUE]

\* msg->entity, as Ingestion has it in the feed of a reply.
Entities(m) ==
    IF "entity" \notin DOMAIN m THEN << >>
    ELSE [k \in 1 .. Len(m["entity"]) |-> EntityView(m["entity"][k])]

\* The records that parse_and_queue pushes, if the buffer takes them all.
Records(m) ==
    LET positioned == {k \in DOMAIN Entities(m) : HasPosition(Entities(m)[k])}
        walked == Chosen(Entities(m), positioned)
    IN  [k \in DOMAIN walked |-> Flatten(walked[k])]

-----------------------------------------------------------------------------
Init ==
    /\ \E k \in DOMAIN Feeds : wire = Feeds[k]
    /\ status = "raw"
    /\ msg = NoMessage

\* transit_realtime__feed_message__unpack returns a message.
Unpack ==
    /\ status = "raw"
    /\ \E m \in Unpacked("FeedMessage", wire) : msg' = m
    /\ status' = "unpacked"
    /\ UNCHANGED wire

\* It returns NULL: the bytes are malformed or lack a required field.  (That
\* there may also be no memory for the message is part of Ingestion.)
UnpackFails ==
    /\ status = "raw"
    /\ Unpacked("FeedMessage", wire) = {}
    /\ status' = "null"
    /\ UNCHANGED <<wire, msg>>

\* After the walk the message is freed, with everything it points to.
FreeUnpacked ==
    /\ status = "unpacked"
    /\ status' = "freed"
    /\ msg' = NoMessage
    /\ UNCHANGED wire

Done == status \in {"null", "freed"} /\ UNCHANGED vars

Next == Unpack \/ UnpackFails \/ FreeUnpacked \/ Done

Spec == Init /\ [][Next]_vars

-----------------------------------------------------------------------------
(* The reference: GTFS-Realtime in terms of field numbers. *)

WellFormed(type, items) == Level6!WellFormed(type, items)
Denotes(type, m, parts) == Level6!Denotes(type, m, parts)

\* Whatever arrives is items, with items inside wherever a submessage is.
ASSUME FeedsAssumption == \A k \in DOMAIN Feeds : Level6!IsWire("FeedMessage", Feeds[k])

\* The word "UNKNOWN" is shorter than any text that internal_id has to cut.
ASSUME UnknownAssumption == IsSequence(Unknown) /\ Len(Unknown) < IdSize - 1

\* The parts of a submessage by its number, and the last value of another field,
\* as a set of one or none.
Inner(parts, number) == Values(Concatenated(parts), number)
Sent(parts, number) == LET values == Inner(parts, number)
                       IN  IF values = << >> THEN {} ELSE {Last(values)}

\* The number and the default value of a field of the schema.
FieldNamed(type, name) == CHOOSE f \in Fields(type) : f.name = name

-----------------------------------------------------------------------------
(* Correctness. *)

\* The tables of the generated code and their lookup by number ranges lead to
\* the message the bytes stand for, for every message type of the schema, with
\* unknown, repeated, split and out-of-order fields; unpack gives NULL for
\* exactly the feeds that are malformed somewhere, be it in an alert that
\* parse_and_queue would not have looked at.
Faithful ==
    /\ status = "unpacked" => /\ WellFormed("FeedMessage", wire)
                              /\ Denotes("FeedMessage", msg, <<wire>>)
    /\ status = "null" => ~WellFormed("FeedMessage", wire)

\* The entities of the wire that parse_and_queue must turn into records.
Vehicles ==
    LET entities == Values(wire, 2)
    IN  Chosen(entities, {k \in DOMAIN entities : Inner(Inner(<<entities[k]>>, 4), 2) # << >>})

\* The part of a text that a field of the given size can hold with its final 0.
Fits(stored, text, size) ==
    /\ IsPrefix(stored, text)
    /\ \/ Len(stored) = Len(text) /\ Len(text) < size
       \/ Len(stored) = size - 1 /\ Len(text) >= size

\* What was sent, or the default if nothing was.
SentOr(sent, default) == IF sent = {} THEN default ELSE CHOOSE v \in sent : TRUE

\* The record r says of a vehicle what the items of its entity say.
SaysAsSent(r, entity) ==
    LET vehicle == Inner(entity, 4)
        position == Inner(vehicle, 2)
        descriptor == Inner(vehicle, 8)
    IN  /\ Sent(position, 1) = {r.position[1]}
        /\ Sent(position, 2) = {r.position[2]}
        /\ Fits(r.fleet_number,
                SentOr(Sent(descriptor, 2), SentOr(Sent(entity, 1), Unknown)), IdSize)
        /\ Fits(r.internal_id, SentOr(Sent(descriptor, 1), Unknown), IdSize)
        /\ Fits(r.route_id, SentOr(Sent(Inner(vehicle, 1), 5), Unknown), IdSize)
        /\ Fits(r.stop_id, SentOr(Sent(vehicle, 7), Unknown), StopSize)
        /\ r.bearing = SentOr(Sent(position, 3), 0)
        /\ r.speed = SentOr(Sent(position, 5), 0)
        /\ r.timestamp = SentOr(Sent(vehicle, 5), 0)
        /\ {r.current_status} =
             IF Sent(vehicle, 4) # {} THEN Sent(vehicle, 4)
             ELSE FieldNamed("VehiclePosition", "current_status").default
        /\ r.congestion_level =
             SentOr(Sent(vehicle, 6), CongestionLevel.UNKNOWN_CONGESTION_LEVEL)

\* Each record is that of its own vehicle: by the field numbers of GTFS-Realtime
\* its texts, coordinates and readings are the last ones sent for it, and what
\* was not sent shows as the schema's default or as its word for no data.
\* latitude and longitude, read without a test, were sent.
RecordsTruthful ==
    status = "unpacked" =>
      /\ Len(Records(msg)) = Len(Vehicles)
      /\ \A k \in DOMAIN Records(msg) : SaysAsSent(Records(msg)[k], <<Vehicles[k]>>)

\* The entity names its vehicle, and not by the word for no name.
Named(entity) == Sent(Inner(Inner(entity, 4), 8), 1) \notin {{}, {Unknown}}

\* What main makes of the occupancy in the record r of an entity.
ReportsAsSent(r, entity) ==
    LET sent == Sent(Inner(entity, 4), 9)
        percentage == Sent(Inner(entity, 4), 10)
        statuses == {OccupancyStatus[n] : n \in DOMAIN OccupancyStatus}
        shown == get_occupancy_string(r.occupancy_status)
    IN  /\ HasPassengers(r) <=>
             /\ Named(entity)
             /\ \E n \in {"FEW_SEATS_AVAILABLE", "STANDING_ROOM_ONLY",
                          "CRUSHED_STANDING_ROOM_ONLY", "FULL"} :
                      sent = {OccupancyStatus[n]}
        /\ sent = {} => shown = get_occupancy_string(OccupancyStatus.NO_DATA_AVAILABLE)
        /\ r.occupancy_status \notin statuses <=> shown = "UNKNOWN"
        /\ \A s \in statuses \ {r.occupancy_status} : get_occupancy_string(s) # shown
        /\ percentage = {} => r.occupancy_percentage = -1
        /\ \A p \in percentage : p < UIntModulus \div 2 => r.occupancy_percentage = p

\* main reports passengers exactly for the vehicles whose feed names them and
\* gives them a status from few seats to full in the schema's words.  A vehicle
\* without an identifier, or with the identifier UNKNOWN, is passed over however
\* full it is; one whose identifier only begins with UNKNOWN, is empty or had to
\* be cut is not.  Each status of the schema is described in words of its own and
\* no other number is; the percentage shown is the one that was sent if an int
\* holds it, and -1 if none was.
OccupancyTruthful ==
    status = "unpacked" =>
      \A k \in DOMAIN Records(msg) : ReportsAsSent(Records(msg)[k], <<Vehicles[k]>>)

=============================================================================
