----------------------------- MODULE GtfsSchema -----------------------------
(***************************************************************************)
(* The tables of src/ingestion/gtfs-realtime.pb-c.c: what a GTFS-Realtime  *)
(* message of each type consists of, as the protobuf-c runtime reads it.   *)
(*                                                                         *)
(* An enumeration maps its names to their numbers.  A message descriptor   *)
(* has its fields, in the order of their numbers, and its number ranges.   *)
(* A range <<s, k>> says that the fields numbered s, s + 1, ... are those  *)
(* from position k of the table (from 0) up to the position with which the *)
(* next range starts; the last entry only ends the one before it.          *)
(*                                                                         *)
(* A field has a number, a name, a label, the name of its type (a scalar   *)
(* type, an enumeration or a message) and its default value, {} when the   *)
(* table has none.  The tables by name serve lookups that nothing in the   *)
(* program makes and are left out, and so are the offsets of the fields in *)
(* the C structs.                                                          *)
(***************************************************************************)
EXTENDS Integers, Sequences

Field(id, name, label, type) ==
    [id |-> id, name |-> name, label |-> label, type |-> type, default |-> {}]

Required(id, name, type) == Field(id, name, "REQUIRED", type)
Optional(id, name, type) == Field(id, name, "OPTIONAL", type)
Repeated(id, name, type) == Field(id, name, "REPEATED", type)

\* A field with a default value.
Or(field, value) == [field EXCEPT !.default = {value}]

-----------------------------------------------------------------------------
(* Enumerations. *)

Incrementality ==
    [FULL_DATASET |-> 0, DIFFERENTIAL |-> 1]

DropOffPickupType ==
    [REGULAR |-> 0, NONE |-> 1, PHONE_AGENCY |-> 2, COORDINATE_WITH_DRIVER |-> 3]

StopTimeUpdate_ScheduleRelationship ==
    [SCHEDULED |-> 0, SKIPPED |-> 1, NO_DATA |-> 2, UNSCHEDULED |-> 3]

VehicleStopStatus ==
    [INCOMING_AT |-> 0, STOPPED_AT |-> 1, IN_TRANSIT_TO |-> 2]

CongestionLevel ==
    [UNKNOWN_CONGESTION_LEVEL |-> 0, RUNNING_SMOOTHLY |-> 1, STOP_AND_GO |-> 2,
     CONGESTION |-> 3, SEVERE_CONGESTION |-> 4]

OccupancyStatus ==
    [EMPTY |-> 0, MANY_SEATS_AVAILABLE |-> 1, FEW_SEATS_AVAILABLE |-> 2,
     STANDING_ROOM_ONLY |-> 3, CRUSHED_STANDING_ROOM_ONLY |-> 4, FULL |-> 5,
     NOT_ACCEPTING_PASSENGERS |-> 6, NO_DATA_AVAILABLE |-> 7, NOT_BOARDABLE |-> 8]

Cause ==
    [UNKNOWN_CAUSE |-> 1, OTHER_CAUSE |-> 2, TECHNICAL_PROBLEM |-> 3, STRIKE |-> 4,
     DEMONSTRATION |-> 5, ACCIDENT |-> 6, HOLIDAY |-> 7, WEATHER |-> 8,
     MAINTENANCE |-> 9, CONSTRUCTION |-> 10, POLICE_ACTIVITY |-> 11,
     MEDICAL_EMERGENCY |-> 12]

Effect ==
    [NO_SERVICE |-> 1, REDUCED_SERVICE |-> 2, SIGNIFICANT_DELAYS |-> 3,
     DETOUR |-> 4, ADDITIONAL_SERVICE |-> 5, MODIFIED_SERVICE |-> 6,
     OTHER_EFFECT |-> 7, UNKNOWN_EFFECT |-> 8, STOP_MOVED |-> 9, NO_EFFECT |-> 10,
     ACCESSIBILITY_ISSUE |-> 11]

SeverityLevel ==
    [UNKNOWN_SEVERITY |-> 1, INFO |-> 2, WARNING |-> 3, SEVERE |-> 4]

\* NEW is a word of TLA+.
TripDescriptor_ScheduleRelationship ==
    [SCHEDULED |-> 0, ADDED |-> 1, UNSCHEDULED |-> 2, CANCELED |-> 3,
     REPLACEMENT |-> 5, DUPLICATED |-> 6, DELETED |-> 7, NEW_ |-> 8]

WheelchairAccessible ==
    [NO_VALUE |-> 0, UNKNOWN |-> 1, WHEELCHAIR_ACCESSIBLE |-> 2,
     WHEELCHAIR_INACCESSIBLE |-> 3]

WheelchairBoarding ==
    [UNKNOWN |-> 0, AVAILABLE |-> 1, NOT_AVAILABLE |-> 2]

-----------------------------------------------------------------------------
(* Messages. *)

FeedMessage ==
    [fields |-> <<Required(1, "header", "FeedHeader"),
                  Repeated(2, "entity", "FeedEntity")>>,
     ranges |-> <<<<1, 0>>, <<0, 2>>>>]

FeedHeader ==
    [fields |-> <<Required(1, "gtfs_realtime_version", "STRING"),
                  Or(Optional(2, "incrementality", "Incrementality"),
                     Incrementality.FULL_DATASET),
                  Optional(3, "timestamp", "UINT64"),
                  Optional(4, "feed_version", "STRING")>>,
     ranges |-> <<<<1, 0>>, <<0, 4>>>>]

FeedEntity ==
    [fields |-> <<Required(1, "id", "STRING"),
                  Or(Optional(2, "is_deleted", "BOOL"), 0),
                  Optional(3, "trip_update", "TripUpdate"),
                  Optional(4, "vehicle", "VehiclePosition"),
                  Optional(5, "alert", "Alert"), Optional(6, "shape", "Shape"),
                  Optional(7, "stop", "Stop"),
                  Optional(8, "trip_modifications", "TripModifications")>>,
     ranges |-> <<<<1, 0>>, <<0, 8>>>>]

StopTimeEvent ==
    [fields |-> <<Optional(1, "delay", "INT32"), Optional(2, "time", "INT64"),
                  Optional(3, "uncertainty", "INT32"),
                  Optional(4, "scheduled_time", "INT64")>>,
     ranges |-> <<<<1, 0>>, <<0, 4>>>>]

StopTimeProperties ==
    [fields |-> <<Optional(1, "assigned_stop_id", "STRING"),
                  Optional(2, "stop_headsign", "STRING"),
                  Optional(3, "pickup_type", "DropOffPickupType"),
                  Optional(4, "drop_off_type", "DropOffPickupType")>>,
     ranges |-> <<<<1, 0>>, <<0, 4>>>>]

StopTimeUpdate ==
    [fields |-> <<Optional(1, "stop_sequence", "UINT32"),
                  Optional(2, "arrival", "StopTimeEvent"),
                  Optional(3, "departure", "StopTimeEvent"),
                  Optional(4, "stop_id", "STRING"),
                  Or(Optional(5, "schedule_relationship",
                              "StopTimeUpdate_ScheduleRelationship"),
                     StopTimeUpdate_ScheduleRelationship.SCHEDULED),
                  Optional(6, "stop_time_properties", "StopTimeProperties"),
                  Optional(7, "departure_occupancy_status", "OccupancyStatus")>>,
     ranges |-> <<<<1, 0>>, <<0, 7>>>>]

TripProperties ==
    [fields |-> <<Optional(1, "trip_id", "STRING"),
                  Optional(2, "start_date", "STRING"),
                  Optional(3, "start_time", "STRING"),
                  Optional(4, "shape_id", "STRING"),
                  Optional(5, "trip_headsign", "STRING"),
                  Optional(6, "trip_short_name", "STRING")>>,
     ranges |-> <<<<1, 0>>, <<0, 6>>>>]

TripUpdate ==
    [fields |-> <<Required(1, "trip", "TripDescriptor"),
                  Repeated(2, "stop_time_update", "StopTimeUpdate"),
                  Optional(3, "vehicle", "VehicleDescriptor"),
                  Optional(4, "timestamp", "UINT64"), Optional(5, "delay", "INT32"),
                  Optional(6, "trip_properties", "TripProperties")>>,
     ranges |-> <<<<1, 0>>, <<0, 6>>>>]

CarriageDetails ==
    [fields |-> <<Optional(1, "id", "STRING"), Optional(2, "label", "STRING"),
                  Or(Optional(3, "occupancy_status", "OccupancyStatus"),
                     OccupancyStatus.NO_DATA_AVAILABLE),
                  Or(Optional(4, "occupancy_percentage", "INT32"), -1),
                  Optional(5, "carriage_sequence", "UINT32")>>,
     ranges |-> <<<<1, 0>>, <<0, 5>>>>]

VehiclePosition ==
    [fields |-> <<Optional(1, "trip", "TripDescriptor"),
                  Optional(2, "position", "Position"),
                  Optional(3, "current_stop_sequence", "UINT32"),
                  Or(Optional(4, "current_status", "VehicleStopStatus"),
                     VehicleStopStatus.IN_TRANSIT_TO),
                  Optional(5, "timestamp", "UINT64"),
                  Optional(6, "congestion_level", "CongestionLevel"),
                  Optional(7, "stop_id", "STRING"),
                  Optional(8, "vehicle", "VehicleDescriptor"),
                  Optional(9, "occupancy_status", "OccupancyStatus"),
                  Optional(10, "occupancy_percentage", "UINT32"),
                  Repeated(11, "multi_carriage_details", "CarriageDetails")>>,
     ranges |-> <<<<1, 0>>, <<0, 11>>>>]

Alert ==
    [fields |-> <<Repeated(1, "active_period", "TimeRange"),
                  Repeated(5, "informed_entity", "EntitySelector"),
                  Or(Optional(6, "cause", "Cause"), Cause.UNKNOWN_CAUSE),
                  Or(Optional(7, "effect", "Effect"), Effect.UNKNOWN_EFFECT),
                  Optional(8, "url", "TranslatedString"),
                  Optional(10, "header_text", "TranslatedString"),
                  Optional(11, "description_text", "TranslatedString"),
                  Optional(12, "tts_header_text", "TranslatedString"),
                  Optional(13, "tts_description_text", "TranslatedString"),
                  Or(Optional(14, "severity_level", "SeverityLevel"),
                     SeverityLevel.UNKNOWN_SEVERITY),
                  Optional(15, "image", "TranslatedImage"),
                  Optional(16, "image_alternative_text", "TranslatedString"),
                  Optional(17, "cause_detail", "TranslatedString"),
                  Optional(18, "effect_detail", "TranslatedString")>>,
     ranges |-> <<<<1, 0>>, <<5, 1>>, <<10, 5>>, <<0, 14>>>>]

\* Mutation: the ranges end one field too early.
TimeRangeShort ==
    [fields |-> <<Optional(1, "start", "UINT64"), Optional(2, "end", "UINT64")>>,
     ranges |-> <<<<1, 0>>, <<0, 1>>>>]

TimeRange ==
    [fields |-> <<Optional(1, "start", "UINT64"), Optional(2, "end", "UINT64")>>,
     ranges |-> <<<<1, 0>>, <<0, 2>>>>]

Position ==
    [fields |-> <<Required(1, "latitude", "FLOAT"),
                  Required(2, "longitude", "FLOAT"),
                  Optional(3, "bearing", "FLOAT"),
                  Optional(4, "odometer", "DOUBLE"), Optional(5, "speed",
                           "FLOAT")>>,
     ranges |-> <<<<1, 0>>, <<0, 5>>>>]

ModifiedTripSelector ==
    [fields |-> <<Optional(1, "modifications_id", "STRING"),
                  Optional(2, "affected_trip_id", "STRING"),
                  Optional(3, "start_time", "STRING"),
                  Optional(4, "start_date", "STRING")>>,
     ranges |-> <<<<1, 0>>, <<0, 4>>>>]

TripDescriptor ==
    [fields |-> <<Optional(1, "trip_id", "STRING"),
                  Optional(2, "start_time", "STRING"),
                  Optional(3, "start_date", "STRING"),
                  Optional(4, "schedule_relationship",
                           "TripDescriptor_ScheduleRelationship"),
                  Optional(5, "route_id", "STRING"),
                  Optional(6, "direction_id", "UINT32"),
                  Optional(7, "modified_trip", "ModifiedTripSelector")>>,
     ranges |-> <<<<1, 0>>, <<0, 7>>>>]

VehicleDescriptor ==
    [fields |-> <<Optional(1, "id", "STRING"), Optional(2, "label", "STRING"),
                  Optional(3, "license_plate", "STRING"),
                  Or(Optional(4, "wheelchair_accessible", "WheelchairAccessible"),
                     WheelchairAccessible.NO_VALUE)>>,
     ranges |-> <<<<1, 0>>, <<0, 4>>>>]

EntitySelector ==
    [fields |-> <<Optional(1, "agency_id", "STRING"),
                  Optional(2, "route_id", "STRING"),
                  Optional(3, "route_type", "INT32"),
                  Optional(4, "trip", "TripDescriptor"),
                  Optional(5, "stop_id", "STRING"),
                  Optional(6, "direction_id", "UINT32")>>,
     ranges |-> <<<<1, 0>>, <<0, 6>>>>]

Translation ==
    [fields |-> <<Required(1, "text", "STRING"), Optional(2, "language",
                                                          "STRING")>>,
     ranges |-> <<<<1, 0>>, <<0, 2>>>>]

TranslatedString ==
    [fields |-> <<Repeated(1, "translation", "Translation")>>,
     ranges |-> <<<<1, 0>>, <<0, 1>>>>]

LocalizedImage ==
    [fields |-> <<Required(1, "url", "STRING"), Required(2, "media_type", "STRING"),
                  Optional(3, "language", "STRING")>>,
     ranges |-> <<<<1, 0>>, <<0, 3>>>>]

TranslatedImage ==
    [fields |-> <<Repeated(1, "localized_image", "LocalizedImage")>>,
     ranges |-> <<<<1, 0>>, <<0, 1>>>>]

Shape ==
    [fields |-> <<Optional(1, "shape_id", "STRING"),
                  Optional(2, "encoded_polyline", "STRING")>>,
     ranges |-> <<<<1, 0>>, <<0, 2>>>>]

Stop ==
    [fields |-> <<Optional(1, "stop_id", "STRING"),
                  Optional(2, "stop_code", "TranslatedString"),
                  Optional(3, "stop_name", "TranslatedString"),
                  Optional(4, "tts_stop_name", "TranslatedString"),
                  Optional(5, "stop_desc", "TranslatedString"),
                  Optional(6, "stop_lat", "FLOAT"),
                  Optional(7, "stop_lon", "FLOAT"),
                  Optional(8, "zone_id", "STRING"),
                  Optional(9, "stop_url", "TranslatedString"),
                  Optional(11, "parent_station", "STRING"),
                  Optional(12, "stop_timezone", "STRING"),
                  Or(Optional(13, "wheelchair_boarding", "WheelchairBoarding"),
                     WheelchairBoarding.UNKNOWN),
                  Optional(14, "level_id", "STRING"),
                  Optional(15, "platform_code", "TranslatedString")>>,
     ranges |-> <<<<1, 0>>, <<11, 9>>, <<0, 14>>>>]

Modification ==
    [fields |-> <<Optional(1, "start_stop_selector", "StopSelector"),
                  Optional(2, "end_stop_selector", "StopSelector"),
                  Or(Optional(3, "propagated_modification_delay", "INT32"), 0),
                  Repeated(4, "replacement_stops", "ReplacementStop"),
                  Optional(5, "service_alert_id", "STRING"),
                  Optional(6, "last_modified_time", "UINT64")>>,
     ranges |-> <<<<1, 0>>, <<0, 6>>>>]

SelectedTrips ==
    [fields |-> <<Repeated(1, "trip_ids", "STRING"),
                  Optional(2, "shape_id", "STRING")>>,
     ranges |-> <<<<1, 0>>, <<0, 2>>>>]

TripModifications ==
    [fields |-> <<Repeated(1, "selected_trips", "SelectedTrips"),
                  Repeated(2, "start_times", "STRING"),
                  Repeated(3, "service_dates", "STRING"),
                  Repeated(4, "modifications", "Modification")>>,
     ranges |-> <<<<1, 0>>, <<0, 4>>>>]

StopSelector ==
    [fields |-> <<Optional(1, "stop_sequence", "UINT32"),
                  Optional(2, "stop_id", "STRING")>>,
     ranges |-> <<<<1, 0>>, <<0, 2>>>>]

ReplacementStop ==
    [fields |-> <<Optional(1, "travel_time_to_stop", "INT32"),
                  Optional(2, "stop_id", "STRING")>>,
     ranges |-> <<<<1, 0>>, <<0, 2>>>>]

-----------------------------------------------------------------------------
Enums ==
    [Incrementality |-> Incrementality, DropOffPickupType |-> DropOffPickupType,
     StopTimeUpdate_ScheduleRelationship |-> StopTimeUpdate_ScheduleRelationship,
     VehicleStopStatus |-> VehicleStopStatus, CongestionLevel |-> CongestionLevel,
     OccupancyStatus |-> OccupancyStatus, Cause |-> Cause, Effect |-> Effect,
     SeverityLevel |-> SeverityLevel,
     TripDescriptor_ScheduleRelationship |-> TripDescriptor_ScheduleRelationship,
     WheelchairAccessible |-> WheelchairAccessible,
     WheelchairBoarding |-> WheelchairBoarding]

Descriptors ==
    [FeedMessage |-> FeedMessage, FeedHeader |-> FeedHeader,
     FeedEntity |-> FeedEntity, StopTimeEvent |-> StopTimeEvent,
     StopTimeProperties |-> StopTimeProperties, StopTimeUpdate |-> StopTimeUpdate,
     TripProperties |-> TripProperties, TripUpdate |-> TripUpdate,
     CarriageDetails |-> CarriageDetails, VehiclePosition |-> VehiclePosition,
     Alert |-> Alert, TimeRange |-> TimeRange, Position |-> Position,
     ModifiedTripSelector |-> ModifiedTripSelector,
     TripDescriptor |-> TripDescriptor, VehicleDescriptor |-> VehicleDescriptor,
     EntitySelector |-> EntitySelector, Translation |-> Translation,
     TranslatedString |-> TranslatedString, LocalizedImage |-> LocalizedImage,
     TranslatedImage |-> TranslatedImage, Shape |-> Shape, Stop |-> Stop,
     Modification |-> Modification, SelectedTrips |-> SelectedTrips,
     TripModifications |-> TripModifications, StopSelector |-> StopSelector,
     ReplacementStop |-> ReplacementStop]

=============================================================================
