-------------------------- MODULE FeedDecoderProofs --------------------------
(***************************************************************************)
(* For every feed the message, the records and the occupancy that the      *)
(* program reports are those of the bytes that arrived.  The argument goes *)
(* from the tables (each number is found at the field that has it) through *)
(* the levels of nesting, of which each is right if the next inner one is  *)
(* (MessageLevelProofs), to the whole feed, and then down again along the  *)
(* fields that parse_and_queue reads.                                      *)
(***************************************************************************)
EXTENDS FeedDecoder, TLAPS, SequenceTheorems

-----------------------------------------------------------------------------
(* The tables of the generated code. *)

\* Positions of a table, from 0, that a range of numbers stands for.
Range0(d, r) == d.ranges[r][2] .. d.ranges[r + 1][2] - 1

\* A table whose ranges say at which position each number is.
IsTable(d, n) ==
    /\ n \in Nat /\ Len(d.fields) = n /\ DOMAIN d.fields = 1 .. n
    /\ \A r \in 1 .. Len(d.ranges) - 1 :
         /\ d.ranges[r][1] \in Int /\ d.ranges[r][2] \in Int /\ d.ranges[r + 1][2] \in Int
         /\ \A p \in Range0(d, r) :
              /\ p \in 0 .. n - 1
              /\ d.fields[p + 1].id = d.ranges[r][1] + p - d.ranges[r][2]
    /\ \A p \in 0 .. n - 1 : \E r \in 1 .. Len(d.ranges) - 1 : p \in Range0(d, r)
    /\ \A i \in 1 .. n : d.fields[i].label \in {"REQUIRED", "OPTIONAL", "REPEATED"}
    /\ \A i, j \in 1 .. n : d.fields[i].name = d.fields[j].name => i = j
    /\ \A i, j \in 1 .. n : d.fields[i].id = d.fields[j].id => i = j

LEMMA FeedMessageTable == IsTable(FeedMessage, 2)
  BY DEF IsTable, Range0, FeedMessage, Required, Optional, Repeated, Field, Or

LEMMA FeedHeaderTable == IsTable(FeedHeader, 4)
  BY DEF IsTable, Range0, FeedHeader, Required, Optional, Repeated, Field, Or

LEMMA FeedEntityTable == IsTable(FeedEntity, 8)
  BY DEF IsTable, Range0, FeedEntity, Required, Optional, Repeated, Field, Or

LEMMA StopTimeEventTable == IsTable(StopTimeEvent, 4)
  BY DEF IsTable, Range0, StopTimeEvent, Required, Optional, Repeated, Field, Or

LEMMA StopTimePropertiesTable == IsTable(StopTimeProperties, 4)
  BY DEF IsTable, Range0, StopTimeProperties, Required, Optional, Repeated, Field, Or

LEMMA StopTimeUpdateTable == IsTable(StopTimeUpdate, 7)
  BY DEF IsTable, Range0, StopTimeUpdate, Required, Optional, Repeated, Field, Or

LEMMA TripPropertiesTable == IsTable(TripProperties, 6)
  BY DEF IsTable, Range0, TripProperties, Required, Optional, Repeated, Field, Or

LEMMA TripUpdateTable == IsTable(TripUpdate, 6)
  BY DEF IsTable, Range0, TripUpdate, Required, Optional, Repeated, Field, Or

LEMMA CarriageDetailsTable == IsTable(CarriageDetails, 5)
  BY DEF IsTable, Range0, CarriageDetails, Required, Optional, Repeated, Field, Or

LEMMA VehiclePositionTable == IsTable(VehiclePosition, 11)
<1> DEFINE D == VehiclePosition
<1>1. /\ Len(D.ranges) = 2
      /\ D.ranges[1] = <<1, 0>>
      /\ D.ranges[2] = <<0, 11>>
  BY DEF VehiclePosition
<1>2. Len(D.fields) = 11 /\ DOMAIN D.fields = 1 .. 11
  BY DEF VehiclePosition
<1>3. \A i \in 1 .. 11 : D.fields[i].label \in {"REQUIRED", "OPTIONAL", "REPEATED"}
  BY DEF VehiclePosition, Required, Optional, Repeated, Field, Or
<1>4. \A i, j \in 1 .. 11 : D.fields[i].name = D.fields[j].name => i = j
  BY DEF VehiclePosition, Required, Optional, Repeated, Field, Or
<1>5. \A i \in 1 .. 11 : D.fields[i].id = i
  BY DEF VehiclePosition, Required, Optional, Repeated, Field, Or
<1> HIDE DEF D
<1>6. Range0(D, 1) = 0 .. 10
  BY <1>1 DEF Range0
<1> QED BY <1>1, <1>2, <1>3, <1>4, <1>5, <1>6 DEF IsTable, D

LEMMA AlertTable == IsTable(Alert, 14)
<1> DEFINE D == Alert
<1>1. /\ Len(D.ranges) = 4
      /\ D.ranges[1] = <<1, 0>>
      /\ D.ranges[2] = <<5, 1>>
      /\ D.ranges[3] = <<10, 5>>
      /\ D.ranges[4] = <<0, 14>>
  BY DEF Alert
<1>2. Len(D.fields) = 14 /\ DOMAIN D.fields = 1 .. 14
  BY DEF Alert
<1>3. \A i \in 1 .. 14 : D.fields[i].label \in {"REQUIRED", "OPTIONAL", "REPEATED"}
  BY DEF Alert, Required, Optional, Repeated, Field, Or
<1>4. \A i, j \in 1 .. 14 : D.fields[i].name = D.fields[j].name => i = j
  BY DEF Alert, Required, Optional, Repeated, Field, Or
<1>5. /\ \A i \in 1 .. 1 : D.fields[i].id = i + 0
      /\ \A i \in 2 .. 5 : D.fields[i].id = i + 3
      /\ \A i \in 6 .. 14 : D.fields[i].id = i + 4
  BY DEF Alert, Required, Optional, Repeated, Field, Or
<1> HIDE DEF D
<1>r1. Range0(D, 1) = 0 .. 0
  BY <1>1 DEF Range0
<1>r2. Range0(D, 2) = 1 .. 4
  BY <1>1 DEF Range0
<1>r3. Range0(D, 3) = 5 .. 13
  BY <1>1 DEF Range0
<1>6. ASSUME NEW r \in 1 .. Len(D.ranges) - 1
      PROVE  /\ D.ranges[r][1] \in Int /\ D.ranges[r][2] \in Int /\ D.ranges[r + 1][2] \in Int
             /\ \A p \in Range0(D, r) :
                  /\ p \in 0 .. 14 - 1
                  /\ D.fields[p + 1].id = D.ranges[r][1] + p - D.ranges[r][2]
  <2>1. CASE r = 1
    BY <1>1, <1>5, <1>r1, <2>1
  <2>2. CASE r = 2
    BY <1>1, <1>5, <1>r2, <2>2
  <2>3. CASE r = 3
    BY <1>1, <1>5, <1>r3, <2>3
  <2> QED BY <1>1, <2>1, <2>2, <2>3
<1>7. \A p \in 0 .. 14 - 1 : \E r \in 1 .. Len(D.ranges) - 1 : p \in Range0(D, r)
  <2>1. 1 \in 1 .. Len(D.ranges) - 1 /\ 2 \in 1 .. Len(D.ranges) - 1 /\ 3 \in 1 .. Len(D.ranges) - 1
    BY <1>1
  <2>2. \A p \in 0 .. 14 - 1 : p \in Range0(D, 1) \/ p \in Range0(D, 2) \/ p \in Range0(D, 3)
    BY <1>r1, <1>r2, <1>r3
  <2> QED BY <2>1, <2>2
<1>8. \A i, j \in 1 .. 14 : D.fields[i].id = D.fields[j].id => i = j
  BY <1>5
<1>9. 14 \in Nat
  OBVIOUS
<1> QED BY <1>2, <1>3, <1>4, <1>6, <1>7, <1>8, <1>9 DEF IsTable, D

LEMMA TimeRangeTable == IsTable(TimeRange, 2)
  BY DEF IsTable, Range0, TimeRange, Required, Optional, Repeated, Field, Or

LEMMA PositionTable == IsTable(Position, 5)
  BY DEF IsTable, Range0, Position, Required, Optional, Repeated, Field, Or

LEMMA ModifiedTripSelectorTable == IsTable(ModifiedTripSelector, 4)
  BY DEF IsTable, Range0, ModifiedTripSelector, Required, Optional, Repeated, Field, Or

LEMMA TripDescriptorTable == IsTable(TripDescriptor, 7)
  BY DEF IsTable, Range0, TripDescriptor, Required, Optional, Repeated, Field, Or

LEMMA VehicleDescriptorTable == IsTable(VehicleDescriptor, 4)
  BY DEF IsTable, Range0, VehicleDescriptor, Required, Optional, Repeated, Field, Or

LEMMA EntitySelectorTable == IsTable(EntitySelector, 6)
  BY DEF IsTable, Range0, EntitySelector, Required, Optional, Repeated, Field, Or

LEMMA TranslationTable == IsTable(Translation, 2)
  BY DEF IsTable, Range0, Translation, Required, Optional, Repeated, Field, Or

LEMMA TranslatedStringTable == IsTable(TranslatedString, 1)
  BY DEF IsTable, Range0, TranslatedString, Required, Optional, Repeated, Field, Or

LEMMA LocalizedImageTable == IsTable(LocalizedImage, 3)
  BY DEF IsTable, Range0, LocalizedImage, Required, Optional, Repeated, Field, Or

LEMMA TranslatedImageTable == IsTable(TranslatedImage, 1)
  BY DEF IsTable, Range0, TranslatedImage, Required, Optional, Repeated, Field, Or

LEMMA ShapeTable == IsTable(Shape, 2)
  BY DEF IsTable, Range0, Shape, Required, Optional, Repeated, Field, Or

LEMMA StopTable == IsTable(Stop, 14)
<1> DEFINE D == Stop
<1>1. /\ Len(D.ranges) = 3
      /\ D.ranges[1] = <<1, 0>>
      /\ D.ranges[2] = <<11, 9>>
      /\ D.ranges[3] = <<0, 14>>
  BY DEF Stop
<1>2. Len(D.fields) = 14 /\ DOMAIN D.fields = 1 .. 14
  BY DEF Stop
<1>3. \A i \in 1 .. 14 : D.fields[i].label \in {"REQUIRED", "OPTIONAL", "REPEATED"}
  BY DEF Stop, Required, Optional, Repeated, Field, Or
<1>4. \A i, j \in 1 .. 14 : D.fields[i].name = D.fields[j].name => i = j
  BY DEF Stop, Required, Optional, Repeated, Field, Or
<1>5. /\ \A i \in 1 .. 9 : D.fields[i].id = i + 0
      /\ \A i \in 10 .. 14 : D.fields[i].id = i + 1
  BY DEF Stop, Required, Optional, Repeated, Field, Or
<1> HIDE DEF D
<1>r1. Range0(D, 1) = 0 .. 8
  BY <1>1 DEF Range0
<1>r2. Range0(D, 2) = 9 .. 13
  BY <1>1 DEF Range0
<1>6. ASSUME NEW r \in 1 .. Len(D.ranges) - 1
      PROVE  /\ D.ranges[r][1] \in Int /\ D.ranges[r][2] \in Int /\ D.ranges[r + 1][2] \in Int
             /\ \A p \in Range0(D, r) :
                  /\ p \in 0 .. 14 - 1
                  /\ D.fields[p + 1].id = D.ranges[r][1] + p - D.ranges[r][2]
  <2>1. CASE r = 1
    BY <1>1, <1>5, <1>r1, <2>1
  <2>2. CASE r = 2
    BY <1>1, <1>5, <1>r2, <2>2
  <2> QED BY <1>1, <2>1, <2>2
<1>7. \A p \in 0 .. 14 - 1 : \E r \in 1 .. Len(D.ranges) - 1 : p \in Range0(D, r)
  <2>1. 1 \in 1 .. Len(D.ranges) - 1 /\ 2 \in 1 .. Len(D.ranges) - 1
    BY <1>1
  <2>2. \A p \in 0 .. 14 - 1 : p \in Range0(D, 1) \/ p \in Range0(D, 2)
    BY <1>r1, <1>r2
  <2> QED BY <2>1, <2>2
<1>8. \A i, j \in 1 .. 14 : D.fields[i].id = D.fields[j].id => i = j
  BY <1>5
<1>9. 14 \in Nat
  OBVIOUS
<1> QED BY <1>2, <1>3, <1>4, <1>6, <1>7, <1>8, <1>9 DEF IsTable, D

LEMMA ModificationTable == IsTable(Modification, 6)
  BY DEF IsTable, Range0, Modification, Required, Optional, Repeated, Field, Or

LEMMA SelectedTripsTable == IsTable(SelectedTrips, 2)
  BY DEF IsTable, Range0, SelectedTrips, Required, Optional, Repeated, Field, Or

LEMMA TripModificationsTable == IsTable(TripModifications, 4)
  BY DEF IsTable, Range0, TripModifications, Required, Optional, Repeated, Field, Or

LEMMA StopSelectorTable == IsTable(StopSelector, 2)
  BY DEF IsTable, Range0, StopSelector, Required, Optional, Repeated, Field, Or

LEMMA ReplacementStopTable == IsTable(ReplacementStop, 2)
  BY DEF IsTable, Range0, ReplacementStop, Required, Optional, Repeated, Field, Or

\* Whatever message it is, its fields are found by their numbers, which are as
\* different as their names are.
LEMMA EveryTable ==
    ASSUME NEW t \in DOMAIN Descriptors
    PROVE  \E n : IsTable(Descriptors[t], n)
<1> DEFINE names == {"FeedMessage", "FeedHeader", "FeedEntity", "StopTimeEvent",
                     "StopTimeProperties", "StopTimeUpdate", "TripProperties",
                     "TripUpdate", "CarriageDetails", "VehiclePosition", "Alert",
                     "TimeRange", "Position", "ModifiedTripSelector", "TripDescriptor",
                     "VehicleDescriptor", "EntitySelector", "Translation",
                     "TranslatedString", "LocalizedImage", "TranslatedImage", "Shape",
                     "Stop", "Modification", "SelectedTrips", "TripModifications",
                     "StopSelector", "ReplacementStop"}
<1>1. DOMAIN Descriptors = names
  BY DEF Descriptors
<1>m1. CASE t = "FeedMessage"
  BY <1>m1, FeedMessageTable DEF Descriptors
<1>m2. CASE t = "FeedHeader"
  BY <1>m2, FeedHeaderTable DEF Descriptors
<1>m3. CASE t = "FeedEntity"
  BY <1>m3, FeedEntityTable DEF Descriptors
<1>m4. CASE t = "StopTimeEvent"
  BY <1>m4, StopTimeEventTable DEF Descriptors
<1>m5. CASE t = "StopTimeProperties"
  BY <1>m5, StopTimePropertiesTable DEF Descriptors
<1>m6. CASE t = "StopTimeUpdate"
  BY <1>m6, StopTimeUpdateTable DEF Descriptors
<1>m7. CASE t = "TripProperties"
  BY <1>m7, TripPropertiesTable DEF Descriptors
<1>m8. CASE t = "TripUpdate"
  BY <1>m8, TripUpdateTable DEF Descriptors
<1>m9. CASE t = "CarriageDetails"
  BY <1>m9, CarriageDetailsTable DEF Descriptors
<1>m10. CASE t = "VehiclePosition"
  BY <1>m10, VehiclePositionTable DEF Descriptors
<1>m11. CASE t = "Alert"
  BY <1>m11, AlertTable DEF Descriptors
<1>m12. CASE t = "TimeRange"
  BY <1>m12, TimeRangeTable DEF Descriptors
<1>m13. CASE t = "Position"
  BY <1>m13, PositionTable DEF Descriptors
<1>m14. CASE t = "ModifiedTripSelector"
  BY <1>m14, ModifiedTripSelectorTable DEF Descriptors
<1>m15. CASE t = "TripDescriptor"
  BY <1>m15, TripDescriptorTable DEF Descriptors
<1>m16. CASE t = "VehicleDescriptor"
  BY <1>m16, VehicleDescriptorTable DEF Descriptors
<1>m17. CASE t = "EntitySelector"
  BY <1>m17, EntitySelectorTable DEF Descriptors
<1>m18. CASE t = "Translation"
  BY <1>m18, TranslationTable DEF Descriptors
<1>m19. CASE t = "TranslatedString"
  BY <1>m19, TranslatedStringTable DEF Descriptors
<1>m20. CASE t = "LocalizedImage"
  BY <1>m20, LocalizedImageTable DEF Descriptors
<1>m21. CASE t = "TranslatedImage"
  BY <1>m21, TranslatedImageTable DEF Descriptors
<1>m22. CASE t = "Shape"
  BY <1>m22, ShapeTable DEF Descriptors
<1>m23. CASE t = "Stop"
  BY <1>m23, StopTable DEF Descriptors
<1>m24. CASE t = "Modification"
  BY <1>m24, ModificationTable DEF Descriptors
<1>m25. CASE t = "SelectedTrips"
  BY <1>m25, SelectedTripsTable DEF Descriptors
<1>m26. CASE t = "TripModifications"
  BY <1>m26, TripModificationsTable DEF Descriptors
<1>m27. CASE t = "StopSelector"
  BY <1>m27, StopSelectorTable DEF Descriptors
<1>m28. CASE t = "ReplacementStop"
  BY <1>m28, ReplacementStopTable DEF Descriptors
<1> QED
  BY <1>1, <1>m1, <1>m2, <1>m3, <1>m4, <1>m5, <1>m6, <1>m7, <1>m8, <1>m9, <1>m10, <1>m11,
  <1>m12, <1>m13, <1>m14, <1>m15, <1>m16, <1>m17, <1>m18, <1>m19, <1>m20, <1>m21, <1>m22,
  <1>m23, <1>m24, <1>m25, <1>m26, <1>m27, <1>m28

\* The position that the ranges yield for a number is that of its field.
LEMMA RangesFind ==
    ASSUME NEW d, NEW n, IsTable(d, n), NEW number \in Int
    PROVE  int_range_lookup(d.ranges, number) = {p \in 0 .. n - 1 : d.fields[p + 1].id = number}
<1> DEFINE R == 1 .. Len(d.ranges) - 1
<1>1. n \in Nat /\ \A r \in R :
         /\ d.ranges[r][1] \in Int /\ d.ranges[r][2] \in Int /\ d.ranges[r + 1][2] \in Int
         /\ \A p \in Range0(d, r) :
              /\ p \in 0 .. n - 1
              /\ d.fields[p + 1].id = d.ranges[r][1] + p - d.ranges[r][2]
  BY DEF IsTable
<1>2. \A p \in 0 .. n - 1 : \E r \in R : p \in Range0(d, r)
  BY DEF IsTable
<1> HIDE DEF R
<1>3. ASSUME NEW r \in R, number - d.ranges[r][1] \in 0 .. d.ranges[r + 1][2] - d.ranges[r][2] - 1
      PROVE  /\ d.ranges[r][2] + number - d.ranges[r][1] \in 0 .. n - 1
             /\ d.fields[d.ranges[r][2] + number - d.ranges[r][1] + 1].id = number
  <2> DEFINE a == d.ranges[r][1]
             b == d.ranges[r][2]
             c == d.ranges[r + 1][2]
  <2>1. a \in Int /\ b \in Int /\ c \in Int /\ number - a \in 0 .. c - b - 1
    BY <1>1, <1>3
  <2>2. \A p \in b .. c - 1 : p \in 0 .. n - 1 /\ d.fields[p + 1].id = a + p - b
    BY <1>1 DEF Range0
  <2> HIDE DEF a, b, c
  <2>3. PICK p : p = b + number - a
    OBVIOUS
  <2>4. p \in b .. c - 1 /\ a + p - b = number
    BY <2>1, <2>3
  <2>5. p \in 0 .. n - 1 /\ d.fields[p + 1].id = number
    BY <2>2, <2>4
  <2> QED BY <2>3, <2>5 DEF a, b
<1>4. ASSUME NEW p \in 0 .. n - 1, d.fields[p + 1].id = number
      PROVE  \E r \in R :
               /\ number - d.ranges[r][1] \in 0 .. d.ranges[r + 1][2] - d.ranges[r][2] - 1
               /\ p = d.ranges[r][2] + number - d.ranges[r][1]
  <2>1. PICK r \in R : p \in Range0(d, r)
    BY <1>2
  <2> DEFINE a == d.ranges[r][1]
             b == d.ranges[r][2]
             c == d.ranges[r + 1][2]
  <2>2. /\ a \in Int /\ b \in Int /\ c \in Int /\ p \in b .. c - 1
        /\ number = a + p - b
    BY <1>1, <1>4, <2>1 DEF Range0
  <2> HIDE DEF a, b, c
  <2>3. number - a \in 0 .. c - b - 1 /\ p = b + number - a
    BY <2>2
  <2> QED BY <2>3 DEF a, b, c
<1>5. int_range_lookup(d.ranges, number) =
        {d.ranges[r][2] + number - d.ranges[r][1] :
           r \in {q \in R : number - d.ranges[q][1] \in 0 .. d.ranges[q + 1][2] - d.ranges[q][2] - 1}}
  BY DEF int_range_lookup, R
<1> QED BY <1>3, <1>4, <1>5

\* What the runtime finds for an item are the fields with its number.
LEMMA LookupFindsFields ==
    ASSUME NEW t, IsMessage(t)
    PROVE  /\ \A item : item.number \in Nat =>
                FieldsOf(t, item) = {f \in Fields(t) : f.id = item.number}
           /\ \A f, g \in Fields(t) : f.id = g.id \/ f.name = g.name => f = g
           /\ \A f \in Fields(t) : f.label \in {"REQUIRED", "OPTIONAL", "REPEATED"}
<1> DEFINE d == Descriptors[t]
<1>1. PICK n : IsTable(d, n)
  BY EveryTable DEF IsMessage
<1>2. Fields(t) = {d.fields[i] : i \in 1 .. n} /\ n \in Nat
  BY <1>1 DEF Fields, ToSet, IsTable
<1> HIDE DEF d
<1>3. ASSUME NEW item, item.number \in Nat
      PROVE  FieldsOf(t, item) = {f \in Fields(t) : f.id = item.number}
  <2> DEFINE Q == {p \in 0 .. n - 1 : d.fields[p + 1].id = item.number}
  <2>1. item.number \in Int
    BY <1>3
  <2>2. int_range_lookup(d.ranges, item.number) = Q
    BY <1>1, <2>1, RangesFind
  <2>3. FieldsOf(t, item) = {d.fields[p + 1] : p \in Q}
    BY <2>2 DEF FieldsOf, d
  <2>4. \A i \in 1 .. n : i - 1 \in 0 .. n - 1 /\ i - 1 + 1 = i
    BY <1>2
  <2>5. \A p \in 0 .. n - 1 : p + 1 \in 1 .. n
    BY <1>2
  <2> QED BY <1>2, <2>3, <2>4, <2>5
<1>4. \A f, g \in Fields(t) : f.id = g.id \/ f.name = g.name => f = g
  <2>1. /\ \A i, j \in 1 .. n : d.fields[i].name = d.fields[j].name => i = j
        /\ \A i, j \in 1 .. n : d.fields[i].id = d.fields[j].id => i = j
    BY <1>1 DEF IsTable
  <2> TAKE f, g \in Fields(t)
  <2>2. PICK i \in 1 .. n : f = d.fields[i]
    BY <1>2
  <2>3. PICK j \in 1 .. n : g = d.fields[j]
    BY <1>2
  <2> QED BY <2>1, <2>2, <2>3
<1>5. \A f \in Fields(t) : f.label \in {"REQUIRED", "OPTIONAL", "REPEATED"}
  BY <1>1, <1>2 DEF IsTable
<1> QED BY <1>3, <1>4, <1>5

-----------------------------------------------------------------------------
(* How deep messages are nested. *)

\* The types of the messages that a message of a table may contain.
Contained(d) == {d.fields[i].type : i \in 1 .. Len(d.fields)} \cap DOMAIN Descriptors

\* How many levels a message of a type may have.
Height(t) ==
    CASE t = "FeedMessage" -> 6
      [] t = "FeedEntity" -> 5
      [] t = "Alert" -> 4
      [] t \in {"TripUpdate", "VehiclePosition", "EntitySelector", "Stop",
                "TripModifications"} -> 3
      [] t \in {"StopTimeUpdate", "TripDescriptor", "TranslatedString",
                "TranslatedImage", "Modification"} -> 2
      [] OTHER -> 1

LEMMA MessageTypes ==
    DOMAIN Descriptors =
      {"FeedMessage", "FeedHeader", "FeedEntity", "StopTimeEvent", "StopTimeProperties",
       "StopTimeUpdate", "TripProperties", "TripUpdate", "CarriageDetails",
       "VehiclePosition", "Alert", "TimeRange", "Position", "ModifiedTripSelector",
       "TripDescriptor", "VehicleDescriptor", "EntitySelector", "Translation",
       "TranslatedString", "LocalizedImage", "TranslatedImage", "Shape", "Stop",
       "Modification", "SelectedTrips", "TripModifications", "StopSelector",
       "ReplacementStop"}
  BY DEF Descriptors

\* Messages that contain none.
LEMMA Innermost ==
    /\ Contained(FeedHeader) = {} /\ Contained(StopTimeEvent) = {}
    /\ Contained(StopTimeProperties) = {} /\ Contained(TripProperties) = {}
    /\ Contained(CarriageDetails) = {} /\ Contained(TimeRange) = {}
    /\ Contained(Position) = {} /\ Contained(ModifiedTripSelector) = {}
    /\ Contained(VehicleDescriptor) = {} /\ Contained(Translation) = {}
    /\ Contained(LocalizedImage) = {} /\ Contained(Shape) = {}
    /\ Contained(SelectedTrips) = {} /\ Contained(StopSelector) = {}
    /\ Contained(ReplacementStop) = {}
<1> USE MessageTypes DEF Contained, Required, Optional, Repeated, Field, Or
<1>1. Contained(FeedHeader) = {}
  BY DEF FeedHeader
<1>2. Contained(StopTimeEvent) = {}
  BY DEF StopTimeEvent
<1>3. Contained(StopTimeProperties) = {}
  BY DEF StopTimeProperties
<1>4. Contained(TripProperties) = {}
  BY DEF TripProperties
<1>5. Contained(CarriageDetails) = {}
  BY DEF CarriageDetails
<1>6. Contained(TimeRange) = {}
  BY DEF TimeRange
<1>7. Contained(Position) = {}
  BY DEF Position
<1>8. Contained(ModifiedTripSelector) = {}
  BY DEF ModifiedTripSelector
<1>9. Contained(VehicleDescriptor) = {}
  BY DEF VehicleDescriptor
<1>10. Contained(Translation) = {}
  BY DEF Translation
<1>11. Contained(LocalizedImage) = {}
  BY DEF LocalizedImage
<1>12. Contained(Shape) = {}
  BY DEF Shape
<1>13. Contained(SelectedTrips) = {}
  BY DEF SelectedTrips
<1>14. Contained(StopSelector) = {}
  BY DEF StopSelector
<1>15. Contained(ReplacementStop) = {}
  BY DEF ReplacementStop
<1> QED
  BY <1>1, <1>2, <1>3, <1>4, <1>5, <1>6, <1>7, <1>8, <1>9, <1>10, <1>11, <1>12, <1>13, <1>14, <1>15

\* Messages that contain others.
LEMMA Outer ==
    /\ Contained(StopTimeUpdate) = {"StopTimeEvent", "StopTimeProperties"}
    /\ Contained(TripDescriptor) = {"ModifiedTripSelector"}
    /\ Contained(TranslatedString) = {"Translation"}
    /\ Contained(TranslatedImage) = {"LocalizedImage"}
    /\ Contained(Modification) = {"StopSelector", "ReplacementStop"}
    /\ Contained(TripUpdate) = {"TripDescriptor", "StopTimeUpdate", "VehicleDescriptor",
                                "TripProperties"}
    /\ Contained(VehiclePosition) = {"TripDescriptor", "Position", "VehicleDescriptor",
                                     "CarriageDetails"}
    /\ Contained(EntitySelector) = {"TripDescriptor"}
    /\ Contained(Stop) = {"TranslatedString"}
    /\ Contained(TripModifications) = {"SelectedTrips", "Modification"}
    /\ Contained(Alert) = {"TimeRange", "EntitySelector", "TranslatedString",
                           "TranslatedImage"}
    /\ Contained(FeedEntity) = {"TripUpdate", "VehiclePosition", "Alert", "Shape", "Stop",
                                "TripModifications"}
    /\ Contained(FeedMessage) = {"FeedHeader", "FeedEntity"}
  BY MessageTypes
     DEF Contained, Required, Optional, Repeated, Field, Or, StopTimeUpdate,
         TripDescriptor, TranslatedString, TranslatedImage, Modification, TripUpdate,
         VehiclePosition, EntitySelector, Stop, TripModifications, Alert, FeedEntity,
         FeedMessage

\* The six levels of FeedDecoder are all that a feed can have: along submessages
\* the height falls, and a feed has height 6.
THEOREM NestingEnds ==
    /\ Height("FeedMessage") = 6
    /\ \A t : IsMessage(t) =>
         /\ Height(t) \in 1 .. 6
         /\ \A f \in Fields(t) : IsMessage(f.type) => Height(f.type) < Height(t)
<1>1. ASSUME NEW t, IsMessage(t)
      PROVE  \A u \in Contained(Descriptors[t]) : Height(u) < Height(t)
  <2>1. CASE Height(t) = 1
    <3>1. Contained(Descriptors[t]) = {}
      BY <1>1, <2>1, Innermost, MessageTypes DEF IsMessage, Height, Descriptors
    <3> QED
      BY <3>1
  <2>2. CASE Height(t) # 1
    BY <1>1, <2>2, Outer, MessageTypes DEF IsMessage, Height, Descriptors
  <2> QED
    BY <2>1, <2>2
<1>2. \A t : \A f \in Fields(t) : IsMessage(f.type) => f.type \in Contained(Descriptors[t])
  BY DEF Fields, ToSet, IsMessage, Contained
<1>3. \A t : Height(t) \in 1 .. 6
  BY DEF Height
<1> QED
  BY <1>1, <1>2, <1>3 DEF Height

-----------------------------------------------------------------------------
(* The levels. *)

Step1 == INSTANCE MessageLevelProofs WITH
    UnpackedInside <- Level0Unpacked, MergedInside <- Level0merge_messages,
    IsWireInside <- Level0IsWire, WellFormedInside <- Level0WellFormed,
    DenotesInside <- Level0Denotes

Step2 == INSTANCE MessageLevelProofs WITH
    UnpackedInside <- Level1!Unpacked, MergedInside <- Level1!merge_messages,
    IsWireInside <- Level1!IsWire, WellFormedInside <- Level1!WellFormed,
    DenotesInside <- Level1!Denotes

Step3 == INSTANCE MessageLevelProofs WITH
    UnpackedInside <- Level2!Unpacked, MergedInside <- Level2!merge_messages,
    IsWireInside <- Level2!IsWire, WellFormedInside <- Level2!WellFormed,
    DenotesInside <- Level2!Denotes

Step4 == INSTANCE MessageLevelProofs WITH
    UnpackedInside <- Level3!Unpacked, MergedInside <- Level3!merge_messages,
    IsWireInside <- Level3!IsWire, WellFormedInside <- Level3!WellFormed,
    DenotesInside <- Level3!Denotes

Step5 == INSTANCE MessageLevelProofs WITH
    UnpackedInside <- Level4!Unpacked, MergedInside <- Level4!merge_messages,
    IsWireInside <- Level4!IsWire, WellFormedInside <- Level4!WellFormed,
    DenotesInside <- Level4!Denotes

Step6 == INSTANCE MessageLevelProofs WITH
    UnpackedInside <- Level5!Unpacked, MergedInside <- Level5!merge_messages,
    IsWireInside <- Level5!IsWire, WellFormedInside <- Level5!WellFormed,
    DenotesInside <- Level5!Denotes

\* The tables obey what a level requires of the schema.
LEMMA Schema1 == Step1!SchemaLaws
  BY LookupFindsFields DEF Step1!SchemaLaws, Step1!FieldNumbered

\* Nothing is inside the innermost level.
LEMMA Inside1 == Step1!InsideLaws
  BY DEF Step1!InsideLaws, Step1!ValidInside, Step1!ArePartsInside, Level0Unpacked,
         Level0IsWire, Level0WellFormed, Level0Denotes

\* The messages that have none inside are unpacked and merged rightly.
LEMMA Laws1 == Step1!LevelLaws
  BY Schema1, Inside1, Step1!Lift

\* What the proofs call an operator of the level is that operator.
LEMMA SameItems1 ==
    /\ \A items, number : Step1!Values(items, number) = Level1!Values(items, number)
    /\ \A parts : Step1!Concatenated(parts) = Level1!Concatenated(parts)
    /\ \A s : Step1!Last(s) = Level1!Last(s)
<1>1. \A items, number : Step1!Values(items, number) = Level1!Values(items, number)
  BY Zenon DEF Step1!Values, Level1!Values, Step1!Chosen, Level1!Chosen,
         Step1!Ascending, Level1!Ascending
<1>2. \A parts : Step1!Concatenated(parts) = Level1!Concatenated(parts)
  BY Zenon DEF Step1!Concatenated, Level1!Concatenated
<1>3. \A s : Step1!Last(s) = Level1!Last(s)
  BY Zenon DEF Step1!Last, Level1!Last
<1> QED BY <1>1, <1>2, <1>3

LEMMA SameLevel1 ==
    /\ \A t, m, n : Step1!merge_messages(t, m, n) = Level1!merge_messages(t, m, n)
    /\ \A t, items : Step1!Unpacked(t, items) = Level1!Unpacked(t, items)
    /\ \A t, items : Step1!IsWire(t, items) = Level1!IsWire(t, items)
    /\ \A t, items : Step1!WellFormed(t, items) = Level1!WellFormed(t, items)
    /\ \A t, m, p : Step1!Denotes(t, m, p) <=> Level1!Denotes(t, m, p)
<1>1. \A t, m, n : Step1!merge_messages(t, m, n) = Level1!merge_messages(t, m, n)
  BY Zenon DEF Step1!merge_messages, Level1!merge_messages
<1>2. \A t, items : Step1!Unpacked(t, items) = Level1!Unpacked(t, items)
  BY Zenon DEF Step1!Unpacked, Level1!Unpacked, Step1!TheField, Level1!TheField,
         Step1!Parsed, Level1!Parsed, Step1!Stored, Level1!Stored,
         Step1!NoMessage, Level1!NoMessage
<1>3. \A t, items : Step1!IsWire(t, items) = Level1!IsWire(t, items)
  BY Zenon DEF Step1!IsWire, Level1!IsWire, Step1!IsSequence, Level1!IsSequence,
         Step1!FieldNumbered, Level1!FieldNumbered
<1>4. \A t, items : Step1!WellFormed(t, items) = Level1!WellFormed(t, items)
  BY Zenon DEF Step1!WellFormed, Level1!WellFormed, Step1!FieldNumbered, Level1!FieldNumbered
<1>5. \A f, v, a, b : Step1!Means(f, v, a, b) = Level1!Means(f, v, a, b)
  BY Zenon DEF Step1!Means, Level1!Means, Step1!IsSequence, Level1!IsSequence,
         Step1!Last, Level1!Last
<1>6. ASSUME NEW t, NEW m, NEW p
      PROVE  Step1!Denotes(t, m, p) <=> Level1!Denotes(t, m, p)
  <2> DEFINE A(f) == Step1!Values(Step1!Concatenated(p), f.id)
             B(f) == Level1!Values(Level1!Concatenated(p), f.id)
             X(f) == Step1!Values(Step1!Last(p), f.id)
             Y(f) == Level1!Values(Level1!Last(p), f.id)
             C == {f \in Fields(t) : A(f) # << >>}
             D == {f \in Fields(t) : B(f) # << >>}
  <2>1. \A f : A(f) = B(f) /\ X(f) = Y(f)
    BY SameItems1, Zenon
  <2>2. Step1!Denotes(t, m, p) <=>
          DOMAIN m = {f.name : f \in C} /\ \A f \in C : Step1!Means(f, m[f.name], A(f), X(f))
    BY Zenon DEF Step1!Denotes
  <2>3. Level1!Denotes(t, m, p) <=>
          DOMAIN m = {f.name : f \in D} /\ \A f \in D : Level1!Means(f, m[f.name], B(f), Y(f))
    BY Zenon DEF Level1!Denotes
  <2> HIDE DEF A, B, X, Y
  <2>4. C = D
    BY <2>1
  <2> HIDE DEF C, D
  <2> QED BY <1>5, <2>1, <2>2, <2>3, <2>4
<1> QED BY <1>1, <1>2, <1>3, <1>4, <1>6, Zenon

\* And so, level by level, are those that contain them.
LEMMA Laws2 == Step2!LevelLaws
<1>1. \A t, items : Step2!ValidInside(t, items) <=> Step1!Valid(t, items)
  BY SameLevel1 DEF Step2!ValidInside, Step1!Valid
<1>2. \A p : Step2!IsSequence(p) <=> Step1!IsSequence(p)
  BY DEF Step2!IsSequence, Step1!IsSequence
<1>3. \A t, p : Step2!ArePartsInside(t, p) <=> Step1!ArePartsOf(t, p)
  BY <1>1, <1>2 DEF Step2!ArePartsInside, Step1!ArePartsOf
<1>4. Step2!InsideLaws
  <2> SUFFICES ASSUME NEW t, IsMessage(t)
               PROVE  /\ \A items : Level1!IsWire(t, items) /\ ~Level1!WellFormed(t, items)
                           => Level1!Unpacked(t, items) = {}
                      /\ \A items : Step2!ValidInside(t, items) =>
                           \E m : /\ Level1!Unpacked(t, items) = {m}
                                  /\ Level1!Denotes(t, m, <<items>>)
                      /\ \A m, n, p, q :
                           /\ Step2!ArePartsInside(t, p) /\ Level1!Denotes(t, m, p)
                           /\ Step2!ArePartsInside(t, q) /\ Level1!Denotes(t, n, q)
                           => Level1!Denotes(t, Level1!merge_messages(t, m, n), p \o q)
    BY DEF Step2!InsideLaws
  <2>1. \A items : Step1!IsWire(t, items) /\ ~Step1!WellFormed(t, items)
          => Step1!Unpacked(t, items) = {}
    BY Laws1 DEF Step1!LevelLaws
  <2>2. \A items : Step1!Valid(t, items) =>
          \E m : Step1!Unpacked(t, items) = {m} /\ Step1!Denotes(t, m, <<items>>)
    BY Laws1 DEF Step1!LevelLaws
  <2>3. \A m, n, p, q : /\ Step1!ArePartsOf(t, p) /\ Step1!Denotes(t, m, p)
                        /\ Step1!ArePartsOf(t, q) /\ Step1!Denotes(t, n, q)
                        => Step1!Denotes(t, Step1!merge_messages(t, m, n), p \o q)
    BY Laws1 DEF Step1!LevelLaws
  <2>4. \A items : Level1!IsWire(t, items) /\ ~Level1!WellFormed(t, items)
          => Level1!Unpacked(t, items) = {}
    BY <2>1, SameLevel1
  <2>5. \A items : Step2!ValidInside(t, items) =>
          \E m : Level1!Unpacked(t, items) = {m} /\ Level1!Denotes(t, m, <<items>>)
    BY <1>1, <2>2, SameLevel1
  <2>6. \A m, n, p, q : /\ Step2!ArePartsInside(t, p) /\ Level1!Denotes(t, m, p)
                        /\ Step2!ArePartsInside(t, q) /\ Level1!Denotes(t, n, q)
                        => Level1!Denotes(t, Level1!merge_messages(t, m, n), p \o q)
    <3> TAKE m, n, p, q
    <3>1. Step1!merge_messages(t, m, n) = Level1!merge_messages(t, m, n)
      BY SameLevel1
    <3> QED BY <1>3, <2>3, <3>1, SameLevel1
  <2> QED BY <2>4, <2>5, <2>6
<1>5. Step2!SchemaLaws
  BY LookupFindsFields DEF Step2!SchemaLaws, Step2!FieldNumbered
<1> QED BY <1>4, <1>5, Step2!Lift

LEMMA SameItems2 ==
    /\ \A items, number : Step2!Values(items, number) = Level2!Values(items, number)
    /\ \A parts : Step2!Concatenated(parts) = Level2!Concatenated(parts)
    /\ \A s : Step2!Last(s) = Level2!Last(s)
<1>1. \A items, number : Step2!Values(items, number) = Level2!Values(items, number)
  BY Zenon DEF Step2!Values, Level2!Values, Step2!Chosen, Level2!Chosen,
         Step2!Ascending, Level2!Ascending
<1>2. \A parts : Step2!Concatenated(parts) = Level2!Concatenated(parts)
  BY Zenon DEF Step2!Concatenated, Level2!Concatenated
<1>3. \A s : Step2!Last(s) = Level2!Last(s)
  BY Zenon DEF Step2!Last, Level2!Last
<1> QED BY <1>1, <1>2, <1>3

LEMMA SameLevel2 ==
    /\ \A t, m, n : Step2!merge_messages(t, m, n) = Level2!merge_messages(t, m, n)
    /\ \A t, items : Step2!Unpacked(t, items) = Level2!Unpacked(t, items)
    /\ \A t, items : Step2!IsWire(t, items) = Level2!IsWire(t, items)
    /\ \A t, items : Step2!WellFormed(t, items) = Level2!WellFormed(t, items)
    /\ \A t, m, p : Step2!Denotes(t, m, p) <=> Level2!Denotes(t, m, p)
<1>1. \A t, m, n : Step2!merge_messages(t, m, n) = Level2!merge_messages(t, m, n)
  BY Zenon DEF Step2!merge_messages, Level2!merge_messages
<1>2. \A t, items : Step2!Unpacked(t, items) = Level2!Unpacked(t, items)
  BY Zenon DEF Step2!Unpacked, Level2!Unpacked, Step2!TheField, Level2!TheField,
         Step2!Parsed, Level2!Parsed, Step2!Stored, Level2!Stored,
         Step2!NoMessage, Level2!NoMessage
<1>3. \A t, items : Step2!IsWire(t, items) = Level2!IsWire(t, items)
  BY Zenon DEF Step2!IsWire, Level2!IsWire, Step2!IsSequence, Level2!IsSequence,
         Step2!FieldNumbered, Level2!FieldNumbered
<1>4. \A t, items : Step2!WellFormed(t, items) = Level2!WellFormed(t, items)
  BY Zenon DEF Step2!WellFormed, Level2!WellFormed, Step2!FieldNumbered, Level2!FieldNumbered
<1>5. \A f, v, a, b : Step2!Means(f, v, a, b) = Level2!Means(f, v, a, b)
  BY Zenon DEF Step2!Means, Level2!Means, Step2!IsSequence, Level2!IsSequence,
         Step2!Last, Level2!Last
<1>6. ASSUME NEW t, NEW m, NEW p
      PROVE  Step2!Denotes(t, m, p) <=> Level2!Denotes(t, m, p)
  <2> DEFINE A(f) == Step2!Values(Step2!Concatenated(p), f.id)
             B(f) == Level2!Values(Level2!Concatenated(p), f.id)
             X(f) == Step2!Values(Step2!Last(p), f.id)
             Y(f) == Level2!Values(Level2!Last(p), f.id)
             C == {f \in Fields(t) : A(f) # << >>}
             D == {f \in Fields(t) : B(f) # << >>}
  <2>1. \A f : A(f) = B(f) /\ X(f) = Y(f)
    BY SameItems2, Zenon
  <2>2. Step2!Denotes(t, m, p) <=>
          DOMAIN m = {f.name : f \in C} /\ \A f \in C : Step2!Means(f, m[f.name], A(f), X(f))
    BY Zenon DEF Step2!Denotes
  <2>3. Level2!Denotes(t, m, p) <=>
          DOMAIN m = {f.name : f \in D} /\ \A f \in D : Level2!Means(f, m[f.name], B(f), Y(f))
    BY Zenon DEF Level2!Denotes
  <2> HIDE DEF A, B, X, Y
  <2>4. C = D
    BY <2>1
  <2> HIDE DEF C, D
  <2> QED BY <1>5, <2>1, <2>2, <2>3, <2>4
<1> QED BY <1>1, <1>2, <1>3, <1>4, <1>6, Zenon

LEMMA Laws3 == Step3!LevelLaws
<1>1. \A t, items : Step3!ValidInside(t, items) <=> Step2!Valid(t, items)
  BY SameLevel2 DEF Step3!ValidInside, Step2!Valid
<1>2. \A p : Step3!IsSequence(p) <=> Step2!IsSequence(p)
  BY DEF Step3!IsSequence, Step2!IsSequence
<1>3. \A t, p : Step3!ArePartsInside(t, p) <=> Step2!ArePartsOf(t, p)
  BY <1>1, <1>2 DEF Step3!ArePartsInside, Step2!ArePartsOf
<1>4. Step3!InsideLaws
  <2> SUFFICES ASSUME NEW t, IsMessage(t)
               PROVE  /\ \A items : Level2!IsWire(t, items) /\ ~Level2!WellFormed(t, items)
                           => Level2!Unpacked(t, items) = {}
                      /\ \A items : Step3!ValidInside(t, items) =>
                           \E m : /\ Level2!Unpacked(t, items) = {m}
                                  /\ Level2!Denotes(t, m, <<items>>)
                      /\ \A m, n, p, q :
                           /\ Step3!ArePartsInside(t, p) /\ Level2!Denotes(t, m, p)
                           /\ Step3!ArePartsInside(t, q) /\ Level2!Denotes(t, n, q)
                           => Level2!Denotes(t, Level2!merge_messages(t, m, n), p \o q)
    BY DEF Step3!InsideLaws
  <2>1. \A items : Step2!IsWire(t, items) /\ ~Step2!WellFormed(t, items)
          => Step2!Unpacked(t, items) = {}
    BY Laws2 DEF Step2!LevelLaws
  <2>2. \A items : Step2!Valid(t, items) =>
          \E m : Step2!Unpacked(t, items) = {m} /\ Step2!Denotes(t, m, <<items>>)
    BY Laws2 DEF Step2!LevelLaws
  <2>3. \A m, n, p, q : /\ Step2!ArePartsOf(t, p) /\ Step2!Denotes(t, m, p)
                        /\ Step2!ArePartsOf(t, q) /\ Step2!Denotes(t, n, q)
                        => Step2!Denotes(t, Step2!merge_messages(t, m, n), p \o q)
    BY Laws2 DEF Step2!LevelLaws
  <2>4. \A items : Level2!IsWire(t, items) /\ ~Level2!WellFormed(t, items)
          => Level2!Unpacked(t, items) = {}
    BY <2>1, SameLevel2
  <2>5. \A items : Step3!ValidInside(t, items) =>
          \E m : Level2!Unpacked(t, items) = {m} /\ Level2!Denotes(t, m, <<items>>)
    BY <1>1, <2>2, SameLevel2
  <2>6. \A m, n, p, q : /\ Step3!ArePartsInside(t, p) /\ Level2!Denotes(t, m, p)
                        /\ Step3!ArePartsInside(t, q) /\ Level2!Denotes(t, n, q)
                        => Level2!Denotes(t, Level2!merge_messages(t, m, n), p \o q)
    <3> TAKE m, n, p, q
    <3>1. Step2!merge_messages(t, m, n) = Level2!merge_messages(t, m, n)
      BY SameLevel2
    <3> QED BY <1>3, <2>3, <3>1, SameLevel2
  <2> QED BY <2>4, <2>5, <2>6
<1>5. Step3!SchemaLaws
  BY LookupFindsFields DEF Step3!SchemaLaws, Step3!FieldNumbered
<1> QED BY <1>4, <1>5, Step3!Lift

LEMMA SameItems3 ==
    /\ \A items, number : Step3!Values(items, number) = Level3!Values(items, number)
    /\ \A parts : Step3!Concatenated(parts) = Level3!Concatenated(parts)
    /\ \A s : Step3!Last(s) = Level3!Last(s)
<1>1. \A items, number : Step3!Values(items, number) = Level3!Values(items, number)
  BY Zenon DEF Step3!Values, Level3!Values, Step3!Chosen, Level3!Chosen,
         Step3!Ascending, Level3!Ascending
<1>2. \A parts : Step3!Concatenated(parts) = Level3!Concatenated(parts)
  BY Zenon DEF Step3!Concatenated, Level3!Concatenated
<1>3. \A s : Step3!Last(s) = Level3!Last(s)
  BY Zenon DEF Step3!Last, Level3!Last
<1> QED BY <1>1, <1>2, <1>3

LEMMA SameLevel3 ==
    /\ \A t, m, n : Step3!merge_messages(t, m, n) = Level3!merge_messages(t, m, n)
    /\ \A t, items : Step3!Unpacked(t, items) = Level3!Unpacked(t, items)
    /\ \A t, items : Step3!IsWire(t, items) = Level3!IsWire(t, items)
    /\ \A t, items : Step3!WellFormed(t, items) = Level3!WellFormed(t, items)
    /\ \A t, m, p : Step3!Denotes(t, m, p) <=> Level3!Denotes(t, m, p)
<1>1. \A t, m, n : Step3!merge_messages(t, m, n) = Level3!merge_messages(t, m, n)
  BY Zenon DEF Step3!merge_messages, Level3!merge_messages
<1>2. \A t, items : Step3!Unpacked(t, items) = Level3!Unpacked(t, items)
  BY Zenon DEF Step3!Unpacked, Level3!Unpacked, Step3!TheField, Level3!TheField,
         Step3!Parsed, Level3!Parsed, Step3!Stored, Level3!Stored,
         Step3!NoMessage, Level3!NoMessage
<1>3. \A t, items : Step3!IsWire(t, items) = Level3!IsWire(t, items)
  BY Zenon DEF Step3!IsWire, Level3!IsWire, Step3!IsSequence, Level3!IsSequence,
         Step3!FieldNumbered, Level3!FieldNumbered
<1>4. \A t, items : Step3!WellFormed(t, items) = Level3!WellFormed(t, items)
  BY Zenon DEF Step3!WellFormed, Level3!WellFormed, Step3!FieldNumbered, Level3!FieldNumbered
<1>5. \A f, v, a, b : Step3!Means(f, v, a, b) = Level3!Means(f, v, a, b)
  BY Zenon DEF Step3!Means, Level3!Means, Step3!IsSequence, Level3!IsSequence,
         Step3!Last, Level3!Last
<1>6. ASSUME NEW t, NEW m, NEW p
      PROVE  Step3!Denotes(t, m, p) <=> Level3!Denotes(t, m, p)
  <2> DEFINE A(f) == Step3!Values(Step3!Concatenated(p), f.id)
             B(f) == Level3!Values(Level3!Concatenated(p), f.id)
             X(f) == Step3!Values(Step3!Last(p), f.id)
             Y(f) == Level3!Values(Level3!Last(p), f.id)
             C == {f \in Fields(t) : A(f) # << >>}
             D == {f \in Fields(t) : B(f) # << >>}
  <2>1. \A f : A(f) = B(f) /\ X(f) = Y(f)
    BY SameItems3, Zenon
  <2>2. Step3!Denotes(t, m, p) <=>
          DOMAIN m = {f.name : f \in C} /\ \A f \in C : Step3!Means(f, m[f.name], A(f), X(f))
    BY Zenon DEF Step3!Denotes
  <2>3. Level3!Denotes(t, m, p) <=>
          DOMAIN m = {f.name : f \in D} /\ \A f \in D : Level3!Means(f, m[f.name], B(f), Y(f))
    BY Zenon DEF Level3!Denotes
  <2> HIDE DEF A, B, X, Y
  <2>4. C = D
    BY <2>1
  <2> HIDE DEF C, D
  <2> QED BY <1>5, <2>1, <2>2, <2>3, <2>4
<1> QED BY <1>1, <1>2, <1>3, <1>4, <1>6, Zenon

LEMMA Laws4 == Step4!LevelLaws
<1>1. \A t, items : Step4!ValidInside(t, items) <=> Step3!Valid(t, items)
  BY SameLevel3 DEF Step4!ValidInside, Step3!Valid
<1>2. \A p : Step4!IsSequence(p) <=> Step3!IsSequence(p)
  BY DEF Step4!IsSequence, Step3!IsSequence
<1>3. \A t, p : Step4!ArePartsInside(t, p) <=> Step3!ArePartsOf(t, p)
  BY <1>1, <1>2 DEF Step4!ArePartsInside, Step3!ArePartsOf
<1>4. Step4!InsideLaws
  <2> SUFFICES ASSUME NEW t, IsMessage(t)
               PROVE  /\ \A items : Level3!IsWire(t, items) /\ ~Level3!WellFormed(t, items)
                           => Level3!Unpacked(t, items) = {}
                      /\ \A items : Step4!ValidInside(t, items) =>
                           \E m : /\ Level3!Unpacked(t, items) = {m}
                                  /\ Level3!Denotes(t, m, <<items>>)
                      /\ \A m, n, p, q :
                           /\ Step4!ArePartsInside(t, p) /\ Level3!Denotes(t, m, p)
                           /\ Step4!ArePartsInside(t, q) /\ Level3!Denotes(t, n, q)
                           => Level3!Denotes(t, Level3!merge_messages(t, m, n), p \o q)
    BY DEF Step4!InsideLaws
  <2>1. \A items : Step3!IsWire(t, items) /\ ~Step3!WellFormed(t, items)
          => Step3!Unpacked(t, items) = {}
    BY Laws3 DEF Step3!LevelLaws
  <2>2. \A items : Step3!Valid(t, items) =>
          \E m : Step3!Unpacked(t, items) = {m} /\ Step3!Denotes(t, m, <<items>>)
    BY Laws3 DEF Step3!LevelLaws
  <2>3. \A m, n, p, q : /\ Step3!ArePartsOf(t, p) /\ Step3!Denotes(t, m, p)
                        /\ Step3!ArePartsOf(t, q) /\ Step3!Denotes(t, n, q)
                        => Step3!Denotes(t, Step3!merge_messages(t, m, n), p \o q)
    BY Laws3 DEF Step3!LevelLaws
  <2>4. \A items : Level3!IsWire(t, items) /\ ~Level3!WellFormed(t, items)
          => Level3!Unpacked(t, items) = {}
    BY <2>1, SameLevel3
  <2>5. \A items : Step4!ValidInside(t, items) =>
          \E m : Level3!Unpacked(t, items) = {m} /\ Level3!Denotes(t, m, <<items>>)
    BY <1>1, <2>2, SameLevel3
  <2>6. \A m, n, p, q : /\ Step4!ArePartsInside(t, p) /\ Level3!Denotes(t, m, p)
                        /\ Step4!ArePartsInside(t, q) /\ Level3!Denotes(t, n, q)
                        => Level3!Denotes(t, Level3!merge_messages(t, m, n), p \o q)
    <3> TAKE m, n, p, q
    <3>1. Step3!merge_messages(t, m, n) = Level3!merge_messages(t, m, n)
      BY SameLevel3
    <3> QED BY <1>3, <2>3, <3>1, SameLevel3
  <2> QED BY <2>4, <2>5, <2>6
<1>5. Step4!SchemaLaws
  BY LookupFindsFields DEF Step4!SchemaLaws, Step4!FieldNumbered
<1> QED BY <1>4, <1>5, Step4!Lift

LEMMA SameItems4 ==
    /\ \A items, number : Step4!Values(items, number) = Level4!Values(items, number)
    /\ \A parts : Step4!Concatenated(parts) = Level4!Concatenated(parts)
    /\ \A s : Step4!Last(s) = Level4!Last(s)
<1>1. \A items, number : Step4!Values(items, number) = Level4!Values(items, number)
  BY Zenon DEF Step4!Values, Level4!Values, Step4!Chosen, Level4!Chosen,
         Step4!Ascending, Level4!Ascending
<1>2. \A parts : Step4!Concatenated(parts) = Level4!Concatenated(parts)
  BY Zenon DEF Step4!Concatenated, Level4!Concatenated
<1>3. \A s : Step4!Last(s) = Level4!Last(s)
  BY Zenon DEF Step4!Last, Level4!Last
<1> QED BY <1>1, <1>2, <1>3

LEMMA SameLevel4 ==
    /\ \A t, m, n : Step4!merge_messages(t, m, n) = Level4!merge_messages(t, m, n)
    /\ \A t, items : Step4!Unpacked(t, items) = Level4!Unpacked(t, items)
    /\ \A t, items : Step4!IsWire(t, items) = Level4!IsWire(t, items)
    /\ \A t, items : Step4!WellFormed(t, items) = Level4!WellFormed(t, items)
    /\ \A t, m, p : Step4!Denotes(t, m, p) <=> Level4!Denotes(t, m, p)
<1>1. \A t, m, n : Step4!merge_messages(t, m, n) = Level4!merge_messages(t, m, n)
  BY Zenon DEF Step4!merge_messages, Level4!merge_messages
<1>2. \A t, items : Step4!Unpacked(t, items) = Level4!Unpacked(t, items)
  BY Zenon DEF Step4!Unpacked, Level4!Unpacked, Step4!TheField, Level4!TheField,
         Step4!Parsed, Level4!Parsed, Step4!Stored, Level4!Stored,
         Step4!NoMessage, Level4!NoMessage
<1>3. \A t, items : Step4!IsWire(t, items) = Level4!IsWire(t, items)
  BY Zenon DEF Step4!IsWire, Level4!IsWire, Step4!IsSequence, Level4!IsSequence,
         Step4!FieldNumbered, Level4!FieldNumbered
<1>4. \A t, items : Step4!WellFormed(t, items) = Level4!WellFormed(t, items)
  BY Zenon DEF Step4!WellFormed, Level4!WellFormed, Step4!FieldNumbered, Level4!FieldNumbered
<1>5. \A f, v, a, b : Step4!Means(f, v, a, b) = Level4!Means(f, v, a, b)
  BY Zenon DEF Step4!Means, Level4!Means, Step4!IsSequence, Level4!IsSequence,
         Step4!Last, Level4!Last
<1>6. ASSUME NEW t, NEW m, NEW p
      PROVE  Step4!Denotes(t, m, p) <=> Level4!Denotes(t, m, p)
  <2> DEFINE A(f) == Step4!Values(Step4!Concatenated(p), f.id)
             B(f) == Level4!Values(Level4!Concatenated(p), f.id)
             X(f) == Step4!Values(Step4!Last(p), f.id)
             Y(f) == Level4!Values(Level4!Last(p), f.id)
             C == {f \in Fields(t) : A(f) # << >>}
             D == {f \in Fields(t) : B(f) # << >>}
  <2>1. \A f : A(f) = B(f) /\ X(f) = Y(f)
    BY SameItems4, Zenon
  <2>2. Step4!Denotes(t, m, p) <=>
          DOMAIN m = {f.name : f \in C} /\ \A f \in C : Step4!Means(f, m[f.name], A(f), X(f))
    BY Zenon DEF Step4!Denotes
  <2>3. Level4!Denotes(t, m, p) <=>
          DOMAIN m = {f.name : f \in D} /\ \A f \in D : Level4!Means(f, m[f.name], B(f), Y(f))
    BY Zenon DEF Level4!Denotes
  <2> HIDE DEF A, B, X, Y
  <2>4. C = D
    BY <2>1
  <2> HIDE DEF C, D
  <2> QED BY <1>5, <2>1, <2>2, <2>3, <2>4
<1> QED BY <1>1, <1>2, <1>3, <1>4, <1>6, Zenon

LEMMA Laws5 == Step5!LevelLaws
<1>1. \A t, items : Step5!ValidInside(t, items) <=> Step4!Valid(t, items)
  BY SameLevel4 DEF Step5!ValidInside, Step4!Valid
<1>2. \A p : Step5!IsSequence(p) <=> Step4!IsSequence(p)
  BY DEF Step5!IsSequence, Step4!IsSequence
<1>3. \A t, p : Step5!ArePartsInside(t, p) <=> Step4!ArePartsOf(t, p)
  BY <1>1, <1>2 DEF Step5!ArePartsInside, Step4!ArePartsOf
<1>4. Step5!InsideLaws
  <2> SUFFICES ASSUME NEW t, IsMessage(t)
               PROVE  /\ \A items : Level4!IsWire(t, items) /\ ~Level4!WellFormed(t, items)
                           => Level4!Unpacked(t, items) = {}
                      /\ \A items : Step5!ValidInside(t, items) =>
                           \E m : /\ Level4!Unpacked(t, items) = {m}
                                  /\ Level4!Denotes(t, m, <<items>>)
                      /\ \A m, n, p, q :
                           /\ Step5!ArePartsInside(t, p) /\ Level4!Denotes(t, m, p)
                           /\ Step5!ArePartsInside(t, q) /\ Level4!Denotes(t, n, q)
                           => Level4!Denotes(t, Level4!merge_messages(t, m, n), p \o q)
    BY DEF Step5!InsideLaws
  <2>1. \A items : Step4!IsWire(t, items) /\ ~Step4!WellFormed(t, items)
          => Step4!Unpacked(t, items) = {}
    BY Laws4 DEF Step4!LevelLaws
  <2>2. \A items : Step4!Valid(t, items) =>
          \E m : Step4!Unpacked(t, items) = {m} /\ Step4!Denotes(t, m, <<items>>)
    BY Laws4 DEF Step4!LevelLaws
  <2>3. \A m, n, p, q : /\ Step4!ArePartsOf(t, p) /\ Step4!Denotes(t, m, p)
                        /\ Step4!ArePartsOf(t, q) /\ Step4!Denotes(t, n, q)
                        => Step4!Denotes(t, Step4!merge_messages(t, m, n), p \o q)
    BY Laws4 DEF Step4!LevelLaws
  <2>4. \A items : Level4!IsWire(t, items) /\ ~Level4!WellFormed(t, items)
          => Level4!Unpacked(t, items) = {}
    BY <2>1, SameLevel4
  <2>5. \A items : Step5!ValidInside(t, items) =>
          \E m : Level4!Unpacked(t, items) = {m} /\ Level4!Denotes(t, m, <<items>>)
    BY <1>1, <2>2, SameLevel4
  <2>6. \A m, n, p, q : /\ Step5!ArePartsInside(t, p) /\ Level4!Denotes(t, m, p)
                        /\ Step5!ArePartsInside(t, q) /\ Level4!Denotes(t, n, q)
                        => Level4!Denotes(t, Level4!merge_messages(t, m, n), p \o q)
    <3> TAKE m, n, p, q
    <3>1. Step4!merge_messages(t, m, n) = Level4!merge_messages(t, m, n)
      BY SameLevel4
    <3> QED BY <1>3, <2>3, <3>1, SameLevel4
  <2> QED BY <2>4, <2>5, <2>6
<1>5. Step5!SchemaLaws
  BY LookupFindsFields DEF Step5!SchemaLaws, Step5!FieldNumbered
<1> QED BY <1>4, <1>5, Step5!Lift

LEMMA SameItems5 ==
    /\ \A items, number : Step5!Values(items, number) = Level5!Values(items, number)
    /\ \A parts : Step5!Concatenated(parts) = Level5!Concatenated(parts)
    /\ \A s : Step5!Last(s) = Level5!Last(s)
<1>1. \A items, number : Step5!Values(items, number) = Level5!Values(items, number)
  BY Zenon DEF Step5!Values, Level5!Values, Step5!Chosen, Level5!Chosen,
         Step5!Ascending, Level5!Ascending
<1>2. \A parts : Step5!Concatenated(parts) = Level5!Concatenated(parts)
  BY Zenon DEF Step5!Concatenated, Level5!Concatenated
<1>3. \A s : Step5!Last(s) = Level5!Last(s)
  BY Zenon DEF Step5!Last, Level5!Last
<1> QED BY <1>1, <1>2, <1>3

LEMMA SameLevel5 ==
    /\ \A t, m, n : Step5!merge_messages(t, m, n) = Level5!merge_messages(t, m, n)
    /\ \A t, items : Step5!Unpacked(t, items) = Level5!Unpacked(t, items)
    /\ \A t, items : Step5!IsWire(t, items) = Level5!IsWire(t, items)
    /\ \A t, items : Step5!WellFormed(t, items) = Level5!WellFormed(t, items)
    /\ \A t, m, p : Step5!Denotes(t, m, p) <=> Level5!Denotes(t, m, p)
<1>1. \A t, m, n : Step5!merge_messages(t, m, n) = Level5!merge_messages(t, m, n)
  BY Zenon DEF Step5!merge_messages, Level5!merge_messages
<1>2. \A t, items : Step5!Unpacked(t, items) = Level5!Unpacked(t, items)
  BY Zenon DEF Step5!Unpacked, Level5!Unpacked, Step5!TheField, Level5!TheField,
         Step5!Parsed, Level5!Parsed, Step5!Stored, Level5!Stored,
         Step5!NoMessage, Level5!NoMessage
<1>3. \A t, items : Step5!IsWire(t, items) = Level5!IsWire(t, items)
  BY Zenon DEF Step5!IsWire, Level5!IsWire, Step5!IsSequence, Level5!IsSequence,
         Step5!FieldNumbered, Level5!FieldNumbered
<1>4. \A t, items : Step5!WellFormed(t, items) = Level5!WellFormed(t, items)
  BY Zenon DEF Step5!WellFormed, Level5!WellFormed, Step5!FieldNumbered, Level5!FieldNumbered
<1>5. \A f, v, a, b : Step5!Means(f, v, a, b) = Level5!Means(f, v, a, b)
  BY Zenon DEF Step5!Means, Level5!Means, Step5!IsSequence, Level5!IsSequence,
         Step5!Last, Level5!Last
<1>6. ASSUME NEW t, NEW m, NEW p
      PROVE  Step5!Denotes(t, m, p) <=> Level5!Denotes(t, m, p)
  <2> DEFINE A(f) == Step5!Values(Step5!Concatenated(p), f.id)
             B(f) == Level5!Values(Level5!Concatenated(p), f.id)
             X(f) == Step5!Values(Step5!Last(p), f.id)
             Y(f) == Level5!Values(Level5!Last(p), f.id)
             C == {f \in Fields(t) : A(f) # << >>}
             D == {f \in Fields(t) : B(f) # << >>}
  <2>1. \A f : A(f) = B(f) /\ X(f) = Y(f)
    BY SameItems5, Zenon
  <2>2. Step5!Denotes(t, m, p) <=>
          DOMAIN m = {f.name : f \in C} /\ \A f \in C : Step5!Means(f, m[f.name], A(f), X(f))
    BY Zenon DEF Step5!Denotes
  <2>3. Level5!Denotes(t, m, p) <=>
          DOMAIN m = {f.name : f \in D} /\ \A f \in D : Level5!Means(f, m[f.name], B(f), Y(f))
    BY Zenon DEF Level5!Denotes
  <2> HIDE DEF A, B, X, Y
  <2>4. C = D
    BY <2>1
  <2> HIDE DEF C, D
  <2> QED BY <1>5, <2>1, <2>2, <2>3, <2>4
<1> QED BY <1>1, <1>2, <1>3, <1>4, <1>6, Zenon

LEMMA Laws6 == Step6!LevelLaws
<1>1. \A t, items : Step6!ValidInside(t, items) <=> Step5!Valid(t, items)
  BY SameLevel5 DEF Step6!ValidInside, Step5!Valid
<1>2. \A p : Step6!IsSequence(p) <=> Step5!IsSequence(p)
  BY DEF Step6!IsSequence, Step5!IsSequence
<1>3. \A t, p : Step6!ArePartsInside(t, p) <=> Step5!ArePartsOf(t, p)
  BY <1>1, <1>2 DEF Step6!ArePartsInside, Step5!ArePartsOf
<1>4. Step6!InsideLaws
  <2> SUFFICES ASSUME NEW t, IsMessage(t)
               PROVE  /\ \A items : Level5!IsWire(t, items) /\ ~Level5!WellFormed(t, items)
                           => Level5!Unpacked(t, items) = {}
                      /\ \A items : Step6!ValidInside(t, items) =>
                           \E m : /\ Level5!Unpacked(t, items) = {m}
                                  /\ Level5!Denotes(t, m, <<items>>)
                      /\ \A m, n, p, q :
                           /\ Step6!ArePartsInside(t, p) /\ Level5!Denotes(t, m, p)
                           /\ Step6!ArePartsInside(t, q) /\ Level5!Denotes(t, n, q)
                           => Level5!Denotes(t, Level5!merge_messages(t, m, n), p \o q)
    BY DEF Step6!InsideLaws
  <2>1. \A items : Step5!IsWire(t, items) /\ ~Step5!WellFormed(t, items)
          => Step5!Unpacked(t, items) = {}
    BY Laws5 DEF Step5!LevelLaws
  <2>2. \A items : Step5!Valid(t, items) =>
          \E m : Step5!Unpacked(t, items) = {m} /\ Step5!Denotes(t, m, <<items>>)
    BY Laws5 DEF Step5!LevelLaws
  <2>3. \A m, n, p, q : /\ Step5!ArePartsOf(t, p) /\ Step5!Denotes(t, m, p)
                        /\ Step5!ArePartsOf(t, q) /\ Step5!Denotes(t, n, q)
                        => Step5!Denotes(t, Step5!merge_messages(t, m, n), p \o q)
    BY Laws5 DEF Step5!LevelLaws
  <2>4. \A items : Level5!IsWire(t, items) /\ ~Level5!WellFormed(t, items)
          => Level5!Unpacked(t, items) = {}
    BY <2>1, SameLevel5
  <2>5. \A items : Step6!ValidInside(t, items) =>
          \E m : Level5!Unpacked(t, items) = {m} /\ Level5!Denotes(t, m, <<items>>)
    BY <1>1, <2>2, SameLevel5
  <2>6. \A m, n, p, q : /\ Step6!ArePartsInside(t, p) /\ Level5!Denotes(t, m, p)
                        /\ Step6!ArePartsInside(t, q) /\ Level5!Denotes(t, n, q)
                        => Level5!Denotes(t, Level5!merge_messages(t, m, n), p \o q)
    <3> TAKE m, n, p, q
    <3>1. Step5!merge_messages(t, m, n) = Level5!merge_messages(t, m, n)
      BY SameLevel5
    <3> QED BY <1>3, <2>3, <3>1, SameLevel5
  <2> QED BY <2>4, <2>5, <2>6
<1>5. Step6!SchemaLaws
  BY LookupFindsFields DEF Step6!SchemaLaws, Step6!FieldNumbered
<1> QED BY <1>4, <1>5, Step6!Lift

LEMMA SameItems6 ==
    /\ \A items, number : Step6!Values(items, number) = Level6!Values(items, number)
    /\ \A parts : Step6!Concatenated(parts) = Level6!Concatenated(parts)
    /\ \A s : Step6!Last(s) = Level6!Last(s)
<1>1. \A items, number : Step6!Values(items, number) = Level6!Values(items, number)
  BY Zenon DEF Step6!Values, Level6!Values, Step6!Chosen, Level6!Chosen,
         Step6!Ascending, Level6!Ascending
<1>2. \A parts : Step6!Concatenated(parts) = Level6!Concatenated(parts)
  BY Zenon DEF Step6!Concatenated, Level6!Concatenated
<1>3. \A s : Step6!Last(s) = Level6!Last(s)
  BY Zenon DEF Step6!Last, Level6!Last
<1> QED BY <1>1, <1>2, <1>3

LEMMA SameLevel6 ==
    /\ \A t, m, n : Step6!merge_messages(t, m, n) = Level6!merge_messages(t, m, n)
    /\ \A t, items : Step6!Unpacked(t, items) = Level6!Unpacked(t, items)
    /\ \A t, items : Step6!IsWire(t, items) = Level6!IsWire(t, items)
    /\ \A t, items : Step6!WellFormed(t, items) = Level6!WellFormed(t, items)
    /\ \A t, m, p : Step6!Denotes(t, m, p) <=> Level6!Denotes(t, m, p)
<1>1. \A t, m, n : Step6!merge_messages(t, m, n) = Level6!merge_messages(t, m, n)
  BY Zenon DEF Step6!merge_messages, Level6!merge_messages
<1>2. \A t, items : Step6!Unpacked(t, items) = Level6!Unpacked(t, items)
  BY Zenon DEF Step6!Unpacked, Level6!Unpacked, Step6!TheField, Level6!TheField,
         Step6!Parsed, Level6!Parsed, Step6!Stored, Level6!Stored,
         Step6!NoMessage, Level6!NoMessage
<1>3. \A t, items : Step6!IsWire(t, items) = Level6!IsWire(t, items)
  BY Zenon DEF Step6!IsWire, Level6!IsWire, Step6!IsSequence, Level6!IsSequence,
         Step6!FieldNumbered, Level6!FieldNumbered
<1>4. \A t, items : Step6!WellFormed(t, items) = Level6!WellFormed(t, items)
  BY Zenon DEF Step6!WellFormed, Level6!WellFormed, Step6!FieldNumbered, Level6!FieldNumbered
<1>5. \A f, v, a, b : Step6!Means(f, v, a, b) = Level6!Means(f, v, a, b)
  BY Zenon DEF Step6!Means, Level6!Means, Step6!IsSequence, Level6!IsSequence,
         Step6!Last, Level6!Last
<1>6. ASSUME NEW t, NEW m, NEW p
      PROVE  Step6!Denotes(t, m, p) <=> Level6!Denotes(t, m, p)
  <2> DEFINE A(f) == Step6!Values(Step6!Concatenated(p), f.id)
             B(f) == Level6!Values(Level6!Concatenated(p), f.id)
             X(f) == Step6!Values(Step6!Last(p), f.id)
             Y(f) == Level6!Values(Level6!Last(p), f.id)
             C == {f \in Fields(t) : A(f) # << >>}
             D == {f \in Fields(t) : B(f) # << >>}
  <2>1. \A f : A(f) = B(f) /\ X(f) = Y(f)
    BY SameItems6, Zenon
  <2>2. Step6!Denotes(t, m, p) <=>
          DOMAIN m = {f.name : f \in C} /\ \A f \in C : Step6!Means(f, m[f.name], A(f), X(f))
    BY Zenon DEF Step6!Denotes
  <2>3. Level6!Denotes(t, m, p) <=>
          DOMAIN m = {f.name : f \in D} /\ \A f \in D : Level6!Means(f, m[f.name], B(f), Y(f))
    BY Zenon DEF Level6!Denotes
  <2> HIDE DEF A, B, X, Y
  <2>4. C = D
    BY <2>1
  <2> HIDE DEF C, D
  <2> QED BY <1>5, <2>1, <2>2, <2>3, <2>4
<1> QED BY <1>1, <1>2, <1>3, <1>4, <1>6, Zenon

-----------------------------------------------------------------------------
(* The decoding of a feed. *)

\* What transit_realtime__feed_message__unpack gives for each feed.
LEMMA Unpacking ==
    ASSUME NEW k \in DOMAIN Feeds
    PROVE  LET result == Unpacked("FeedMessage", Feeds[k])
           IN  IF WellFormed("FeedMessage", Feeds[k])
               THEN \E m : result = {m} /\ Denotes("FeedMessage", m, <<Feeds[k]>>)
               ELSE result = {}
<1> DEFINE items == Feeds[k]
<1>1. Level6!IsWire("FeedMessage", items)
  BY FeedsAssumption
<1>2. IsMessage("FeedMessage")
  BY DEF IsMessage, Descriptors
<1> HIDE DEF items
<1>3. /\ Step6!IsWire("FeedMessage", items) /\ ~Step6!WellFormed("FeedMessage", items)
           => Step6!Unpacked("FeedMessage", items) = {}
      /\ Step6!Valid("FeedMessage", items) =>
           \E m : /\ Step6!Unpacked("FeedMessage", items) = {m}
                  /\ Step6!Denotes("FeedMessage", m, <<items>>)
  BY <1>2, Laws6 DEF Step6!LevelLaws
<1>4. /\ ~Level6!WellFormed("FeedMessage", items)
           => Level6!Unpacked("FeedMessage", items) = {}
      /\ Level6!WellFormed("FeedMessage", items) =>
           \E m : /\ Level6!Unpacked("FeedMessage", items) = {m}
                  /\ Level6!Denotes("FeedMessage", m, <<items>>)
  BY <1>1, <1>3, SameLevel6 DEF Step6!Valid
<1> QED BY <1>4 DEF Unpacked, WellFormed, Denotes, items

WireIsFeed == \E k \in DOMAIN Feeds : wire = Feeds[k]

Decoded == Faithful /\ WireIsFeed

\* What is known while a feed is decoded.
LEMMA DecodedInductive == Spec => []Decoded
<1>1. Init => Decoded
  BY DEF Init, Decoded, Faithful, WireIsFeed
<1>2. ASSUME Decoded, [Next]_vars PROVE Decoded'
  <2>1. CASE Unpack
    <3>1. PICK k \in DOMAIN Feeds : wire = Feeds[k]
      BY <1>2 DEF Decoded, WireIsFeed
    <3>2. msg' \in Unpacked("FeedMessage", wire) /\ wire' = wire /\ status' = "unpacked"
      BY <2>1 DEF Unpack
    <3>3. WellFormed("FeedMessage", wire) /\ Denotes("FeedMessage", msg', <<wire>>)
      BY <3>1, <3>2, Unpacking
    <3> QED BY <3>1, <3>2, <3>3 DEF Decoded, Faithful, WireIsFeed
  <2>2. CASE UnpackFails
    <3>1. PICK k \in DOMAIN Feeds : wire = Feeds[k]
      BY <1>2 DEF Decoded, WireIsFeed
    <3>2. /\ Unpacked("FeedMessage", wire) = {} /\ wire' = wire /\ msg' = msg
          /\ status = "raw" /\ status' = "null"
      BY <2>2 DEF UnpackFails
    <3>3. ~WellFormed("FeedMessage", wire)
      BY <3>1, <3>2, Unpacking
    <3> QED BY <1>2, <3>1, <3>2, <3>3 DEF Decoded, Faithful, WireIsFeed
  <2>3. CASE FreeUnpacked
    BY <1>2, <2>3 DEF FreeUnpacked, Decoded, Faithful, WireIsFeed
  <2>4. CASE Done \/ UNCHANGED vars
    BY <1>2, <2>4 DEF Done, vars, Decoded, Faithful, WireIsFeed
  <2> QED BY <1>2, <2>1, <2>2, <2>3, <2>4 DEF Next
<1> QED BY <1>1, <1>2, PTL DEF Spec

\* For whatever feed arrives, nested as deep as the schema goes, the tables and
\* the runtime give the message the bytes stand for, and NULL exactly if they are
\* malformed somewhere.
THEOREM DecodingFaithful == Spec => []Faithful
<1>1. Decoded => Faithful
  BY DEF Decoded
<1> QED BY <1>1, DecodedInductive, PTL

-----------------------------------------------------------------------------
(* Reading what parse_and_queue reads of a decoded entity. *)

OfType(f, value) ==
    /\ f.type = "STRING" => IsSequence(value)
    /\ IsEnum(f.type) => value \in Int

\* What was read of a field is what was sent for it.
IsReading(f, read, sent) == read = sent /\ \A x \in sent : OfType(f, x)

\* The items as the proofs about each level see them.
LEMMA Items6 ==
    /\ \A items, number : Step6!Values(items, number) = Values(items, number)
    /\ \A parts : Step6!Concatenated(parts) = Concatenated(parts)
    /\ \A s : Step6!Last(s) = Last(s)
    /\ \A s : Step6!IsSequence(s) <=> IsSequence(s)
<1>1. \A items, number : Step6!Values(items, number) = Values(items, number)
  BY Zenon DEF Step6!Values, Values, Step6!Chosen, Chosen, Step6!Ascending, Ascending
<1>2. \A parts : Step6!Concatenated(parts) = Concatenated(parts)
  BY Zenon DEF Step6!Concatenated, Concatenated
<1>3. \A s : Step6!Last(s) = Last(s)
  BY Zenon DEF Step6!Last, Last
<1>4. \A s : Step6!IsSequence(s) <=> IsSequence(s)
  BY Zenon DEF Step6!IsSequence, IsSequence
<1> QED BY <1>1, <1>2, <1>3, <1>4

\* The parts of a submessage are parts at the level below.
LEMMA PartsInside6 ==
    \A t, p : Step6!ArePartsInside(t, p) <=> Step5!ArePartsOf(t, p)
<1>1. \A t, items : Step6!ValidInside(t, items) <=> Step5!Valid(t, items)
  BY SameLevel5 DEF Step6!ValidInside, Step5!Valid
<1>2. \A p : Step6!IsSequence(p) <=> Step5!IsSequence(p)
  BY DEF Step6!IsSequence, Step5!IsSequence
<1> QED BY <1>1, <1>2 DEF Step6!ArePartsInside, Step5!ArePartsOf

LEMMA Items5 ==
    /\ \A items, number : Step5!Values(items, number) = Values(items, number)
    /\ \A parts : Step5!Concatenated(parts) = Concatenated(parts)
    /\ \A s : Step5!Last(s) = Last(s)
    /\ \A s : Step5!IsSequence(s) <=> IsSequence(s)
<1>1. \A items, number : Step5!Values(items, number) = Values(items, number)
  BY Zenon DEF Step5!Values, Values, Step5!Chosen, Chosen, Step5!Ascending, Ascending
<1>2. \A parts : Step5!Concatenated(parts) = Concatenated(parts)
  BY Zenon DEF Step5!Concatenated, Concatenated
<1>3. \A s : Step5!Last(s) = Last(s)
  BY Zenon DEF Step5!Last, Last
<1>4. \A s : Step5!IsSequence(s) <=> IsSequence(s)
  BY Zenon DEF Step5!IsSequence, IsSequence
<1> QED BY <1>1, <1>2, <1>3, <1>4

LEMMA PartsInside5 ==
    \A t, p : Step5!ArePartsInside(t, p) <=> Step4!ArePartsOf(t, p)
<1>1. \A t, items : Step5!ValidInside(t, items) <=> Step4!Valid(t, items)
  BY SameLevel4 DEF Step5!ValidInside, Step4!Valid
<1>2. \A p : Step5!IsSequence(p) <=> Step4!IsSequence(p)
  BY DEF Step5!IsSequence, Step4!IsSequence
<1> QED BY <1>1, <1>2 DEF Step5!ArePartsInside, Step4!ArePartsOf

LEMMA Items4 ==
    /\ \A items, number : Step4!Values(items, number) = Values(items, number)
    /\ \A parts : Step4!Concatenated(parts) = Concatenated(parts)
    /\ \A s : Step4!Last(s) = Last(s)
    /\ \A s : Step4!IsSequence(s) <=> IsSequence(s)
<1>1. \A items, number : Step4!Values(items, number) = Values(items, number)
  BY Zenon DEF Step4!Values, Values, Step4!Chosen, Chosen, Step4!Ascending, Ascending
<1>2. \A parts : Step4!Concatenated(parts) = Concatenated(parts)
  BY Zenon DEF Step4!Concatenated, Concatenated
<1>3. \A s : Step4!Last(s) = Last(s)
  BY Zenon DEF Step4!Last, Last
<1>4. \A s : Step4!IsSequence(s) <=> IsSequence(s)
  BY Zenon DEF Step4!IsSequence, IsSequence
<1> QED BY <1>1, <1>2, <1>3, <1>4

LEMMA PartsInside4 ==
    \A t, p : Step4!ArePartsInside(t, p) <=> Step3!ArePartsOf(t, p)
<1>1. \A t, items : Step4!ValidInside(t, items) <=> Step3!Valid(t, items)
  BY SameLevel3 DEF Step4!ValidInside, Step3!Valid
<1>2. \A p : Step4!IsSequence(p) <=> Step3!IsSequence(p)
  BY DEF Step4!IsSequence, Step3!IsSequence
<1> QED BY <1>1, <1>2 DEF Step4!ArePartsInside, Step3!ArePartsOf

LEMMA Items3 ==
    /\ \A items, number : Step3!Values(items, number) = Values(items, number)
    /\ \A parts : Step3!Concatenated(parts) = Concatenated(parts)
    /\ \A s : Step3!Last(s) = Last(s)
    /\ \A s : Step3!IsSequence(s) <=> IsSequence(s)
<1>1. \A items, number : Step3!Values(items, number) = Values(items, number)
  BY Zenon DEF Step3!Values, Values, Step3!Chosen, Chosen, Step3!Ascending, Ascending
<1>2. \A parts : Step3!Concatenated(parts) = Concatenated(parts)
  BY Zenon DEF Step3!Concatenated, Concatenated
<1>3. \A s : Step3!Last(s) = Last(s)
  BY Zenon DEF Step3!Last, Last
<1>4. \A s : Step3!IsSequence(s) <=> IsSequence(s)
  BY Zenon DEF Step3!IsSequence, IsSequence
<1> QED BY <1>1, <1>2, <1>3, <1>4

\* In a message of which nothing came nothing is inside.
LEMMA NothingInside ==
    \A number : Inner(<< >>, number) = << >> /\ Sent(<< >>, number) = {}
<1>1. Step3!IsSequence(<< >>)
  BY DEF Step3!IsSequence
<1>2. Step3!Concatenated(<< >>) = << >>
  <2>1. PICK u : /\ Step3!IsConcatenation(u, << >>)
                 /\ Step3!Concatenated(<< >>) = u[Len(<< >>)]
    BY Step3!ConcatenatedUpto
  <2> QED BY <2>1 DEF Step3!IsConcatenation
<1>3. ASSUME NEW number PROVE Step3!Values(<< >>, number) = << >>
  <2>1. (\E k \in 1 .. Len(<< >>) : << >>[k].number = number)
          <=> Step3!Values(<< >>, number) # << >>
    BY <1>1, Step3!ValuesMembers
  <2> QED BY <2>1
<1> QED BY <1>2, <1>3, Items3 DEF Inner, Sent

\* A message that may be absent and that, if it is there, has come in these parts.
Saying3(t, v, parts) ==
    \/ v = {} /\ parts = << >>
    \/ \E m : v = {m} /\ Step3!ArePartsOf(t, parts) /\ Step3!Denotes(t, m, parts)

\* At each level a field of the message is read as it was sent; nothing is read of
\* a message that is not there, for which nothing was sent.
LEMMA Read3 ==
    ASSUME NEW t, IsMessage(t), NEW v, NEW parts, Saying3(t, v, parts),
           NEW f, f \in Fields(t)
    PROVE  /\ f.label # "REPEATED" /\ ~IsMessage(f.type) =>
                IsReading(f, At(v, f.name), Sent(parts, f.id))
           /\ f.label = "REQUIRED" /\ v # {} => Inner(parts, f.id) # << >>
<1>1. CASE v = {} /\ parts = << >>
  <2>1. At(v, f.name) = {}
    BY <1>1 DEF At
  <2> QED BY <1>1, <2>1, NothingInside DEF IsReading
<1>2. CASE \E m : v = {m} /\ Step3!ArePartsOf(t, parts) /\ Step3!Denotes(t, m, parts)
  <2>1. PICK m : v = {m} /\ Step3!ArePartsOf(t, parts) /\ Step3!Denotes(t, m, parts)
    BY <1>2
  <2> DEFINE all == Inner(parts, f.id)
             final == Step3!Values(Step3!Last(parts), f.id)
  <2>2. Step3!Values(Step3!Concatenated(parts), f.id) = all
    BY Items3, Zenon DEF Inner
  <2>3. Step3!SchemaLaws
    BY LookupFindsFields DEF Step3!SchemaLaws, Step3!FieldNumbered
  <2>4. /\ f.name \in DOMAIN m <=> all # << >>
        /\ f.label = "REQUIRED" => all # << >>
        /\ all # << >> => /\ Step3!Means(f, m[f.name], all, final)
                          /\ IsMessage(f.type) => Step3!ArePartsInside(f.type, all)
                          /\ Step3!IsOfType(f, Step3!Last(all))
    BY <2>1, <2>2, <2>3, Step3!FieldRead
  <2> HIDE DEF final
  <2>5. At(v, f.name) = IF all = << >> THEN {} ELSE {m[f.name]}
    BY <2>1, <2>4 DEF At
  <2>6. Sent(parts, f.id) = IF all = << >> THEN {} ELSE {Last(all)}
    BY DEF Sent
  <2> HIDE DEF all
  <2>7. all # << >> => OfType(f, Last(all))
    BY <2>4, Items3 DEF Step3!IsOfType, OfType
  <2>8. f.label # "REPEATED" /\ ~IsMessage(f.type) =>
          IsReading(f, At(v, f.name), Sent(parts, f.id))
    <3>1. SUFFICES ASSUME f.label # "REPEATED", ~IsMessage(f.type), all # << >>
                   PROVE  m[f.name] = Last(all)
      BY <2>5, <2>6, <2>7 DEF IsReading
    <3> QED BY <2>4, <3>1, Items3 DEF Step3!Means
  <2> QED BY <2>4, <2>8 DEF all
<1> QED BY <1>1, <1>2 DEF Saying3

Saying4(t, v, parts) ==
    \/ v = {} /\ parts = << >>
    \/ \E m : v = {m} /\ Step4!ArePartsOf(t, parts) /\ Step4!Denotes(t, m, parts)

LEMMA Read4 ==
    ASSUME NEW t, IsMessage(t), NEW v, NEW parts, Saying4(t, v, parts),
           NEW f, f \in Fields(t)
    PROVE  /\ f.label # "REPEATED" /\ ~IsMessage(f.type) =>
                IsReading(f, At(v, f.name), Sent(parts, f.id))
           /\ f.label = "OPTIONAL" /\ IsMessage(f.type) =>
                Saying3(f.type, At(v, f.name), Inner(parts, f.id))
           /\ f.label = "REQUIRED" /\ v # {} => Inner(parts, f.id) # << >>
<1>1. CASE v = {} /\ parts = << >>
  <2>1. At(v, f.name) = {}
    BY <1>1 DEF At
  <2> QED BY <1>1, <2>1, NothingInside DEF IsReading, Saying3
<1>2. CASE \E m : v = {m} /\ Step4!ArePartsOf(t, parts) /\ Step4!Denotes(t, m, parts)
  <2>1. PICK m : v = {m} /\ Step4!ArePartsOf(t, parts) /\ Step4!Denotes(t, m, parts)
    BY <1>2
  <2> DEFINE all == Inner(parts, f.id)
             final == Step4!Values(Step4!Last(parts), f.id)
  <2>2. Step4!Values(Step4!Concatenated(parts), f.id) = all
    BY Items4, Zenon DEF Inner
  <2>3. Step4!SchemaLaws
    BY LookupFindsFields DEF Step4!SchemaLaws, Step4!FieldNumbered
  <2>4. /\ f.name \in DOMAIN m <=> all # << >>
        /\ f.label = "REQUIRED" => all # << >>
        /\ all # << >> => /\ Step4!Means(f, m[f.name], all, final)
                          /\ IsMessage(f.type) => Step4!ArePartsInside(f.type, all)
                          /\ Step4!IsOfType(f, Step4!Last(all))
    BY <2>1, <2>2, <2>3, Step4!FieldRead
  <2> HIDE DEF final
  <2>5. At(v, f.name) = IF all = << >> THEN {} ELSE {m[f.name]}
    BY <2>1, <2>4 DEF At
  <2>6. Sent(parts, f.id) = IF all = << >> THEN {} ELSE {Last(all)}
    BY DEF Sent
  <2> HIDE DEF all
  <2>7. all # << >> => OfType(f, Last(all))
    BY <2>4, Items4 DEF Step4!IsOfType, OfType
  <2>8. f.label # "REPEATED" /\ ~IsMessage(f.type) =>
          IsReading(f, At(v, f.name), Sent(parts, f.id))
    <3>1. SUFFICES ASSUME f.label # "REPEATED", ~IsMessage(f.type), all # << >>
                   PROVE  m[f.name] = Last(all)
      BY <2>5, <2>6, <2>7 DEF IsReading
    <3> QED BY <2>4, <3>1, Items4 DEF Step4!Means
  <2>9. f.label = "OPTIONAL" /\ IsMessage(f.type) =>
          Saying3(f.type, At(v, f.name), all)
    <3>1. SUFFICES ASSUME f.label = "OPTIONAL", IsMessage(f.type), all # << >>
                   PROVE  /\ Step3!ArePartsOf(f.type, all)
                          /\ Step3!Denotes(f.type, m[f.name], all)
      BY <2>5 DEF Saying3
    <3>2. Level3!Denotes(f.type, m[f.name], all)
      BY <2>4, <3>1 DEF Step4!Means
    <3> QED BY <2>4, <3>1, <3>2, PartsInside4, SameLevel3
  <2> QED BY <2>4, <2>8, <2>9 DEF all
<1> QED BY <1>1, <1>2 DEF Saying4

Saying5(t, v, parts) ==
    \/ v = {} /\ parts = << >>
    \/ \E m : v = {m} /\ Step5!ArePartsOf(t, parts) /\ Step5!Denotes(t, m, parts)

LEMMA Read5 ==
    ASSUME NEW t, IsMessage(t), NEW v, NEW parts, Saying5(t, v, parts),
           NEW f, f \in Fields(t)
    PROVE  /\ f.label # "REPEATED" /\ ~IsMessage(f.type) =>
                IsReading(f, At(v, f.name), Sent(parts, f.id))
           /\ f.label = "OPTIONAL" /\ IsMessage(f.type) =>
                Saying4(f.type, At(v, f.name), Inner(parts, f.id))
           /\ f.label = "REQUIRED" /\ v # {} => Inner(parts, f.id) # << >>
<1>1. CASE v = {} /\ parts = << >>
  <2>1. At(v, f.name) = {}
    BY <1>1 DEF At
  <2> QED BY <1>1, <2>1, NothingInside DEF IsReading, Saying4
<1>2. CASE \E m : v = {m} /\ Step5!ArePartsOf(t, parts) /\ Step5!Denotes(t, m, parts)
  <2>1. PICK m : v = {m} /\ Step5!ArePartsOf(t, parts) /\ Step5!Denotes(t, m, parts)
    BY <1>2
  <2> DEFINE all == Inner(parts, f.id)
             final == Step5!Values(Step5!Last(parts), f.id)
  <2>2. Step5!Values(Step5!Concatenated(parts), f.id) = all
    BY Items5, Zenon DEF Inner
  <2>3. Step5!SchemaLaws
    BY LookupFindsFields DEF Step5!SchemaLaws, Step5!FieldNumbered
  <2>4. /\ f.name \in DOMAIN m <=> all # << >>
        /\ f.label = "REQUIRED" => all # << >>
        /\ all # << >> => /\ Step5!Means(f, m[f.name], all, final)
                          /\ IsMessage(f.type) => Step5!ArePartsInside(f.type, all)
                          /\ Step5!IsOfType(f, Step5!Last(all))
    BY <2>1, <2>2, <2>3, Step5!FieldRead
  <2> HIDE DEF final
  <2>5. At(v, f.name) = IF all = << >> THEN {} ELSE {m[f.name]}
    BY <2>1, <2>4 DEF At
  <2>6. Sent(parts, f.id) = IF all = << >> THEN {} ELSE {Last(all)}
    BY DEF Sent
  <2> HIDE DEF all
  <2>7. all # << >> => OfType(f, Last(all))
    BY <2>4, Items5 DEF Step5!IsOfType, OfType
  <2>8. f.label # "REPEATED" /\ ~IsMessage(f.type) =>
          IsReading(f, At(v, f.name), Sent(parts, f.id))
    <3>1. SUFFICES ASSUME f.label # "REPEATED", ~IsMessage(f.type), all # << >>
                   PROVE  m[f.name] = Last(all)
      BY <2>5, <2>6, <2>7 DEF IsReading
    <3> QED BY <2>4, <3>1, Items5 DEF Step5!Means
  <2>9. f.label = "OPTIONAL" /\ IsMessage(f.type) =>
          Saying4(f.type, At(v, f.name), all)
    <3>1. SUFFICES ASSUME f.label = "OPTIONAL", IsMessage(f.type), all # << >>
                   PROVE  /\ Step4!ArePartsOf(f.type, all)
                          /\ Step4!Denotes(f.type, m[f.name], all)
      BY <2>5 DEF Saying4
    <3>2. Level4!Denotes(f.type, m[f.name], all)
      BY <2>4, <3>1 DEF Step5!Means
    <3> QED BY <2>4, <3>1, <3>2, PartsInside5, SameLevel4
  <2> QED BY <2>4, <2>8, <2>9 DEF all
<1> QED BY <1>1, <1>2 DEF Saying5





\* The fields of each message that parse_and_queue reads.
LEMMA FeedEntityReads ==
    ASSUME NEW v, NEW p, Saying5("FeedEntity", v, p)
    PROVE  /\ At(v, "id") = Sent(p, 1)
           /\ \A x \in Sent(p, 1) : IsSequence(x)
           /\ Saying4("VehiclePosition", At(v, "vehicle"), Inner(p, 4))
<1>1. IsMessage("FeedEntity")
  BY DEF IsMessage, Descriptors
<1>2. /\ At(v, "id") = Sent(p, 1)
      /\ \A x \in Sent(p, 1) : IsSequence(x)
  <2> DEFINE f == FeedEntity.fields[1]
  <2>1. f.id = 1 /\ f.name = "id" /\ f.type = "STRING" /\ f.label = "REQUIRED"
    BY DEF FeedEntity, Required, Optional, Field, Or
  <2>2. f \in Fields("FeedEntity")
    BY DEF Fields, ToSet, Descriptors, FeedEntity
  <2>3. ~IsMessage("STRING")
    BY DEF IsMessage, Descriptors
  <2> HIDE DEF f
  <2> QED BY <1>1, <2>1, <2>2, <2>3, Read5 DEF IsReading, OfType
<1>3. Saying4("VehiclePosition", At(v, "vehicle"), Inner(p, 4))
  <2> DEFINE f == FeedEntity.fields[4]
  <2>1. f.id = 4 /\ f.name = "vehicle" /\ f.type = "VehiclePosition" /\ f.label = "OPTIONAL"
    BY DEF FeedEntity, Required, Optional, Field, Or
  <2>2. f \in Fields("FeedEntity")
    BY DEF Fields, ToSet, Descriptors, FeedEntity
  <2>3. IsMessage("VehiclePosition")
    BY DEF IsMessage, Descriptors
  <2> HIDE DEF f
  <2> QED BY <1>1, <2>1, <2>2, <2>3, Read5
<1> QED BY <1>2, <1>3

LEMMA VehiclePositionReads ==
    ASSUME NEW v, NEW p, Saying4("VehiclePosition", v, p)
    PROVE  /\ Saying3("TripDescriptor", At(v, "trip"), Inner(p, 1))
           /\ Saying3("Position", At(v, "position"), Inner(p, 2))
           /\ At(v, "current_status") = Sent(p, 4)
           /\ At(v, "timestamp") = Sent(p, 5)
           /\ At(v, "congestion_level") = Sent(p, 6)
           /\ At(v, "stop_id") = Sent(p, 7)
           /\ \A x \in Sent(p, 7) : IsSequence(x)
           /\ Saying3("VehicleDescriptor", At(v, "vehicle"), Inner(p, 8))
           /\ At(v, "occupancy_status") = Sent(p, 9)
           /\ Sent(p, 9) \subseteq Int
           /\ At(v, "occupancy_percentage") = Sent(p, 10)
<1>1. IsMessage("VehiclePosition")
  BY DEF IsMessage, Descriptors
<1>2. Saying3("TripDescriptor", At(v, "trip"), Inner(p, 1))
  <2> DEFINE f == VehiclePosition.fields[1]
  <2>1. f.id = 1 /\ f.name = "trip" /\ f.type = "TripDescriptor" /\ f.label = "OPTIONAL"
    BY DEF VehiclePosition, Required, Optional, Field, Or
  <2>2. f \in Fields("VehiclePosition")
    BY DEF Fields, ToSet, Descriptors, VehiclePosition
  <2>3. IsMessage("TripDescriptor")
    BY DEF IsMessage, Descriptors
  <2> HIDE DEF f
  <2> QED BY <1>1, <2>1, <2>2, <2>3, Read4
<1>3. Saying3("Position", At(v, "position"), Inner(p, 2))
  <2> DEFINE f == VehiclePosition.fields[2]
  <2>1. f.id = 2 /\ f.name = "position" /\ f.type = "Position" /\ f.label = "OPTIONAL"
    BY DEF VehiclePosition, Required, Optional, Field, Or
  <2>2. f \in Fields("VehiclePosition")
    BY DEF Fields, ToSet, Descriptors, VehiclePosition
  <2>3. IsMessage("Position")
    BY DEF IsMessage, Descriptors
  <2> HIDE DEF f
  <2> QED BY <1>1, <2>1, <2>2, <2>3, Read4
<1>4. At(v, "current_status") = Sent(p, 4)
  <2> DEFINE f == VehiclePosition.fields[4]
  <2>1. f.id = 4 /\ f.name = "current_status" /\ f.type = "VehicleStopStatus" /\ f.label = "OPTIONAL"
    BY DEF VehiclePosition, Required, Optional, Field, Or
  <2>2. f \in Fields("VehiclePosition")
    BY DEF Fields, ToSet, Descriptors, VehiclePosition
  <2>3. ~IsMessage("VehicleStopStatus") /\ IsEnum("VehicleStopStatus")
    BY DEF IsMessage, Descriptors, IsEnum, Enums
  <2> HIDE DEF f
  <2> QED BY <1>1, <2>1, <2>2, <2>3, Read4 DEF IsReading, OfType
<1>5. At(v, "timestamp") = Sent(p, 5)
  <2> DEFINE f == VehiclePosition.fields[5]
  <2>1. f.id = 5 /\ f.name = "timestamp" /\ f.type = "UINT64" /\ f.label = "OPTIONAL"
    BY DEF VehiclePosition, Required, Optional, Field, Or
  <2>2. f \in Fields("VehiclePosition")
    BY DEF Fields, ToSet, Descriptors, VehiclePosition
  <2>3. ~IsMessage("UINT64")
    BY DEF IsMessage, Descriptors
  <2> HIDE DEF f
  <2> QED BY <1>1, <2>1, <2>2, <2>3, Read4 DEF IsReading, OfType
<1>6. At(v, "congestion_level") = Sent(p, 6)
  <2> DEFINE f == VehiclePosition.fields[6]
  <2>1. f.id = 6 /\ f.name = "congestion_level" /\ f.type = "CongestionLevel" /\ f.label = "OPTIONAL"
    BY DEF VehiclePosition, Required, Optional, Field, Or
  <2>2. f \in Fields("VehiclePosition")
    BY DEF Fields, ToSet, Descriptors, VehiclePosition
  <2>3. ~IsMessage("CongestionLevel") /\ IsEnum("CongestionLevel")
    BY DEF IsMessage, Descriptors, IsEnum, Enums
  <2> HIDE DEF f
  <2> QED BY <1>1, <2>1, <2>2, <2>3, Read4 DEF IsReading, OfType
<1>7. /\ At(v, "stop_id") = Sent(p, 7)
      /\ \A x \in Sent(p, 7) : IsSequence(x)
  <2> DEFINE f == VehiclePosition.fields[7]
  <2>1. f.id = 7 /\ f.name = "stop_id" /\ f.type = "STRING" /\ f.label = "OPTIONAL"
    BY DEF VehiclePosition, Required, Optional, Field, Or
  <2>2. f \in Fields("VehiclePosition")
    BY DEF Fields, ToSet, Descriptors, VehiclePosition
  <2>3. ~IsMessage("STRING")
    BY DEF IsMessage, Descriptors
  <2> HIDE DEF f
  <2> QED BY <1>1, <2>1, <2>2, <2>3, Read4 DEF IsReading, OfType
<1>8. Saying3("VehicleDescriptor", At(v, "vehicle"), Inner(p, 8))
  <2> DEFINE f == VehiclePosition.fields[8]
  <2>1. f.id = 8 /\ f.name = "vehicle" /\ f.type = "VehicleDescriptor" /\ f.label = "OPTIONAL"
    BY DEF VehiclePosition, Required, Optional, Field, Or
  <2>2. f \in Fields("VehiclePosition")
    BY DEF Fields, ToSet, Descriptors, VehiclePosition
  <2>3. IsMessage("VehicleDescriptor")
    BY DEF IsMessage, Descriptors
  <2> HIDE DEF f
  <2> QED BY <1>1, <2>1, <2>2, <2>3, Read4
<1>9. /\ At(v, "occupancy_status") = Sent(p, 9)
      /\ Sent(p, 9) \subseteq Int
  <2> DEFINE f == VehiclePosition.fields[9]
  <2>1. f.id = 9 /\ f.name = "occupancy_status" /\ f.type = "OccupancyStatus" /\ f.label = "OPTIONAL"
    BY DEF VehiclePosition, Required, Optional, Field, Or
  <2>2. f \in Fields("VehiclePosition")
    BY DEF Fields, ToSet, Descriptors, VehiclePosition
  <2>3. ~IsMessage("OccupancyStatus") /\ IsEnum("OccupancyStatus")
    BY DEF IsMessage, Descriptors, IsEnum, Enums
  <2> HIDE DEF f
  <2> QED BY <1>1, <2>1, <2>2, <2>3, Read4 DEF IsReading, OfType
<1>10. At(v, "occupancy_percentage") = Sent(p, 10)
  <2> DEFINE f == VehiclePosition.fields[10]
  <2>1. f.id = 10 /\ f.name = "occupancy_percentage" /\ f.type = "UINT32" /\ f.label = "OPTIONAL"
    BY DEF VehiclePosition, Required, Optional, Field, Or
  <2>2. f \in Fields("VehiclePosition")
    BY DEF Fields, ToSet, Descriptors, VehiclePosition
  <2>3. ~IsMessage("UINT32")
    BY DEF IsMessage, Descriptors
  <2> HIDE DEF f
  <2> QED BY <1>1, <2>1, <2>2, <2>3, Read4 DEF IsReading, OfType
<1> QED BY <1>2, <1>3, <1>4, <1>5, <1>6, <1>7, <1>8, <1>9, <1>10

LEMMA VehicleDescriptorReads ==
    ASSUME NEW v, NEW p, Saying3("VehicleDescriptor", v, p)
    PROVE  /\ At(v, "id") = Sent(p, 1)
           /\ \A x \in Sent(p, 1) : IsSequence(x)
           /\ At(v, "label") = Sent(p, 2)
           /\ \A x \in Sent(p, 2) : IsSequence(x)
<1>1. IsMessage("VehicleDescriptor")
  BY DEF IsMessage, Descriptors
<1>2. /\ At(v, "id") = Sent(p, 1)
      /\ \A x \in Sent(p, 1) : IsSequence(x)
  <2> DEFINE f == VehicleDescriptor.fields[1]
  <2>1. f.id = 1 /\ f.name = "id" /\ f.type = "STRING" /\ f.label = "OPTIONAL"
    BY DEF VehicleDescriptor, Required, Optional, Field, Or
  <2>2. f \in Fields("VehicleDescriptor")
    BY DEF Fields, ToSet, Descriptors, VehicleDescriptor
  <2>3. ~IsMessage("STRING")
    BY DEF IsMessage, Descriptors
  <2> HIDE DEF f
  <2> QED BY <1>1, <2>1, <2>2, <2>3, Read3 DEF IsReading, OfType
<1>3. /\ At(v, "label") = Sent(p, 2)
      /\ \A x \in Sent(p, 2) : IsSequence(x)
  <2> DEFINE f == VehicleDescriptor.fields[2]
  <2>1. f.id = 2 /\ f.name = "label" /\ f.type = "STRING" /\ f.label = "OPTIONAL"
    BY DEF VehicleDescriptor, Required, Optional, Field, Or
  <2>2. f \in Fields("VehicleDescriptor")
    BY DEF Fields, ToSet, Descriptors, VehicleDescriptor
  <2>3. ~IsMessage("STRING")
    BY DEF IsMessage, Descriptors
  <2> HIDE DEF f
  <2> QED BY <1>1, <2>1, <2>2, <2>3, Read3 DEF IsReading, OfType
<1> QED BY <1>2, <1>3

LEMMA TripDescriptorReads ==
    ASSUME NEW v, NEW p, Saying3("TripDescriptor", v, p)
    PROVE  /\ At(v, "route_id") = Sent(p, 5)
           /\ \A x \in Sent(p, 5) : IsSequence(x)
<1>1. IsMessage("TripDescriptor")
  BY DEF IsMessage, Descriptors
<1>2. /\ At(v, "route_id") = Sent(p, 5)
      /\ \A x \in Sent(p, 5) : IsSequence(x)
  <2> DEFINE f == TripDescriptor.fields[5]
  <2>1. f.id = 5 /\ f.name = "route_id" /\ f.type = "STRING" /\ f.label = "OPTIONAL"
    BY DEF TripDescriptor, Required, Optional, Field, Or
  <2>2. f \in Fields("TripDescriptor")
    BY DEF Fields, ToSet, Descriptors, TripDescriptor
  <2>3. ~IsMessage("STRING")
    BY DEF IsMessage, Descriptors
  <2> HIDE DEF f
  <2> QED BY <1>1, <2>1, <2>2, <2>3, Read3 DEF IsReading, OfType
<1> QED BY <1>2

LEMMA PositionReads ==
    ASSUME NEW v, NEW p, Saying3("Position", v, p)
    PROVE  /\ At(v, "latitude") = Sent(p, 1)
           /\ v # {} => Inner(p, 1) # << >>
           /\ At(v, "longitude") = Sent(p, 2)
           /\ v # {} => Inner(p, 2) # << >>
           /\ At(v, "bearing") = Sent(p, 3)
           /\ At(v, "speed") = Sent(p, 5)
<1>1. IsMessage("Position")
  BY DEF IsMessage, Descriptors
<1>2. /\ At(v, "latitude") = Sent(p, 1)
      /\ v # {} => Inner(p, 1) # << >>
  <2> DEFINE f == Position.fields[1]
  <2>1. f.id = 1 /\ f.name = "latitude" /\ f.type = "FLOAT" /\ f.label = "REQUIRED"
    BY DEF Position, Required, Optional, Field, Or
  <2>2. f \in Fields("Position")
    BY DEF Fields, ToSet, Descriptors, Position
  <2>3. ~IsMessage("FLOAT")
    BY DEF IsMessage, Descriptors
  <2> HIDE DEF f
  <2> QED BY <1>1, <2>1, <2>2, <2>3, Read3 DEF IsReading, OfType
<1>3. /\ At(v, "longitude") = Sent(p, 2)
      /\ v # {} => Inner(p, 2) # << >>
  <2> DEFINE f == Position.fields[2]
  <2>1. f.id = 2 /\ f.name = "longitude" /\ f.type = "FLOAT" /\ f.label = "REQUIRED"
    BY DEF Position, Required, Optional, Field, Or
  <2>2. f \in Fields("Position")
    BY DEF Fields, ToSet, Descriptors, Position
  <2>3. ~IsMessage("FLOAT")
    BY DEF IsMessage, Descriptors
  <2> HIDE DEF f
  <2> QED BY <1>1, <2>1, <2>2, <2>3, Read3 DEF IsReading, OfType
<1>4. At(v, "bearing") = Sent(p, 3)
  <2> DEFINE f == Position.fields[3]
  <2>1. f.id = 3 /\ f.name = "bearing" /\ f.type = "FLOAT" /\ f.label = "OPTIONAL"
    BY DEF Position, Required, Optional, Field, Or
  <2>2. f \in Fields("Position")
    BY DEF Fields, ToSet, Descriptors, Position
  <2>3. ~IsMessage("FLOAT")
    BY DEF IsMessage, Descriptors
  <2> HIDE DEF f
  <2> QED BY <1>1, <2>1, <2>2, <2>3, Read3 DEF IsReading, OfType
<1>5. At(v, "speed") = Sent(p, 5)
  <2> DEFINE f == Position.fields[5]
  <2>1. f.id = 5 /\ f.name = "speed" /\ f.type = "FLOAT" /\ f.label = "OPTIONAL"
    BY DEF Position, Required, Optional, Field, Or
  <2>2. f \in Fields("Position")
    BY DEF Fields, ToSet, Descriptors, Position
  <2>3. ~IsMessage("FLOAT")
    BY DEF IsMessage, Descriptors
  <2> HIDE DEF f
  <2> QED BY <1>1, <2>1, <2>2, <2>3, Read3 DEF IsReading, OfType
<1> QED BY <1>2, <1>3, <1>4, <1>5

-----------------------------------------------------------------------------
(* The record of an entity. *)

\* A copied text is cut to the size of its destination.
LEMMA CopiedFits ==
    ASSUME NEW text, IsSequence(text), NEW n, n \in Nat \ {0}
    PROVE  Fits(Copied(text, n), text, n)
<1> DEFINE S == {text[k] : k \in 1 .. Len(text)}
           c == IF Len(text) < n THEN Len(text) ELSE n - 1
           stored == SubSeq(text, 1, c)
<1>1. text \in Seq(S) /\ Len(text) \in Nat
  BY Items3, Step3!SequenceIsSeq
<1>2. c \in 0 .. Len(text)
  BY <1>1
<1>3. (c = Len(text) /\ Len(text) < n) \/ (c = n - 1 /\ Len(text) >= n)
  BY <1>1
<1> HIDE DEF S, c
<1>4. stored \in Seq(S) /\ Len(stored) = c /\ \A k \in 1 .. c : stored[k] = text[k]
  BY <1>1, <1>2
<1>5. SubSeq(stored, 1, Len(stored)) = SubSeq(text, 1, Len(stored))
  BY <1>1, <1>2, <1>4
<1>6. Copied(text, n) = stored
  BY DEF Copied, c
<1> HIDE DEF stored
<1>7. IsPrefix(stored, text)
  BY <1>1, <1>2, <1>4, <1>5 DEF IsPrefix
<1> QED BY <1>3, <1>4, <1>6, <1>7 DEF Fits

\* The view of an entity has the fields that were found, and Flatten takes a
\* default for the others.
LEMMA ViewReads ==
    ASSUME NEW e, NEW f \in DOMAIN Reads(e), NEW d
    PROVE  /\ f \in DOMAIN EntityView(e) <=> Reads(e)[f] # {}
           /\ (IF f \in DOMAIN EntityView(e) THEN EntityView(e)[f] ELSE d)
                = SentOr(Reads(e)[f], d)
<1> DEFINE R == Reads(e)
<1> HIDE DEF R
<1>1. EntityView(e) = [g \in {h \in DOMAIN R : R[h] # {}} |-> CHOOSE v \in R[g] : TRUE]
  BY DEF EntityView, R
<1>2. f \in DOMAIN R
  BY DEF R
<1> QED BY <1>1, <1>2 DEF SentOr, R

\* The record in terms of what was read, with Flatten's default values.
LEMMA FlattenReads ==
    ASSUME NEW e
    PROVE  LET R == Reads(e)
               r == Flatten(EntityView(e))
           IN  /\ r.fleet_number = Copied(SentOr(R.label, SentOr(R.id, Unknown)), IdSize)
               /\ r.internal_id = Copied(SentOr(R.vehicle_id, Unknown), IdSize)
               /\ r.route_id = Copied(SentOr(R.route_id, Unknown), IdSize)
               /\ r.stop_id = Copied(SentOr(R.stop_id, Unknown), StopSize)
               /\ r.speed = SentOr(R.speed, 0)
               /\ r.occupancy_status = SentOr(R.occupancy_status, 7)
               /\ r.occupancy_percentage = ToInt(SentOr(R.occupancy_percentage, UIntModulus - 1))
               /\ r.bearing = SentOr(R.bearing, 0)
               /\ r.timestamp = SentOr(R.timestamp, 0)
               /\ r.current_status = SentOr(R.current_status, 2)
               /\ r.congestion_level = SentOr(R.congestion_level, 0)
               /\ HasPosition(EntityView(e)) <=> R.position # {}
               /\ R.position # {} => r.position = SentOr(R.position, 0)
<1> DEFINE R == Reads(e)
           w == EntityView(e)
           or(f, d) == IF f \in DOMAIN w THEN w[f] ELSE d
<1>1. \A d : \A f \in DOMAIN R : f \in DOMAIN w <=> R[f] # {}
  BY ViewReads
<1>2. \A d : \A f \in DOMAIN R : or(f, d) = SentOr(R[f], d)
  BY ViewReads
<1>3. DOMAIN R = {"id", "label", "vehicle_id", "route_id", "stop_id", "position", "speed",
                  "bearing", "occupancy_status", "occupancy_percentage", "timestamp",
                  "current_status", "congestion_level"}
  BY DEF Reads
<1> HIDE DEF R, w
<1>4. R.position # {} => w["position"] = SentOr(R.position, 0)
  BY <1>1, <1>2, <1>3
<1> QED BY <1>1, <1>2, <1>3, <1>4 DEF Flatten, HasPosition, R, w

\* R is what was sent for an entity; each text in it is a sequence, the occupancy
\* a number, and a position that came has a latitude and a longitude.
ReadAsSent(R, entity) ==
    LET vehicle == Inner(entity, 4)
        position == Inner(vehicle, 2)
        descriptor == Inner(vehicle, 8)
        trip == Inner(vehicle, 1)
    IN  /\ R.id = Sent(entity, 1) /\ R.label = Sent(descriptor, 2)
        /\ R.vehicle_id = Sent(descriptor, 1) /\ R.route_id = Sent(trip, 5)
        /\ R.stop_id = Sent(vehicle, 7)
        /\ \A x \in R.id \cup R.label \cup R.vehicle_id \cup R.route_id \cup R.stop_id :
             IsSequence(x)
        /\ R.bearing = Sent(position, 3) /\ R.speed = Sent(position, 5)
        /\ R.timestamp = Sent(vehicle, 5) /\ R.current_status = Sent(vehicle, 4)
        /\ R.congestion_level = Sent(vehicle, 6)
        /\ R.occupancy_status = Sent(vehicle, 9) /\ R.occupancy_status \subseteq Int
        /\ R.occupancy_percentage = Sent(vehicle, 10)
        /\ R.position # {} <=> position # << >>
        /\ position # << >> => \E x, y : /\ R.position = {<<x, y>>}
                                        /\ Sent(position, 1) = {x}
                                        /\ Sent(position, 2) = {y}

\* What parse_and_queue reads of a decoded entity is what was sent for it.
LEMMA ReadsAsSent ==
    ASSUME NEW e, NEW entity, Saying5("FeedEntity", {e}, entity)
    PROVE  ReadAsSent(Reads(e), entity)
<1> DEFINE vehicle == Inner(entity, 4)
           position == Inner(vehicle, 2)
           descriptor == Inner(vehicle, 8)
           trip == Inner(vehicle, 1)
           v == At({e}, "vehicle")
           p == At(v, "position")
           d == At(v, "vehicle")
           t == At(v, "trip")
           R == Reads(e)
<1>1. /\ At({e}, "id") = Sent(entity, 1) /\ \A x \in Sent(entity, 1) : IsSequence(x)
      /\ Saying4("VehiclePosition", v, vehicle)
  BY FeedEntityReads
<1>2. /\ R.id = At({e}, "id") /\ R.label = At(d, "label") /\ R.vehicle_id = At(d, "id")
      /\ R.route_id = At(t, "route_id") /\ R.stop_id = At(v, "stop_id")
      /\ R.position = {<<q["latitude"], q["longitude"]>> : q \in p}
      /\ R.speed = At(p, "speed") /\ R.bearing = At(p, "bearing")
      /\ R.occupancy_status = At(v, "occupancy_status")
      /\ R.occupancy_percentage = At(v, "occupancy_percentage")
      /\ R.timestamp = At(v, "timestamp") /\ R.current_status = At(v, "current_status")
      /\ R.congestion_level = At(v, "congestion_level")
  BY DEF Reads
<1> HIDE DEF v, vehicle, R
<1>3. /\ Saying3("TripDescriptor", t, trip) /\ Saying3("Position", p, position)
      /\ Saying3("VehicleDescriptor", d, descriptor)
      /\ At(v, "current_status") = Sent(vehicle, 4) /\ At(v, "timestamp") = Sent(vehicle, 5)
      /\ At(v, "congestion_level") = Sent(vehicle, 6) /\ At(v, "stop_id") = Sent(vehicle, 7)
      /\ \A x \in Sent(vehicle, 7) : IsSequence(x)
      /\ At(v, "occupancy_status") = Sent(vehicle, 9) /\ Sent(vehicle, 9) \subseteq Int
      /\ At(v, "occupancy_percentage") = Sent(vehicle, 10)
  BY <1>1, VehiclePositionReads
<1> HIDE DEF p, d, t, position, descriptor, trip
<1>4. /\ At(d, "id") = Sent(descriptor, 1) /\ \A x \in Sent(descriptor, 1) : IsSequence(x)
      /\ At(d, "label") = Sent(descriptor, 2) /\ \A x \in Sent(descriptor, 2) : IsSequence(x)
      /\ At(t, "route_id") = Sent(trip, 5) /\ \A x \in Sent(trip, 5) : IsSequence(x)
  BY <1>3, VehicleDescriptorReads, TripDescriptorReads
<1>5. /\ At(p, "latitude") = Sent(position, 1) /\ (p # {} => Inner(position, 1) # << >>)
      /\ At(p, "longitude") = Sent(position, 2) /\ (p # {} => Inner(position, 2) # << >>)
      /\ At(p, "bearing") = Sent(position, 3) /\ At(p, "speed") = Sent(position, 5)
  BY <1>3, PositionReads
<1>6. (p = {} /\ position = << >>) \/ (position # << >> /\ \E m : p = {m})
  BY <1>3, Step3!EmptyParts DEF Saying3
<1>7. R.position # {} <=> position # << >>
  BY <1>2, <1>6
<1>8. ASSUME position # << >>
      PROVE  \E x, y : /\ R.position = {<<x, y>>}
                       /\ Sent(position, 1) = {x} /\ Sent(position, 2) = {y}
  <2>1. PICK m : p = {m}
    BY <1>6, <1>8
  <2>2. R.position = {<<m["latitude"], m["longitude"]>>}
    BY <1>2, <2>1
  <2>3. Sent(position, 1) # {} /\ Sent(position, 2) # {}
    BY <1>5, <2>1 DEF Sent
  <2>4. At(p, "latitude") = {m["latitude"]} /\ At(p, "longitude") = {m["longitude"]}
    BY <1>5, <2>1, <2>3 DEF At
  <2> QED BY <1>5, <2>2, <2>4
<1> QED BY <1>1, <1>2, <1>3, <1>4, <1>5, <1>7, <1>8
        DEF ReadAsSent, v, p, d, t, vehicle, position, descriptor, trip, R

\* A value that was sent is a value of its field.
LEMMA SentIsOne ==
    ASSUME NEW p, NEW number, NEW d
    PROVE  /\ SentOr(Sent(p, number), d) \in Sent(p, number) \cup {d}
           /\ Sent(p, number) # {} => Sent(p, number) = {SentOr(Sent(p, number), d)}
           /\ Sent(p, number) = {} => SentOr(Sent(p, number), d) = d
<1>1. Sent(p, number) = {} \/ \E x : Sent(p, number) = {x}
  BY DEF Sent
<1> QED BY <1>1 DEF SentOr

\* The texts, coordinates and readings of a record.
LEMMA RecordSaysAsSent ==
    ASSUME NEW e, NEW entity, Saying5("FeedEntity", {e}, entity),
           HasPosition(EntityView(e))
    PROVE  SaysAsSent(Flatten(EntityView(e)), entity)
<1> DEFINE vehicle == Inner(entity, 4)
           position == Inner(vehicle, 2)
           descriptor == Inner(vehicle, 8)
           trip == Inner(vehicle, 1)
           R == Reads(e)
           r == Flatten(EntityView(e))
           label == SentOr(R.label, SentOr(R.id, Unknown))
<1>1. /\ r.fleet_number = Copied(label, IdSize)
      /\ r.internal_id = Copied(SentOr(R.vehicle_id, Unknown), IdSize)
      /\ r.route_id = Copied(SentOr(R.route_id, Unknown), IdSize)
      /\ r.stop_id = Copied(SentOr(R.stop_id, Unknown), StopSize)
      /\ r.speed = SentOr(R.speed, 0) /\ r.bearing = SentOr(R.bearing, 0)
      /\ r.timestamp = SentOr(R.timestamp, 0)
      /\ r.current_status = SentOr(R.current_status, 2)
      /\ r.congestion_level = SentOr(R.congestion_level, 0)
      /\ R.position # {} /\ r.position = SentOr(R.position, 0)
  BY FlattenReads
<1>2. ReadAsSent(R, entity)
  BY ReadsAsSent
<1> HIDE DEF R, r
<1>3. PICK x, y : /\ R.position = {<<x, y>>}
                  /\ Sent(position, 1) = {x} /\ Sent(position, 2) = {y}
  BY <1>1, <1>2 DEF ReadAsSent
<1>4. r.position = <<x, y>>
  BY <1>1, <1>3 DEF SentOr
<1>5. /\ IsSequence(SentOr(R.vehicle_id, Unknown)) /\ IsSequence(SentOr(R.route_id, Unknown))
      /\ IsSequence(SentOr(R.stop_id, Unknown)) /\ IsSequence(label)
  <2>1. \A v \in R.id \cup R.label \cup R.vehicle_id \cup R.route_id \cup R.stop_id :
          IsSequence(v)
    BY <1>2 DEF ReadAsSent
  <2> QED BY <2>1, UnknownAssumption DEF SentOr
<1> HIDE DEF label
<1>6. /\ Fits(r.fleet_number, label, IdSize)
      /\ Fits(r.internal_id, SentOr(R.vehicle_id, Unknown), IdSize)
      /\ Fits(r.route_id, SentOr(R.route_id, Unknown), IdSize)
      /\ Fits(r.stop_id, SentOr(R.stop_id, Unknown), StopSize)
  BY <1>1, <1>5, CopiedFits, WidthsAssumption
<1>7. {r.current_status} = IF Sent(vehicle, 4) # {} THEN Sent(vehicle, 4)
                           ELSE FieldNamed("VehiclePosition", "current_status").default
  <2> DEFINE f == VehiclePosition.fields[4]
             g == FieldNamed("VehiclePosition", "current_status")
  <2>1. f.name = "current_status" /\ f.default = {2}
    BY DEF VehiclePosition, Optional, Field, Or, VehicleStopStatus
  <2>2. f \in Fields("VehiclePosition") /\ IsMessage("VehiclePosition")
    BY DEF Fields, ToSet, Descriptors, VehiclePosition, IsMessage
  <2> HIDE DEF f
  <2>3. g = f
    BY <2>1, <2>2, LookupFindsFields DEF FieldNamed
  <2>4. R.current_status = Sent(vehicle, 4)
    BY <1>2 DEF ReadAsSent
  <2> QED BY <1>1, <2>1, <2>3, <2>4, SentIsOne
<1>8. CongestionLevel.UNKNOWN_CONGESTION_LEVEL = 0
  BY DEF CongestionLevel
<1>9. /\ label = SentOr(Sent(descriptor, 2), SentOr(Sent(entity, 1), Unknown))
      /\ R.vehicle_id = Sent(descriptor, 1) /\ R.route_id = Sent(trip, 5)
      /\ R.stop_id = Sent(vehicle, 7)
      /\ R.bearing = Sent(position, 3) /\ R.speed = Sent(position, 5)
      /\ R.timestamp = Sent(vehicle, 5) /\ R.congestion_level = Sent(vehicle, 6)
  BY <1>2 DEF ReadAsSent, label
<1>10. Sent(position, 1) = {r.position[1]} /\ Sent(position, 2) = {r.position[2]}
  BY <1>3, <1>4
<1> HIDE DEF vehicle, position, descriptor, trip
<1> QED BY <1>1, <1>6, <1>7, <1>8, <1>9, <1>10
        DEF SaysAsSent, r, vehicle, position, descriptor, trip

\* The words of the schema's statuses differ, and no other number has any.
LEMMA OccupancyWords ==
    /\ {OccupancyStatus[n] : n \in DOMAIN OccupancyStatus} = 0 .. 8
    /\ \A s \in 0 .. 8 : get_occupancy_string(s) # "UNKNOWN"
    /\ \A s \in Int : s \notin 0 .. 8 => get_occupancy_string(s) = "UNKNOWN"
    /\ \A s, t \in 0 .. 8 : get_occupancy_string(s) = get_occupancy_string(t) => s = t
<1>1. {OccupancyStatus[n] : n \in DOMAIN OccupancyStatus} = 0 .. 8
  <2>1. \A n \in DOMAIN OccupancyStatus : OccupancyStatus[n] \in 0 .. 8
    BY DEF OccupancyStatus
  <2>2. \A s \in 0 .. 8 : \E n \in DOMAIN OccupancyStatus : OccupancyStatus[n] = s
    BY DEF OccupancyStatus
  <2> QED BY <2>1, <2>2
<1>2. /\ get_occupancy_string(0) = "EMPTY" /\ get_occupancy_string(1) = "MANY SEATS"
      /\ get_occupancy_string(2) = "FEW SEATS" /\ get_occupancy_string(3) = "STANDING ROOM ONLY"
      /\ get_occupancy_string(4) = "CRUSHED STANDING" /\ get_occupancy_string(5) = "FULL"
      /\ get_occupancy_string(6) = "NOT ACCEPTING PASSENGERS"
      /\ get_occupancy_string(7) = "NO DATA" /\ get_occupancy_string(8) = "NOT BOARDABLE"
  BY DEF get_occupancy_string
<1>3. \A s \in Int : s \notin 0 .. 8 => get_occupancy_string(s) = "UNKNOWN"
  BY DEF get_occupancy_string
<1>4. \A s \in 0 .. 8 : s = 0 \/ s = 1 \/ s = 2 \/ s = 3 \/ s = 4 \/ s = 5 \/ s = 6 \/ s = 7 \/ s = 8
  OBVIOUS
<1>5. \A s \in 0 .. 8 : get_occupancy_string(s) # "UNKNOWN"
  BY <1>2, <1>4
<1>6. \A s, t \in 0 .. 8 : get_occupancy_string(s) = get_occupancy_string(t) => s = t
  BY <1>2, <1>4
<1> QED BY <1>1, <1>3, <1>5, <1>6

\* Only the word itself, or no identifier at all, is stored as the word "UNKNOWN".
LEMMA CutToUnknown ==
    ASSUME NEW text, IsSequence(text)
    PROVE  Copied(text, IdSize) = Unknown <=> text = Unknown
<1> DEFINE S == {text[k] : k \in 1 .. Len(text)}
<1>0. text \in Seq(S) /\ Len(text) \in Nat /\ Len(Unknown) \in Nat
  BY UnknownAssumption, Items3, Step3!SequenceIsSeq
<1>1. /\ Len(Unknown) < IdSize
      /\ Len(Unknown) # IdSize - 1
  BY <1>0, UnknownAssumption, WidthsAssumption
<1>2. Fits(Copied(text, IdSize), text, IdSize)
  BY CopiedFits, WidthsAssumption
<1>3. Len(text) < IdSize => Copied(text, IdSize) = text
  <2> HIDE DEF S
  <2>1. SubSeq(text, 1, Len(text)) = text
    BY <1>0
  <2> QED BY <2>1 DEF Copied
<1>4. Len(text) >= IdSize => Len(Copied(text, IdSize)) = IdSize - 1
  BY <1>0, <1>2, WidthsAssumption DEF Fits
<1> QED BY <1>0, <1>1, <1>3, <1>4, WidthsAssumption

\* main passes over exactly the records of vehicles that were not named.
LEMMA RecordNamedAsSent ==
    ASSUME NEW e, NEW entity, Saying5("FeedEntity", {e}, entity)
    PROVE  ~Anonymous(Flatten(EntityView(e))) <=> Named(entity)
<1> DEFINE sent == Sent(Inner(Inner(entity, 4), 8), 1)
           name == SentOr(sent, Unknown)
<1>1. Reads(e).vehicle_id = sent /\ \A v \in sent : IsSequence(v)
  <2>1. ReadAsSent(Reads(e), entity)
    BY ReadsAsSent
  <2> QED BY <2>1 DEF ReadAsSent
<1>2. Flatten(EntityView(e)).internal_id = Copied(name, IdSize)
  BY <1>1, FlattenReads
<1>3. /\ sent # {} => sent = {name}
      /\ sent = {} => name = Unknown
      /\ IsSequence(name)
  BY <1>1, SentIsOne, UnknownAssumption
<1> HIDE DEF name
<1>4. Copied(name, IdSize) = Unknown <=> name = Unknown
  BY <1>3, CutToUnknown
<1> QED BY <1>2, <1>3, <1>4 DEF Anonymous, Named

\* Its occupancy, as main reports it.
LEMMA RecordReportsAsSent ==
    ASSUME NEW e, NEW entity, Saying5("FeedEntity", {e}, entity)
    PROVE  ReportsAsSent(Flatten(EntityView(e)), entity)
<1> DEFINE R == Reads(e)
           r == Flatten(EntityView(e))
           sent == Sent(Inner(entity, 4), 9)
           percentage == Sent(Inner(entity, 4), 10)
           s == r.occupancy_status
<1>1. /\ s = SentOr(R.occupancy_status, 7)
      /\ r.occupancy_percentage = ToInt(SentOr(R.occupancy_percentage, UIntModulus - 1))
  BY FlattenReads
<1>2. ReadAsSent(R, entity)
  BY ReadsAsSent
<1> HIDE DEF R, r
<1>3. /\ R.occupancy_status = sent /\ sent \subseteq Int
      /\ R.occupancy_percentage = percentage
  BY <1>2 DEF ReadAsSent
<1>4. /\ sent # {} => sent = {s}
      /\ sent = {} => s = 7
      /\ s \in Int
  BY <1>1, <1>3, SentIsOne
<1>5. HasPassengers(r) <=>
        /\ Named(entity)
        /\ \E n \in {"FEW_SEATS_AVAILABLE", "STANDING_ROOM_ONLY",
                     "CRUSHED_STANDING_ROOM_ONLY", "FULL"} : sent = {OccupancyStatus[n]}
  <2>1. HasPassengers(r) <=> ~Anonymous(r) /\ s \in 2 .. 5
    BY <1>4 DEF HasPassengers
  <2>2. /\ OccupancyStatus["FEW_SEATS_AVAILABLE"] = 2
        /\ OccupancyStatus["STANDING_ROOM_ONLY"] = 3
        /\ OccupancyStatus["CRUSHED_STANDING_ROOM_ONLY"] = 4
        /\ OccupancyStatus["FULL"] = 5
    BY DEF OccupancyStatus
  <2>3. s \in 2 .. 5 <=> s = 2 \/ s = 3 \/ s = 4 \/ s = 5
    BY <1>4
  <2>4. ~Anonymous(r) <=> Named(entity)
    BY RecordNamedAsSent DEF r
  <2> HIDE DEF s, sent
  <2> QED BY <1>4, <2>1, <2>2, <2>3, <2>4
<1>6. OccupancyStatus.NO_DATA_AVAILABLE = 7
  BY DEF OccupancyStatus
<1>7. percentage = {} => r.occupancy_percentage = -1
  <2>1. SUFFICES ASSUME percentage = {}
                 PROVE  ToInt(UIntModulus - 1) = -1
    BY <1>1, <1>3, SentIsOne
  <2>2. UIntModulus \in Nat /\ UIntModulus > 0
    BY WidthsAssumption
  <2>3. ~(UIntModulus - 1 < UIntModulus \div 2)
    BY <2>2
  <2> QED BY <2>2, <2>3 DEF ToInt
<1>8. \A p \in percentage : p < UIntModulus \div 2 => r.occupancy_percentage = p
  <2>1. SUFFICES ASSUME NEW p \in percentage, p < UIntModulus \div 2
                 PROVE  ToInt(p) = p
    BY <1>1, <1>3, SentIsOne
  <2> QED BY <2>1 DEF ToInt
<1> HIDE DEF sent, percentage, s
<1>9. /\ s \notin 0 .. 8 <=> get_occupancy_string(s) = "UNKNOWN"
      /\ \A t \in 0 .. 8 \ {s} : get_occupancy_string(t) # get_occupancy_string(s)
  BY <1>4, OccupancyWords
<1> QED BY <1>4, <1>5, <1>6, <1>7, <1>8, <1>9, OccupancyWords
        DEF ReportsAsSent, r, s, sent, percentage

\* The entities of a decoded feed are those that were sent, in their order.
LEMMA EntitiesPaired ==
    ASSUME WireIsFeed, WellFormed("FeedMessage", wire), Denotes("FeedMessage", msg, <<wire>>)
    PROVE  LET all == Values(wire, 2)
               n == Len(all)
           IN  /\ n \in Nat /\ DOMAIN all = 1 .. n
               /\ Len(Entities(msg)) = n /\ DOMAIN Entities(msg) = 1 .. n
               /\ \A k \in 1 .. n : \E e : /\ Saying5("FeedEntity", {e}, <<all[k]>>)
                                           /\ Entities(msg)[k] = EntityView(e)
<1> DEFINE all == Values(wire, 2)
           f == FeedMessage.fields[2]
           parts == <<wire>>
<1>1. Step6!Valid("FeedMessage", wire) /\ Step6!Denotes("FeedMessage", msg, parts)
  BY FeedsAssumption, SameLevel6 DEF WireIsFeed, WellFormed, Denotes, Step6!Valid
<1>2. Step6!IsSequence(wire)
  BY <1>1 DEF Step6!Valid, Step6!IsWire
<1>3. Step6!ArePartsOf("FeedMessage", parts)
  <2>1. Len(parts) = 1 /\ parts[1] = wire /\ Step6!IsSequence(parts)
    BY DEF Step6!IsSequence
  <2> QED BY <1>1, <2>1 DEF Step6!ArePartsOf
<1>4. Step6!Values(Step6!Concatenated(parts), 2) = all
  BY <1>2, Step6!OnePart, Items6
<1>5. /\ f.id = 2 /\ f.name = "entity" /\ f.type = "FeedEntity" /\ f.label = "REPEATED"
      /\ f \in Fields("FeedMessage")
  BY DEF FeedMessage, Repeated, Field, Fields, ToSet, Descriptors
<1>6. IsMessage("FeedMessage") /\ IsMessage("FeedEntity")
  BY DEF IsMessage, Descriptors
<1>7. Step6!SchemaLaws
  BY LookupFindsFields DEF Step6!SchemaLaws, Step6!FieldNumbered
<1> HIDE DEF f
<1> DEFINE final == Step6!Values(Step6!Last(parts), f.id)
<1>8. /\ "entity" \in DOMAIN msg <=> all # << >>
      /\ all # << >> => /\ Step6!Means(f, msg["entity"], all, final)
                        /\ Step6!ArePartsInside("FeedEntity", all)
  BY <1>1, <1>3, <1>4, <1>5, <1>6, <1>7, Step6!FieldRead
<1> HIDE DEF final, parts
<1>9. Step6!IsSequence(all)
  <2>1. Step6!IsSequence(<< >>)
    BY DEF Step6!IsSequence
  <2> HIDE DEF all
  <2> QED BY <1>8, <2>1 DEF Step6!ArePartsInside
<1> HIDE DEF all
<1> DEFINE n == Len(all)
<1>10. n \in Nat /\ DOMAIN all = 1 .. n
  BY <1>9, Step6!SequenceIsSeq
<1>11. CASE all = << >>
  BY <1>8, <1>10, <1>11 DEF Entities, all
<1>12. CASE all # << >>
  <2> DEFINE E == msg["entity"]
  <2>1. /\ Len(E) = n
        /\ \A k \in 1 .. n : Level5!Denotes("FeedEntity", E[k], <<all[k]>>)
    BY <1>5, <1>6, <1>8, <1>12 DEF Step6!Means
  <2>2. Step5!ArePartsOf("FeedEntity", all)
    BY <1>8, <1>12, PartsInside6
  <2> HIDE DEF n
  <2>3. Entities(msg) = [k \in 1 .. n |-> EntityView(E[k])]
    BY <1>8, <1>12, <2>1 DEF Entities
  <2>4. ASSUME NEW k \in 1 .. n PROVE Saying5("FeedEntity", {E[k]}, <<all[k]>>)
    <3> DEFINE x == all[k]
    <3>1. Step5!Valid("FeedEntity", x)
      BY <2>2 DEF Step5!ArePartsOf, n
    <3>2. Len(<<x>>) = 1 /\ <<x>>[1] = x /\ Step5!IsSequence(<<x>>)
      BY DEF Step5!IsSequence
    <3>3. Step5!Denotes("FeedEntity", E[k], <<x>>)
      BY <2>1, SameLevel5
    <3> HIDE DEF x, E
    <3>4. Step5!ArePartsOf("FeedEntity", <<x>>)
      BY <3>1, <3>2 DEF Step5!ArePartsOf
    <3> QED BY <3>3, <3>4 DEF Saying5, x
  <2> HIDE DEF E
  <2>5. Len(Entities(msg)) = n /\ DOMAIN Entities(msg) = 1 .. n
    BY <1>10, <2>3
  <2>6. \A k \in 1 .. n : Entities(msg)[k] = EntityView(E[k])
    BY <2>3
  <2> QED BY <1>10, <2>4, <2>5, <2>6 DEF n, all
<1> QED BY <1>11, <1>12

\* parse_and_queue makes a record of exactly the entities that have a position.
LEMMA RecordsPaired ==
    ASSUME WireIsFeed, WellFormed("FeedMessage", wire), Denotes("FeedMessage", msg, <<wire>>)
    PROVE  /\ Len(Records(msg)) = Len(Vehicles)
           /\ \A j \in DOMAIN Records(msg) :
                \E e : /\ Saying5("FeedEntity", {e}, <<Vehicles[j]>>)
                       /\ HasPosition(EntityView(e))
                       /\ Records(msg)[j] = Flatten(EntityView(e))
<1> DEFINE all == Values(wire, 2)
           n == Len(all)
           views == Entities(msg)
           K == {k \in DOMAIN views : HasPosition(views[k])}
           H == {k \in DOMAIN all : Inner(Inner(<<all[k]>>, 4), 2) # << >>}
           order == Ascending(K, n)
<1>1. /\ n \in Nat /\ DOMAIN all = 1 .. n
      /\ Len(views) = n /\ DOMAIN views = 1 .. n
      /\ \A k \in 1 .. n : \E e : /\ Saying5("FeedEntity", {e}, <<all[k]>>)
                                  /\ views[k] = EntityView(e)
  BY EntitiesPaired
<1>2. ASSUME NEW e, NEW entity, Saying5("FeedEntity", {e}, entity)
      PROVE  HasPosition(EntityView(e)) <=> Inner(Inner(entity, 4), 2) # << >>
  BY <1>2, ReadsAsSent, FlattenReads DEF ReadAsSent
<1>3. /\ Records(msg) = [k \in DOMAIN Chosen(views, K) |-> Flatten(Chosen(views, K)[k])]
      /\ Vehicles = Chosen(all, H)
  BY DEF Records, Vehicles
<1> HIDE DEF views, all
<1>4. \A k \in 1 .. n : HasPosition(views[k]) <=> Inner(Inner(<<all[k]>>, 4), 2) # << >>
  BY <1>1, <1>2
<1>5. K = H /\ K \subseteq 1 .. n
  BY <1>1, <1>4
<1>6. /\ Chosen(views, K) = [j \in 1 .. Len(order) |-> views[order[j]]]
      /\ Chosen(all, H) = [j \in 1 .. Len(order) |-> all[order[j]]]
  BY <1>1, <1>5 DEF Chosen
<1>7. order \in Seq({k \in 1 .. n : k \in K})
  <2>1. Step3!Ascending(K, n) = Ascending(K, n)
    BY Zenon DEF Step3!Ascending, Ascending
  <2> QED BY <1>1, <2>1, Step3!AscendingMembers
<1> HIDE DEF order, K, H, n
<1> DEFINE c == Len(order)
<1>8. c \in Nat /\ \A j \in 1 .. c : order[j] \in 1 .. n /\ order[j] \in K
  BY <1>7
<1> HIDE DEF c
<1>9. /\ Records(msg) = [j \in 1 .. c |-> Flatten(views[order[j]])]
      /\ Vehicles = [j \in 1 .. c |-> all[order[j]]]
  BY <1>3, <1>6 DEF c
<1>10. Len(Records(msg)) = c /\ Len(Vehicles) = c /\ DOMAIN Records(msg) = 1 .. c
  BY <1>8, <1>9
<1>11. ASSUME NEW j \in 1 .. c
       PROVE  \E e : /\ Saying5("FeedEntity", {e}, <<Vehicles[j]>>)
                     /\ HasPosition(EntityView(e))
                     /\ Records(msg)[j] = Flatten(EntityView(e))
  <2>1. PICK k \in 1 .. n : k = order[j] /\ k \in K
    BY <1>8
  <2>2. PICK e : Saying5("FeedEntity", {e}, <<all[k]>>) /\ views[k] = EntityView(e)
    BY <1>1
  <2>3. HasPosition(views[k])
    BY <2>1 DEF K
  <2>4. Vehicles[j] = all[k] /\ Records(msg)[j] = Flatten(views[k])
    BY <1>9, <2>1
  <2> QED BY <2>2, <2>3, <2>4
<1> QED BY <1>10, <1>11

\* The records that parse_and_queue makes of a feed, whatever the feed is, are
\* those of the vehicles with a position that were sent, and say of each what was
\* sent last for it, or the default.
THEOREM RecordsTell == Spec => []RecordsTruthful
<1>1. ASSUME Decoded PROVE RecordsTruthful
  <2>1. SUFFICES ASSUME status = "unpacked"
                 PROVE  /\ Len(Records(msg)) = Len(Vehicles)
                        /\ \A k \in DOMAIN Records(msg) :
                             SaysAsSent(Records(msg)[k], <<Vehicles[k]>>)
    BY DEF RecordsTruthful
  <2>2. /\ WireIsFeed /\ WellFormed("FeedMessage", wire)
        /\ Denotes("FeedMessage", msg, <<wire>>)
    BY <1>1, <2>1 DEF Decoded, Faithful
  <2> QED BY <2>2, RecordsPaired, RecordSaysAsSent
<1> QED BY <1>1, DecodedInductive, PTL

\* For every feed main reports the passengers that were sent for each vehicle,
\* has words of its own for each status of the schema, shows an absent one as no
\* data, and shows the percentage that was sent if an int holds it.
THEOREM OccupancyTell == Spec => []OccupancyTruthful
<1>1. ASSUME Decoded PROVE OccupancyTruthful
  <2>1. SUFFICES ASSUME status = "unpacked"
                 PROVE  \A k \in DOMAIN Records(msg) :
                          ReportsAsSent(Records(msg)[k], <<Vehicles[k]>>)
    BY DEF OccupancyTruthful
  <2>2. /\ WireIsFeed /\ WellFormed("FeedMessage", wire)
        /\ Denotes("FeedMessage", msg, <<wire>>)
    BY <1>1, <2>1 DEF Decoded, Faithful
  <2> QED BY <2>2, RecordsPaired, RecordReportsAsSent
<1> QED BY <1>1, DecodedInductive, PTL

==============================================================================
