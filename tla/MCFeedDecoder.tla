--------------------------- MODULE MCFeedDecoder ---------------------------
EXTENDS FeedDecoder

MCUnknown == <<"U">>

Item(f, value) == [number |-> f.id, wt |-> WireType(f.type), value |-> value]

\* The items of the required fields of a message; a vehicle also has a position.
RECURSIVE Base(_)
Base(type) ==
    LET needed == SelectSeq(Descriptors[type].fields,
                    LAMBDA f : f.label = "REQUIRED" \/ f.type = "Position")
    IN  [k \in 1 .. Len(needed) |->
           Item(needed[k], CASE IsMessage(needed[k].type) -> Base(needed[k].type)
                             [] needed[k].type = "STRING" -> <<"r">>
                             [] OTHER -> 40 + k)]

\* Two values of a field, the second one longer than a destination if a text.
FirstValue(f) == CASE IsMessage(f.type) -> Base(f.type)
                   [] f.type = "STRING" -> <<"a">>
                   [] OTHER -> 3
SecondValue(f) == CASE IsMessage(f.type) -> Base(f.type)
                    [] f.type = "STRING" -> <<"b", "c", "d", "e">>
                    [] OTHER -> 6

Without(items, f) == SelectSeq(items, LAMBDA item : item.number # f.id)

\* Every field set once.
Complete(type) ==
    LET fields == Descriptors[type].fields
    IN  [k \in 1 .. Len(fields) |-> Item(fields[k], FirstValue(fields[k]))]

\* One item list for each field of a message.
ForEach(type, op(_)) ==
    LET fields == Descriptors[type].fields
    IN  [k \in 1 .. Len(fields) |-> op(fields[k])]

\* Items of one message, good and bad: a field more, twice, before the others,
\* with a wire type that is not its own or none at all; one field less; unknown
\* numbers, in the gaps of the tables and beside them; everything, and backwards.
Variants(type) ==
    <<Base(type), Complete(type), Reverse(Complete(type))>>
      \o ForEach(type, LAMBDA f : Append(Base(type), Item(f, FirstValue(f))))
      \o ForEach(type, LAMBDA f : <<Item(f, SecondValue(f))>> \o Base(type)
                                     \o <<Item(f, FirstValue(f))>>)
      \o ForEach(type, LAMBDA f : Append(Base(type), [Item(f, FirstValue(f)) EXCEPT !.wt = 0]))
      \o ForEach(type, LAMBDA f : Append(Base(type), [Item(f, FirstValue(f)) EXCEPT !.wt = 3]))
      \o ForEach(type, LAMBDA f : Without(Base(type), f))
      \o [k \in 1 .. 20 |-> IF \E f \in Fields(type) : f.id = k THEN Base(type)
                            ELSE Append(Base(type), [number |-> k, wt |-> 0, value |-> 3])]

\* The ways into a message: from the feed through the fields of its ancestors.
RECURSIVE WaysTo(_)
WaysTo(type) ==
    IF type = "FeedMessage" THEN {<< >>}
    ELSE UNION {{Append(way, <<parent, f>>) : way \in WaysTo(parent),
                                              f \in {g \in Fields(parent) : g.type = type}} :
                  parent \in {p \in DOMAIN Descriptors : \E f \in Fields(p) : f.type = type}}

\* The feed with the given items at the end of a way, followed by a vehicle.
Embedded(way, items) ==
    FoldRight(LAMBDA step, inner : Append(Without(Base(step[1]), step[2]), Item(step[2], inner)),
              way, items)
      \o <<Item(FieldNamed("FeedMessage", "entity"),
                Append(Base("FeedEntity"), Item(FieldNamed("FeedEntity", "vehicle"),
                                                Complete("VehiclePosition"))))>>

\* Vehicles with each occupancy, named by the schema or not, with a full bus
\* under each kind of identifier or none, with percentages that an int can and
\* cannot hold, and with parts that arrive in two pieces.
Of(type, name, value) == Item(FieldNamed(type, name), value)
VehicleWith(items) == Base("VehiclePosition") \o items
Descriptor(name, text) == Of("VehiclePosition", "vehicle", <<Of("VehicleDescriptor", name, text)>>)
Occupied(number) == Of("VehiclePosition", "occupancy_status", number)

Vehicle ==
    [k \in 1 .. 10 |-> VehicleWith(<<Descriptor("id", <<"v">>), Occupied(k - 1)>>)]
      \o [k \in 1 .. 5 |-> VehicleWith(<<Descriptor("id", << <<"U">>, <<"U", "x">>,
                                       <<"U", "x", "y">>, << >>, <<"v", "U">> >>[k]),
                                       Occupied(5)>>)]
      \o <<VehicleWith(<<Occupied(5)>>),
           VehicleWith(<<Descriptor("label", <<"v">>), Occupied(5)>>),
           VehicleWith(<<Descriptor("id", <<"v">>), Occupied(5), Descriptor("id", <<"U">>)>>)>>
      \o [k \in 1 .. 5 |-> VehicleWith(<<Of("VehiclePosition", "occupancy_percentage",
                                            <<0, 100, 127, 128, 255>>[k])>>)]
      \o ForEach("Position", LAMBDA f :
           VehicleWith(<<Of("VehiclePosition", "position", Append(Base("Position"), Item(f, 9)))>>))
      \o <<VehicleWith(<<Descriptor("id", <<"v">>), Descriptor("label", <<"l", "m", "n">>)>>)>>

\* A trip update in two parts, each with a part of the trip that it requires,
\* after a part of its own with two.
TripPart(name) == Of("TripUpdate", "trip", <<Of("TripDescriptor", name, <<"t">>)>>)
SplitTrip ==
    <<Base("FeedEntity")
        \o <<Of("FeedEntity", "trip_update", <<TripPart("trip_id"), TripPart("start_time")>>),
             Of("FeedEntity", "trip_update", <<TripPart("route_id"), TripPart("start_date")>>)>>>>

Lists(type) ==
    Variants(type) \o CASE type = "VehiclePosition" -> Vehicle
                        [] type = "FeedEntity" -> SplitTrip
                        [] OTHER -> << >>

MCFeeds ==
    [c \in UNION {{type} \X (1 .. Len(Lists(type))) \X WaysTo(type) : type \in DOMAIN Descriptors}
       |-> Embedded(c[3], Lists(c[1])[c[2]])]
=============================================================================
