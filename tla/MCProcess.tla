------------------------------ MODULE MCProcess ------------------------------
EXTENDS Process

\* A vehicle on the map, one whose place shares its bucket, one without an
\* identifier, and an entity without a position.
Bus(id, place, v, t) ==
    [position |-> place, id |-> <<"e">>, vehicle_id |-> id, speed |-> v, timestamp |-> t]
A1 == Bus(<<"a">>, "here", 3, 1)
B2 == Bus(<<"b">>, "aliased", 5, 2)
Nameless == [position |-> "here", id |-> <<"e">>, speed |-> 7, timestamp |-> 3]
NoVehicle == [id |-> <<"e">>]

MCUnknown == <<"U">>
MCCellOf == [here |-> 1, aliased |-> 3]

MCReplies ==
    {[chunks |-> 1, feed |-> Garbage],
     [chunks |-> 1, feed |-> <<A1, NoVehicle, B2, Nameless>>]}
MCItems == {Own!Flatten(e) : e \in {A1, B2, Nameless}}
=============================================================================
