------------------------------ MODULE MCEngine ------------------------------
EXTENDS Engine

\* Vehicles in a cell, in it again later, in a cell that shares its bucket, in
\* another bucket, without an identifier, and at coordinates that H3 rejects.
Bus(id, place, v, t) ==
    [position |-> place, id |-> <<"e">>, vehicle_id |-> id, speed |-> v, timestamp |-> t]
A1 == Bus(<<"a">>, "here", 3, 1)
A2 == Bus(<<"a">>, "here", 4, 6)
Aliased == Bus(<<"b">>, "aliased", 5, 2)
Elsewhere == Bus(<<"c">>, "elsewhere", 6, 2)
Nameless == [position |-> "here", id |-> <<"e">>, speed |-> 7, timestamp |-> 3]
OffTheMap == Bus(<<"d">>, "nowhere", 8, 3)
NoVehicle == [id |-> <<"e">>]

MCUnknown == <<"U">>
MCCellOf == [here |-> 1, aliased |-> 3, elsewhere |-> 2, nowhere |-> 0]

MCReplies ==
    {[chunks |-> 1, feed |-> Garbage],
     [chunks |-> 1, feed |-> <<A1, Nameless, A2>>],
     [chunks |-> 1, feed |-> <<OffTheMap, NoVehicle, Aliased>>],
     [chunks |-> 1, feed |-> <<Elsewhere, A2>>]}
=============================================================================
