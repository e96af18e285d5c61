---------------------------- MODULE MCIngestion ----------------------------
EXTENDS Ingestion

\* A vehicle with every field and an identifier longer than its field, one
\* that lacks every optional field, and an entity that is no vehicle.
Full == [position |-> 1, id |-> <<"x">>, label |-> <<"l">>, vehicle_id |-> <<"v", "w", "y">>,
         route_id |-> <<"r">>, stop_id |-> <<"s", "t">>, speed |-> 3, occupancy_status |-> 2,
         occupancy_percentage |-> 50, bearing |-> 9, timestamp |-> 4, current_status |-> 1,
         congestion_level |-> 1]
Bare == [position |-> 2, id |-> <<"y">>]
Alert == [id |-> <<"z">>]

MCUnknown == <<"U">>

MCReplies ==
    {[chunks |-> 0, feed |-> Garbage],
     [chunks |-> 1, feed |-> Garbage],
     [chunks |-> 1, feed |-> << >>],
     [chunks |-> 2, feed |-> <<Full, Alert, Bare>>],
     [chunks |-> 1, feed |-> <<Bare, Full>>]}
=============================================================================
