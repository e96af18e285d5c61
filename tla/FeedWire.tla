------------------------------ MODULE FeedWire ------------------------------
(***************************************************************************)
(* The items of a message on the wire and the fields they belong to.       *)
(*                                                                         *)
(* On the wire a message is a sequence of items, each a field number, a    *)
(* wire type (0 varint, 1 of 64 bits, 2 with a length, 5 of 32 bits) and a *)
(* value; the value of a submessage is again such a sequence.  The         *)
(* protobuf-c runtime is not part of the repository: it is modelled from   *)
(* what its callers rely on.                                               *)
(***************************************************************************)
EXTENDS GtfsSchema, WireItems, SequencesExt

IsMessage(type) == type \in DOMAIN Descriptors
IsEnum(type) == type \in DOMAIN Enums

Fields(type) == ToSet(Descriptors[type].fields)

WireType(type) ==
    CASE type = "DOUBLE" -> 1
      [] type = "FLOAT" -> 5
      [] type = "STRING" \/ IsMessage(type) -> 2
      [] OTHER -> 0

\* The runtime reads a BOOL whatever the item's wire type.
Accepts(f, item) == f.type = "BOOL" \/ item.wt = WireType(f.type)

\* The search of a field number among a descriptor's ranges: the positions in
\* the table of fields that it yields, one or none.
int_range_lookup(ranges, number) ==
    {ranges[k][2] + number - ranges[k][1] :
        k \in {r \in 1 .. Len(ranges) - 1 :
                 number - ranges[r][1] \in 0 .. ranges[r + 1][2] - ranges[r][2] - 1}}

\* The fields an item belongs to: one, or none for an unknown number.
FieldsOf(type, item) ==
    {Descriptors[type].fields[p + 1] :
        p \in int_range_lookup(Descriptors[type].ranges, item.number)}

=============================================================================
