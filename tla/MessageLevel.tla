---------------------------- MODULE MessageLevel ----------------------------
(***************************************************************************)
(* Unpacking a message, given how the messages inside it are unpacked.     *)
(* The message types of GTFS-Realtime do not contain themselves, so what   *)
(* protobuf_c_message_unpack and merge_messages do by recursion is the     *)
(* composition of as many levels as messages can be nested.  A decoded     *)
(* message is a function from the names of the fields that were found to   *)
(* their values.                                                           *)
(***************************************************************************)
EXTENDS WireItems, SequencesExt

CONSTANTS   \* The schema, as in FeedWire:
    IsMessage(_),                \* whether a type is a message
    IsEnum(_),                   \* whether it is an enumeration
    Fields(_),                   \* the fields of a message
    FieldsOf(_, _),              \* the field of a message that an item belongs to
    Accepts(_, _)                \* whether the item can be a value of a field

CONSTANTS   \* Of a message inside this one:
    UnpackedInside(_, _),        \* the results of unpacking items of a type
    MergedInside(_, _, _),       \* the merge of two messages of a type
    IsWireInside(_, _),          \* some items of a type may be on the wire,
    WellFormedInside(_, _),      \* they are a message of the type,
    DenotesInside(_, _, _)       \* a message is what its parts stand for

NoMessage == << >>

\* A submessage that occurs again is merged with what came before.
merge_messages(type, earlier, latter) ==
    LET field(n) == CHOOSE f \in Fields(type) : f.name = n
    IN  [n \in DOMAIN earlier \cup DOMAIN latter |->
           IF n \notin DOMAIN latter THEN earlier[n]
           ELSE IF n \notin DOMAIN earlier THEN latter[n]
           ELSE IF field(n).label = "REPEATED" THEN earlier[n] \o latter[n]
           ELSE IF field(n).label = "OPTIONAL" /\ IsMessage(field(n).type)
                THEN MergedInside(field(n).type, earlier[n], latter[n])
           ELSE latter[n]]

\* parse_member: the message with the value of one more item of field f.
Stored(m, f, value) ==
    LET earlier == f.name \in DOMAIN m
        new == IF f.label = "REPEATED"
               THEN (IF earlier THEN m[f.name] ELSE << >>) \o <<value>>
               ELSE IF earlier /\ IsMessage(f.type)
               THEN MergedInside(f.type, m[f.name], value)
               ELSE value
    IN  [n \in DOMAIN m \cup {f.name} |-> IF n = f.name THEN new ELSE m[n]]

TheField(type, item) == CHOOSE f \in FieldsOf(type, item) : TRUE

\* The value of an item of a known field, or none if it cannot be one.
Parsed(type, item) ==
    LET f == TheField(type, item)
    IN  IF ~Accepts(f, item) THEN {}
        ELSE IF IsMessage(f.type) THEN UnpackedInside(f.type, item.value)
        ELSE {item.value}

\* The results of unpacking: {the message}, or {} for NULL.  The items are
\* scanned and the required fields ticked off before any value is parsed.
Unpacked(type, items) ==
    LET known == {k \in DOMAIN items : FieldsOf(type, items[k]) # {}}
        found == UNION {FieldsOf(type, items[k]) : k \in known}
        message[k \in 0 .. Len(items)] ==
          IF k = 0 THEN NoMessage
          ELSE IF k \in known
               THEN Stored(message[k - 1], TheField(type, items[k]),
                           CHOOSE v \in Parsed(type, items[k]) : TRUE)
          ELSE message[k - 1]
    IN  IF \/ \E k \in DOMAIN items : items[k].wt \notin {0, 1, 2, 5}
           \/ \E f \in Fields(type) \ found : f.label = "REQUIRED"
           \/ \E k \in known : Parsed(type, items[k]) = {}
        THEN {}
        ELSE {message[Len(items)]}

-----------------------------------------------------------------------------
(* The reference. *)

FieldNumbered(type, number) == {f \in Fields(type) : f.id = number}

\* Items with numbers; where the type has a submessage its value is such items
\* again, a text is a sequence and a name of an enumeration a number.
IsWire(type, items) ==
    /\ IsSequence(items)
    /\ \A k \in DOMAIN items :
         /\ items[k].number \in Nat
         /\ \A f \in FieldNumbered(type, items[k].number) :
              Accepts(f, items[k]) =>
                /\ IsMessage(f.type) => IsWireInside(f.type, items[k].value)
                /\ f.type = "STRING" => IsSequence(items[k].value)
                /\ IsEnum(f.type) => items[k].value \in Int

\* Every item is of the type its field has, every required field is there, and
\* so on inside every known submessage.
WellFormed(type, items) ==
    /\ \A k \in DOMAIN items :
         /\ items[k].wt \in {0, 1, 2, 5}
         /\ \A f \in FieldNumbered(type, items[k].number) :
              /\ Accepts(f, items[k])
              /\ IsMessage(f.type) => WellFormedInside(f.type, items[k].value)
    /\ \A f \in Fields(type) :
         f.label = "REQUIRED" => \E k \in DOMAIN items : items[k].number = f.id

\* The value of a field of which all values, the last part's among them, were
\* sent: of a repeated field all, of another one the last.  A submessage that
\* came several times is again a message in parts, but of one that its type
\* requires only the parts in the last part of the message count.
Means(f, value, all, final) ==
    IF ~IsMessage(f.type)
    THEN value = IF f.label = "REPEATED" THEN all ELSE Last(all)
    ELSE IF f.label = "REPEATED"
    THEN /\ IsSequence(value) /\ Len(value) = Len(all)
         /\ \A k \in 1 .. Len(all) : DenotesInside(f.type, value[k], <<all[k]>>)
    ELSE DenotesInside(f.type, value, IF f.label = "REQUIRED" THEN final ELSE all)

\* A message says what the items of its parts say.
Denotes(type, m, parts) ==
    LET all(f) == Values(Concatenated(parts), f.id)
        sent == {f \in Fields(type) : all(f) # << >>}
    IN  /\ DOMAIN m = {f.name : f \in sent}
        /\ \A f \in sent : Means(f, m[f.name], all(f), Values(Last(parts), f.id))

=============================================================================
