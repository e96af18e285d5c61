---------------------------- MODULE MCStaticGtfs ----------------------------
EXTENDS StaticGtfs

Quoted(text) == [open |-> TRUE, text |-> text, close |-> TRUE]
Opening(text) == [open |-> TRUE, text |-> text, close |-> FALSE]
Closing(text) == [open |-> FALSE, text |-> text, close |-> TRUE]

Header == <<Plain("id")>>

\* Regular lines with and without quotes, one that gives an identifier a second
\* name, and short ones; then lines with a comma inside a value.
StopLines ==
    {<<Plain("1"), Plain("c"), Plain("King")>>,
     <<Quoted("1"), Plain("c"), Quoted("Queen")>>,
     <<Plain("2"), Empty, Plain("Bay"), Plain("x")>>,
     <<Plain("2")>>, <<Empty>>}
ShortRouteLines ==
    {<<Plain("60"), Plain("a"), Plain("60"), Plain("Steeles")>>,
     <<Plain("7"), Plain("a"), Plain("7"), Quoted("Bathurst"), Plain("x")>>,
     <<Plain("7"), Plain("a"), Plain("7")>>, <<Empty>>}
QuotedCommaLines ==
    {<<Plain("60"), Plain("a"), Plain("60"), Plain("Steeles")>>,
     <<Plain("7"), Plain("a"), Opening("7A"), Closing("7B"), Quoted("Bathurst")>>,
     <<Plain("60"), Plain("a"), Plain("60"), Opening("Steeles"), Closing("West")>>,
     <<Opening("5"), Closing("6"), Plain("a"), Plain("5"), Plain("Avenue")>>}

FilesOf(L, max) ==
    {<<Header>> \o s : s \in UNION {[1 .. k -> L] : k \in 0 .. max}} \cup {<< >>}

MCStopFiles == FilesOf(StopLines, 2)
MCRouteFiles == FilesOf(ShortRouteLines \cup QuotedCommaLines, 3)

\* Files without a fault: every line has all its columns.
WholeRouteFiles == FilesOf(QuotedCommaLines, 2)
=============================================================================
