----------------------------- MODULE StaticGtfs -----------------------------
(***************************************************************************)
(* load_static_gtfs of src/main.cpp: it reads stops.txt and then           *)
(* routes.txt line by line into the maps from which main takes the names   *)
(* it reports.  The strings id and name live across lines and files, and   *)
(* std::getline leaves its string alone once the line is used up.          *)
(*                                                                         *)
(* A line is the sequence of its pieces between commas; an empty line has  *)
(* one empty piece.  A piece is a text with or without a double quote      *)
(* before and after it, so a quoted comma separates two pieces of which    *)
(* one has the opening and the other the closing quote.                    *)
(***************************************************************************)
EXTENDS Integers, Sequences, FiniteSets

CONSTANTS
    StopFiles,   \* contents of stops.txt: sequences of lines
    RouteFiles,  \* contents of routes.txt
    Missing      \* the file is not there

\* A piece has two marks and a text; no line is without a piece.
IsPiece(p) == /\ p = [open |-> p.open, text |-> p.text, close |-> p.close]
              /\ p.open \in BOOLEAN /\ p.close \in BOOLEAN
IsLine(l) == /\ l \in Seq({l[k] : k \in DOMAIN l}) \ {<< >>}
             /\ \A k \in DOMAIN l : IsPiece(l[k])
ASSUME FilesAssumption ==
    \A f \in (StopFiles \cup RouteFiles) \ {Missing} :
      f \in Seq({f[k] : k \in DOMAIN f}) /\ \A k \in DOMAIN f : IsLine(f[k])

VARIABLES
    stops_file, routes_file,
    phase,        \* "open stops", "stops", "open routes", "routes" or "done"
    n,            \* the number of the next line
    id, name,
    stop_names, route_names

vars == <<stops_file, routes_file, phase, n, id, name, stop_names, route_names>>
files == <<stops_file, routes_file>>

Plain(text) == [open |-> FALSE, text |-> text, close |-> FALSE]
Empty == Plain("")

-----------------------------------------------------------------------------
\* The string after the k-th std::getline(ss, string, ',') of a line.
Got(line, k, string) == IF k <= Len(line) THEN line[k] ELSE string

strip_quotes(p) == IF p.open /\ p.close THEN Plain(p.text) ELSE p

\* names[key] = value of a std::map.
Stored(names, key, value) ==
    [k \in DOMAIN names \cup {key} |-> IF k = key THEN value ELSE names[k]]

Init ==
    /\ stops_file \in StopFiles \cup {Missing}
    /\ routes_file \in RouteFiles \cup {Missing}
    /\ phase = "open stops"
    /\ n = 1
    /\ id = Empty
    /\ name = Empty
    /\ stop_names = << >>
    /\ route_names = << >>

\* A file that is there is opened and its header skipped.
OpenStops ==
    /\ phase = "open stops"
    /\ phase' = IF stops_file = Missing THEN "open routes" ELSE "stops"
    /\ n' = 2
    /\ UNCHANGED <<files, id, name, stop_names, route_names>>

StopLine ==
    /\ phase = "stops"
    /\ n <= Len(stops_file)
    /\ id' = strip_quotes(Got(stops_file[n], 1, id))
    /\ name' = strip_quotes(Got(stops_file[n], 3, name))
    /\ stop_names' = Stored(stop_names, id', name')
    /\ n' = n + 1
    /\ UNCHANGED <<files, phase, route_names>>

StopsEnd ==
    /\ phase = "stops"
    /\ n > Len(stops_file)
    /\ phase' = "open routes"
    /\ UNCHANGED <<files, n, id, name, stop_names, route_names>>

OpenRoutes ==
    /\ phase = "open routes"
    /\ phase' = IF routes_file = Missing THEN "done" ELSE "routes"
    /\ n' = 2
    /\ UNCHANGED <<files, id, name, stop_names, route_names>>

\* Mutation: route_short_name is not skipped.
RouteLineShortName ==
    /\ phase = "routes"
    /\ n <= Len(routes_file)
    /\ id' = strip_quotes(Got(routes_file[n], 1, id))
    /\ name' = strip_quotes(Got(routes_file[n], 3, name))
    /\ route_names' = Stored(route_names, id', name')
    /\ n' = n + 1
    /\ UNCHANGED <<files, phase, stop_names>>

RouteLine ==
    /\ phase = "routes"
    /\ n <= Len(routes_file)
    /\ id' = strip_quotes(Got(routes_file[n], 1, id))
    /\ name' = strip_quotes(Got(routes_file[n], 4, name))
    /\ route_names' = Stored(route_names, id', name')
    /\ n' = n + 1
    /\ UNCHANGED <<files, phase, stop_names>>

RoutesEnd ==
    /\ phase = "routes"
    /\ n > Len(routes_file)
    /\ phase' = "done"
    /\ UNCHANGED <<files, n, id, name, stop_names, route_names>>

Loaded == phase = "done" /\ UNCHANGED vars

Next == OpenStops \/ StopLine \/ StopsEnd \/ OpenRoutes \/ RouteLine \/ RoutesEnd \/ Loaded

Spec == Init /\ [][Next]_vars

\* What main prints for an identifier.
Display(names, key) == IF key \in DOMAIN names THEN names[key] ELSE key

-----------------------------------------------------------------------------
(* Correctness. *)

\* A line as a file of comma-separated values has it: a comma between an opening
\* quote and the next closing one is part of a value.  The pieces that start one:
Inside(line, k) == \E j \in 1 .. k - 1 : /\ line[j].open /\ ~line[j].close
                                         /\ \A l \in j + 1 .. k - 1 : ~line[l].close
Starts(line) == {k \in 1 .. Len(line) : ~Inside(line, k)}

\* The v-th value of a line is the given text, which has no comma.
Reads(line, v, text) ==
    \E k \in Starts(line) :
      /\ Cardinality({j \in Starts(line) : j <= k}) = v
      /\ k = Len(line) \/ k + 1 \in Starts(line)
      /\ line[k].text = text

\* A line with all the columns up to the name and no comma inside a value.
Regular(line, column) ==
    Len(line) >= column /\ \A k \in 1 .. Len(line) : line[k].open = line[k].close

\* The data lines of a file, and those among some lines that name an identifier.
Rows(file) == IF file = Missing THEN {} ELSE 2 .. Len(file)
Naming(file, rows, key) == {k \in rows : Reads(file[k], 1, key.text)}

\* The lines of a file are in a map as they should be: an identifier whose last
\* line is regular has the name on that line, whatever irregular lines stand
\* around it, and one of which the lines say nothing is shown as it is.
Kept(names, file, rows, column, key) ==
    /\ Naming(file, rows, key) = {} => Display(names, key) = key
    /\ \A k \in Naming(file, rows, key) :
         Regular(file[k], column) /\ (\A j \in Naming(file, rows, key) : j <= k)
           => LET name_shown == Display(names, key)
              IN  /\ name_shown = Plain(name_shown.text)
                  /\ Reads(file[k], column, name_shown.text)

\* Identifiers that a feed may contain: all that some line starts with.
Keys(F) == UNION {{Plain(f[k][1].text) : k \in Rows(f)} : f \in F}

\* An irregular line, too short or with a comma inside a value, damages at most
\* the entry of its own identifier, although the strings outlive it.
RegularLinesKept ==
    phase = "done" =>
      /\ \A key \in Keys(StopFiles) : Kept(stop_names, stops_file, Rows(stops_file), 3, key)
      /\ \A key \in Keys(RouteFiles) :
           Kept(route_names, routes_file, Rows(routes_file), 4, key)

\* main.cpp, "get route_long_name": a name in the map is the fourth value of a
\* line with that identifier.
NamesAreLongNames ==
    phase = "done" =>
      \A key \in DOMAIN route_names :
        \E k \in Naming(routes_file, Rows(routes_file), key) :
          /\ Reads(routes_file[k], 4, route_names[key].text)
          /\ ~route_names[key].open /\ ~route_names[key].close

=============================================================================
