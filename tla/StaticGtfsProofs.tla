-------------------------- MODULE StaticGtfsProofs --------------------------
(***************************************************************************)
(* RegularLinesKept for files of any lines and any number of them: what    *)
(* the maps of load_static_gtfs show of the lines read so far is already   *)
(* as it should be of the whole file, because a line sets one entry and    *)
(* only a line that names an identifier sets the entry of that identifier. *)
(***************************************************************************)
EXTENDS StaticGtfs, FiniteSetTheorems, TLAPS

-----------------------------------------------------------------------------
(* Lines. *)

LEMMA LineType ==
    ASSUME NEW line, IsLine(line)
    PROVE  /\ Len(line) \in Nat \ {0}
           /\ DOMAIN line = 1 .. Len(line)
           /\ \A k \in 1 .. Len(line) : IsPiece(line[k])
<1> DEFINE R == {line[k] : k \in DOMAIN line}
<1>1. line \in Seq(R) /\ line # << >>
  BY DEF IsLine
<1>2. Len(line) \in Nat /\ DOMAIN line = 1 .. Len(line)
  BY <1>1
<1>3. Len(line) # 0
  BY <1>1
<1> QED
  BY <1>2, <1>3 DEF IsLine

LEMMA FirstStarts ==
    ASSUME NEW line, IsLine(line)
    PROVE  /\ IsFiniteSet(Starts(line))
           /\ 1 \in Starts(line)
           /\ Starts(line) \subseteq 1 .. Len(line)
<1>1. Len(line) \in Nat \ {0}
  BY LineType
<1>2. Starts(line) \subseteq 1 .. Len(line) /\ IsFiniteSet(1 .. Len(line))
  BY <1>1, FS_Interval DEF Starts
<1>3. IsFiniteSet(Starts(line))
  BY <1>2, FS_Subset
<1>4. ~Inside(line, 1)
  BY DEF Inside
<1> QED
  BY <1>1, <1>2, <1>3, <1>4 DEF Starts

\* The first value starts with the first piece, and with no other.
LEMMA FirstValue ==
    ASSUME NEW line, IsLine(line), NEW text
    PROVE  Reads(line, 1, text)
             <=> (1 = Len(line) \/ 2 \in Starts(line)) /\ line[1].text = text
<1> DEFINE Upto(k) == {j \in Starts(line) : j <= k}
<1>1. /\ IsFiniteSet(Starts(line)) /\ 1 \in Starts(line)
      /\ Starts(line) \subseteq 1 .. Len(line) /\ Len(line) \in Nat
  BY FirstStarts, LineType
<1>2. Cardinality(Upto(1)) = 1
  <2>1. Upto(1) = {1}
    BY <1>1
  <2> QED
    BY <2>1, FS_Singleton
<1>3. \A k \in Starts(line) : Cardinality(Upto(k)) = 1 => k = 1
  <2>1. SUFFICES ASSUME NEW k \in Starts(line), Cardinality(Upto(k)) = 1
                 PROVE  k = 1
    OBVIOUS
  <2>2. IsFiniteSet(Upto(k))
    <3>1. Upto(k) \subseteq Starts(line)
      OBVIOUS
    <3> QED
      BY <1>1, <3>1, FS_Subset
  <2>3. PICK x : Upto(k) = {x}
    BY <2>1, <2>2, FS_Singleton
  <2>4. 1 \in Upto(k) /\ k \in Upto(k)
    BY <1>1
  <2> QED
    BY <2>3, <2>4
<1>4. Reads(line, 1, text)
        <=> \E k \in Starts(line) : /\ Cardinality(Upto(k)) = 1
                                    /\ k = Len(line) \/ k + 1 \in Starts(line)
                                    /\ line[k].text = text
  BY DEF Reads
<1> HIDE DEF Upto
<1>5. (1 + 1) = 2
  OBVIOUS
<1> QED
  BY <1>1, <1>2, <1>3, <1>4, <1>5

\* A line whose identifier is stored under a plain key names that key.
LEMMA StoredNames ==
    ASSUME NEW line, IsLine(line), NEW text, strip_quotes(line[1]) = Plain(text)
    PROVE  Reads(line, 1, text)
<1>1. /\ Len(line) \in Nat \ {0}
      /\ IsPiece(line[1])
  BY LineType
<1>2. line[1].text = text /\ line[1].open = line[1].close
  BY <1>1 DEF strip_quotes, Plain, IsPiece
<1>3. Len(line) # 1 => 2 \in Starts(line)
  <2>1. ~Inside(line, 2)
    BY <1>2 DEF Inside
  <2>2. \A m \in Nat \ {0} : m # 1 => 2 \in 1 .. m
    OBVIOUS
  <2> QED
    BY <1>1, <2>1, <2>2, Zenon DEF Starts
<1> QED
  BY <1>2, <1>3, FirstValue

\* A regular line that names a plain key is stored under it.
LEMMA NamedStored ==
    ASSUME NEW line, IsLine(line), NEW text, NEW column \in Nat \ {0},
           Regular(line, column), Reads(line, 1, text)
    PROVE  strip_quotes(line[1]) = Plain(text)
<1>1. Len(line) \in Nat \ {0} /\ IsPiece(line[1])
  BY LineType
<1>2. line[1].open = line[1].close
  BY <1>1 DEF Regular
<1>3. line[1].text = text
  BY FirstValue
<1> QED
  BY <1>1, <1>2, <1>3 DEF strip_quotes, Plain, IsPiece

\* The piece that std::getline returns for a column of a regular line is the
\* value of that column.
LEMMA RegularColumn ==
    ASSUME NEW line, IsLine(line), NEW column \in Nat \ {0}, Regular(line, column)
    PROVE  /\ strip_quotes(line[column]) = Plain(line[column].text)
           /\ Reads(line, column, line[column].text)
<1>1. /\ Len(line) \in Nat \ {0} /\ column \in 1 .. Len(line)
      /\ IsPiece(line[column])
  BY LineType DEF Regular
<1>2. \A k \in 1 .. Len(line) : line[k].open = line[k].close
  BY DEF Regular
<1>3. strip_quotes(line[column]) = Plain(line[column].text)
  BY <1>1, <1>2 DEF strip_quotes, Plain, IsPiece
<1>4. Starts(line) = 1 .. Len(line)
  <2>1. \A k \in 1 .. Len(line) : \A j \in 1 .. k - 1 : line[j].open = line[j].close
    BY <1>1, <1>2
  <2>2. \A k \in 1 .. Len(line) : ~Inside(line, k)
    BY <2>1 DEF Inside
  <2> QED
    BY <2>2 DEF Starts
<1>5. Cardinality({j \in Starts(line) : j <= column}) = column
  <2>1. {j \in Starts(line) : j <= column} = 1 .. column
    BY <1>1, <1>4
  <2>2. Cardinality(1 .. column) = column
    BY FS_Interval
  <2> QED
    BY <2>1, <2>2
<1>6. column = Len(line) \/ column + 1 \in Starts(line)
  BY <1>1, <1>4
<1>7. column \in Starts(line)
  BY <1>1, <1>4
<1> QED
  BY <1>3, <1>5, <1>6, <1>7 DEF Reads

-----------------------------------------------------------------------------
(* One line more. *)

LEMMA MapSet ==
    ASSUME NEW names, NEW a, NEW b, NEW key
    PROVE  /\ a = key => Display(Stored(names, a, b), key) = b
           /\ a # key => Display(Stored(names, a, b), key) = Display(names, key)
BY DEF Display, Stored

\* What the map shows of some lines it shows, with the next line stored in it,
\* of those lines and that one.
LEMMA LineStored ==
    ASSUME NEW names, NEW file, NEW rows \in SUBSET Nat, NEW column \in Nat \ {0},
           NEW key, NEW m \in Nat, NEW string,
           key = Plain(key.text), IsLine(file[m]),
           \A j \in rows : j < m,
           Kept(names, file, rows, column, key)
    PROVE  Kept(Stored(names, strip_quotes(file[m][1]),
                       strip_quotes(Got(file[m], column, string))),
                file, rows \cup {m}, column, key)
<1> DEFINE a == strip_quotes(file[m][1])
           b == strip_quotes(Got(file[m], column, string))
           new == Stored(names, a, b)
           All == rows \cup {m}
<1>1. m \in Naming(file, All, key) <=> Reads(file[m], 1, key.text)
  BY DEF Naming
<1>2. \A j : j \in Naming(file, All, key) /\ j # m <=> j \in Naming(file, rows, key)
  BY DEF Naming
<1>3. a = key => m \in Naming(file, All, key)
  BY <1>1, StoredNames
<1>4. a # key => Display(new, key) = Display(names, key)
  BY MapSet
<1>5. ASSUME Naming(file, All, key) = {}
      PROVE  Display(new, key) = key
  BY <1>2, <1>3, <1>4, <1>5 DEF Kept
<1>6. ASSUME NEW k \in Naming(file, All, key), Regular(file[k], column),
             \A j \in Naming(file, All, key) : j <= k
      PROVE  /\ Display(new, key) = Plain(Display(new, key).text)
             /\ Reads(file[k], column, Display(new, key).text)
  <2>1. CASE k = m
    <3>1. a = key
      BY <1>1, <1>6, <2>1, NamedStored
    <3>2. Display(new, key) = b
      BY <3>1, MapSet
    <3>3. Got(file[m], column, string) = file[m][column]
      BY <1>6, <2>1 DEF Regular, Got
    <3>4. /\ b = Plain(file[m][column].text)
          /\ Reads(file[m], column, file[m][column].text)
      BY <1>6, <2>1, <3>3, RegularColumn
    <3>5. b.text = file[m][column].text
      BY <3>4 DEF Plain
    <3> QED
      BY <2>1, <3>2, <3>4, <3>5
  <2>2. CASE k # m
    <3>1. k \in Naming(file, rows, key)
      BY <1>2, <1>6, <2>2
    <3>2. k < m /\ k \in Nat
      BY <3>1 DEF Naming
    <3>3. m \notin Naming(file, All, key)
      BY <1>6, <3>2
    <3>4. Display(new, key) = Display(names, key)
      BY <1>3, <1>4, <3>3
    <3>5. \A j \in Naming(file, rows, key) : j <= k
      BY <1>2, <1>6
    <3> HIDE DEF new
    <3> QED
      BY <1>6, <3>1, <3>4, <3>5 DEF Kept
  <2> QED
    BY <2>1, <2>2
<1> HIDE DEF new, All
<1>7. Kept(new, file, All, column, key)
  BY <1>5, <1>6 DEF Kept
<1> QED
  BY <1>7 DEF new, All

-----------------------------------------------------------------------------
(* The invariant. *)

\* The lines of each file that are in its map.
StopsRead ==
    IF phase = "open stops" THEN {}
    ELSE IF phase = "stops" THEN {k \in Rows(stops_file) : k < n} ELSE Rows(stops_file)
RoutesRead ==
    IF phase = "done" THEN Rows(routes_file)
    ELSE IF phase = "routes" THEN {k \in Rows(routes_file) : k < n} ELSE {}

FileOpen ==
    /\ n \in Nat
    /\ stops_file \in StopFiles \cup {Missing}
    /\ routes_file \in RouteFiles \cup {Missing}
    /\ phase \in {"open stops", "stops", "open routes", "routes", "done"}
    /\ phase = "stops" => stops_file # Missing /\ n >= 2
    /\ phase = "routes" => routes_file # Missing /\ n >= 2

StopsKept ==
    \A key \in Keys(StopFiles) : Kept(stop_names, stops_file, StopsRead, 3, key)
RoutesKept ==
    \A key \in Keys(RouteFiles) : Kept(route_names, routes_file, RoutesRead, 4, key)

LoadInv == FileOpen /\ StopsKept /\ RoutesKept

LEMMA FileType ==
    ASSUME NEW f \in StopFiles \cup RouteFiles, f # Missing
    PROVE  /\ Len(f) \in Nat
           /\ Rows(f) = 2 .. Len(f)
           /\ \A k \in 1 .. Len(f) : IsLine(f[k])
<1> DEFINE R == {f[k] : k \in DOMAIN f}
<1>1. f \in Seq(R) /\ \A k \in DOMAIN f : IsLine(f[k])
  BY FilesAssumption
<1> QED
  BY <1>1 DEF Rows

LEMMA KeysPlain ==
    ASSUME NEW F, NEW key \in Keys(F)
    PROVE  key = Plain(key.text)
BY DEF Keys, Plain

LEMMA NothingKept ==
    ASSUME NEW file, NEW column, NEW key
    PROVE  Kept(<< >>, file, {}, column, key)
<1>1. Naming(file, {}, key) = {}
  BY DEF Naming
<1>2. Display(<< >>, key) = key
  BY DEF Display
<1> QED
  BY <1>1, <1>2 DEF Kept

\* The lines before the next one, and with it.
LEMMA NextRow ==
    ASSUME NEW f, NEW m \in Nat, NEW l \in Nat, m >= 2, Rows(f) = 2 .. l
    PROVE  /\ {k \in Rows(f) : k < m} \in SUBSET Nat
           /\ \A j \in {k \in Rows(f) : k < m} : j < m
           /\ m <= l => {k \in Rows(f) : k < m + 1} = {k \in Rows(f) : k < m} \cup {m}
           /\ m > l => {k \in Rows(f) : k < m} = Rows(f)
OBVIOUS

LEMMA InitLoadInv == Init => LoadInv
<1> SUFFICES ASSUME Init PROVE LoadInv
  OBVIOUS
<1>1. FileOpen
  BY DEF Init, FileOpen
<1>2. StopsKept
  BY NothingKept DEF Init, StopsKept, StopsRead
<1>3. RoutesKept
  BY NothingKept DEF Init, RoutesKept, RoutesRead
<1> QED
  BY <1>1, <1>2, <1>3 DEF LoadInv

LEMMA StepLoadInv == LoadInv /\ [Next]_vars => LoadInv'
<1> SUFFICES ASSUME LoadInv, [Next]_vars PROVE LoadInv'
  OBVIOUS
<1> USE DEF LoadInv
<1>1. CASE OpenStops
  <2>1. FileOpen'
    <3>0. 2 \in Nat /\ 2 >= 2
      OBVIOUS
    <3>1. n' \in Nat /\ n' >= 2 /\ stops_file' = stops_file /\ routes_file' = routes_file
      BY <3>0, <1>1, Zenon DEF OpenStops, files
    <3>2. \/ phase' = "open routes"
          \/ phase' = "stops" /\ stops_file # Missing
      BY <1>1 DEF OpenStops
    <3> QED
      BY <3>1, <3>2 DEF FileOpen
  <2>2. StopsRead' = {}
    <3>1. CASE stops_file = Missing
      BY <1>1, <3>1 DEF OpenStops, StopsRead, files, Rows
    <3>2. CASE stops_file # Missing
      <4>1. Rows(stops_file) = 2 .. Len(stops_file) /\ Len(stops_file) \in Nat
        BY <3>2, FileType DEF FileOpen
      <4>2. {k \in Rows(stops_file) : k < 2} = {}
        BY <4>1
      <4>3. phase' = "stops" /\ n' = 2 /\ stops_file' = stops_file
        BY <1>1, <3>2 DEF OpenStops, files
      <4> QED
        BY <4>2, <4>3 DEF StopsRead
    <3> QED
      BY <3>1, <3>2
  <2>3. StopsRead = {} /\ RoutesRead = {} /\ RoutesRead' = {}
    BY <1>1 DEF OpenStops, StopsRead, RoutesRead
  <2>4. StopsKept'
    BY <1>1, <2>2, <2>3 DEF OpenStops, files, StopsKept
  <2>5. RoutesKept'
    BY <1>1, <2>3 DEF OpenStops, files, RoutesKept
  <2> QED
    BY <2>1, <2>4, <2>5
<1>2. CASE StopLine
  <2>1. FileOpen'
    BY <1>2 DEF StopLine, FileOpen, files
  <2>2. /\ stops_file \in StopFiles \cup RouteFiles /\ stops_file # Missing
        /\ n \in Nat /\ n >= 2 /\ n <= Len(stops_file)
    BY <1>2 DEF StopLine, FileOpen
  <2>3. /\ Len(stops_file) \in Nat /\ Rows(stops_file) = 2 .. Len(stops_file)
        /\ IsLine(stops_file[n])
    BY <2>2, FileType
  <2>4. /\ StopsRead \in SUBSET Nat
        /\ \A j \in StopsRead : j < n
        /\ StopsRead' = StopsRead \cup {n}
    <3>1. /\ StopsRead = {k \in Rows(stops_file) : k < n}
          /\ StopsRead' = {k \in Rows(stops_file) : k < n + 1}
      BY <1>2 DEF StopLine, StopsRead, files
    <3> QED
      BY <2>2, <2>3, <3>1, NextRow
  <2>5. StopsKept'
    <3>1. SUFFICES ASSUME NEW key \in Keys(StopFiles)
                   PROVE  Kept(stop_names, stops_file, StopsRead, 3, key)'
      BY DEF StopsKept
    <3>2. Kept(Stored(stop_names, strip_quotes(stops_file[n][1]),
                      strip_quotes(Got(stops_file[n], 3, name))),
               stops_file, StopsRead \cup {n}, 3, key)
      <4>1. key = Plain(key.text)
        BY KeysPlain
      <4>2. Kept(stop_names, stops_file, StopsRead, 3, key)
        BY DEF StopsKept
      <4>3. 3 \in Nat \ {0}
        OBVIOUS
      <4> QED
        BY <2>2, <2>3, <2>4, <4>1, <4>2, <4>3, LineStored
    <3>3. /\ stop_names' = Stored(stop_names, strip_quotes(stops_file[n][1]),
                                  strip_quotes(Got(stops_file[n], 3, name)))
          /\ stops_file' = stops_file
      <4>1. Got(stops_file[n], 1, id) = stops_file[n][1]
        BY <2>3, LineType DEF Got
      <4> QED
        BY <1>2, <4>1 DEF StopLine, files
    <3> QED
      BY <2>4, <3>2, <3>3
  <2>6. RoutesKept'
    BY <1>2 DEF StopLine, files, RoutesKept, RoutesRead
  <2> QED
    BY <2>1, <2>5, <2>6
<1>3. CASE StopsEnd
  <2>1. FileOpen'
    BY <1>3 DEF StopsEnd, FileOpen, files
  <2>2. StopsRead' = StopsRead
    <3>1. /\ stops_file \in StopFiles \cup RouteFiles /\ stops_file # Missing
          /\ n \in Nat /\ n >= 2 /\ n > Len(stops_file)
      BY <1>3 DEF StopsEnd, FileOpen
    <3>2. Len(stops_file) \in Nat /\ Rows(stops_file) = 2 .. Len(stops_file)
      BY <3>1, FileType
    <3>3. {k \in Rows(stops_file) : k < n} = Rows(stops_file)
      BY <3>1, <3>2, NextRow
    <3> QED
      BY <1>3, <3>3 DEF StopsEnd, StopsRead, files
  <2>3. StopsKept' /\ RoutesKept'
    BY <1>3, <2>2 DEF StopsEnd, files, StopsKept, RoutesKept, RoutesRead
  <2> QED
    BY <2>1, <2>3
<1>4. CASE OpenRoutes
  <2>1. FileOpen'
    <3>0. 2 \in Nat /\ 2 >= 2
      OBVIOUS
    <3>1. n' \in Nat /\ n' >= 2 /\ stops_file' = stops_file /\ routes_file' = routes_file
      BY <3>0, <1>4, Zenon DEF OpenRoutes, files
    <3>2. \/ phase' = "done"
          \/ phase' = "routes" /\ routes_file # Missing
      BY <1>4 DEF OpenRoutes
    <3> QED
      BY <3>1, <3>2 DEF FileOpen
  <2>2. RoutesRead' = {}
    <3>1. CASE routes_file = Missing
      BY <1>4, <3>1 DEF OpenRoutes, RoutesRead, files, Rows
    <3>2. CASE routes_file # Missing
      <4>1. Rows(routes_file) = 2 .. Len(routes_file) /\ Len(routes_file) \in Nat
        BY <3>2, FileType DEF FileOpen
      <4>2. {k \in Rows(routes_file) : k < 2} = {}
        BY <4>1
      <4>3. phase' = "routes" /\ n' = 2 /\ routes_file' = routes_file
        BY <1>4, <3>2 DEF OpenRoutes, files
      <4> QED
        BY <4>2, <4>3 DEF RoutesRead
    <3> QED
      BY <3>1, <3>2
  <2>3. RoutesRead = {} /\ StopsRead' = StopsRead
    BY <1>4 DEF OpenRoutes, StopsRead, RoutesRead, files
  <2>4. StopsKept'
    BY <1>4, <2>3 DEF OpenRoutes, files, StopsKept
  <2>5. RoutesKept'
    BY <1>4, <2>2, <2>3 DEF OpenRoutes, files, RoutesKept
  <2> QED
    BY <2>1, <2>4, <2>5
<1>5. CASE RouteLine
  <2>1. FileOpen'
    BY <1>5 DEF RouteLine, FileOpen, files
  <2>2. /\ routes_file \in StopFiles \cup RouteFiles /\ routes_file # Missing
        /\ n \in Nat /\ n >= 2 /\ n <= Len(routes_file)
    BY <1>5 DEF RouteLine, FileOpen
  <2>3. /\ Len(routes_file) \in Nat /\ Rows(routes_file) = 2 .. Len(routes_file)
        /\ IsLine(routes_file[n])
    BY <2>2, FileType
  <2>4. /\ RoutesRead \in SUBSET Nat
        /\ \A j \in RoutesRead : j < n
        /\ RoutesRead' = RoutesRead \cup {n}
    <3>1. /\ RoutesRead = {k \in Rows(routes_file) : k < n}
          /\ RoutesRead' = {k \in Rows(routes_file) : k < n + 1}
      BY <1>5 DEF RouteLine, RoutesRead, files
    <3> QED
      BY <2>2, <2>3, <3>1, NextRow
  <2>5. RoutesKept'
    <3>1. SUFFICES ASSUME NEW key \in Keys(RouteFiles)
                   PROVE  Kept(route_names, routes_file, RoutesRead, 4, key)'
      BY DEF RoutesKept
    <3>2. Kept(Stored(route_names, strip_quotes(routes_file[n][1]),
                      strip_quotes(Got(routes_file[n], 4, name))),
               routes_file, RoutesRead \cup {n}, 4, key)
      <4>1. key = Plain(key.text)
        BY KeysPlain
      <4>2. Kept(route_names, routes_file, RoutesRead, 4, key)
        BY DEF RoutesKept
      <4>3. 4 \in Nat \ {0}
        OBVIOUS
      <4> QED
        BY <2>2, <2>3, <2>4, <4>1, <4>2, <4>3, LineStored
    <3>3. /\ route_names' = Stored(route_names, strip_quotes(routes_file[n][1]),
                                   strip_quotes(Got(routes_file[n], 4, name)))
          /\ routes_file' = routes_file
      <4>1. Got(routes_file[n], 1, id) = routes_file[n][1]
        BY <2>3, LineType DEF Got
      <4> QED
        BY <1>5, <4>1 DEF RouteLine, files
    <3> QED
      BY <2>4, <3>2, <3>3
  <2>6. StopsKept'
    BY <1>5 DEF RouteLine, files, StopsKept, StopsRead
  <2> QED
    BY <2>1, <2>5, <2>6
<1>6. CASE RoutesEnd
  <2>1. FileOpen'
    BY <1>6 DEF RoutesEnd, FileOpen, files
  <2>2. RoutesRead' = RoutesRead
    <3>1. /\ routes_file \in StopFiles \cup RouteFiles /\ routes_file # Missing
          /\ n \in Nat /\ n >= 2 /\ n > Len(routes_file)
      BY <1>6 DEF RoutesEnd, FileOpen
    <3>2. Len(routes_file) \in Nat /\ Rows(routes_file) = 2 .. Len(routes_file)
      BY <3>1, FileType
    <3>3. {k \in Rows(routes_file) : k < n} = Rows(routes_file)
      BY <3>1, <3>2, NextRow
    <3> QED
      BY <1>6, <3>3 DEF RoutesEnd, RoutesRead, files
  <2>3. StopsKept' /\ RoutesKept'
    BY <1>6, <2>2 DEF RoutesEnd, files, StopsKept, RoutesKept, StopsRead
  <2> QED
    BY <2>1, <2>3
<1>7. CASE Loaded \/ UNCHANGED vars
  BY <1>7 DEF Loaded, vars, FileOpen, StopsKept, RoutesKept, StopsRead, RoutesRead
<1> QED
  BY <1>1, <1>2, <1>3, <1>4, <1>5, <1>6, <1>7 DEF Next

\* Whatever the files contain, when load_static_gtfs returns, each identifier
\* whose last line is regular has the name on that line, and one on no line is
\* shown as it is: the strings id and name, which outlive a line and a file,
\* carry nothing into the entry of another identifier.
THEOREM NamesKept == Spec => []RegularLinesKept
<1>1. LoadInv => RegularLinesKept
  BY DEF LoadInv, StopsKept, RoutesKept, StopsRead, RoutesRead, RegularLinesKept
<1> QED
  BY <1>1, InitLoadInv, StepLoadInv, PTL DEF Spec
=============================================================================
