------------------------------ MODULE WebPages ------------------------------
(* The algorithms of the management pages that need no time: how an answer *)
(* becomes the rows of a table and the links below it (static/js/table.js), *)
(* and how readings become the points of a chart (static/js/chart.js).      *)
(* Indexes count from 1 here and from 0 in the code.                        *)
EXTENDS Integers, Sequences, SequencesExt

CONSTANTS
  Rate,      \* time between two polls, in the unit of the model (5 s)
  Axis       \* length of the time axis of a chart (10 min)

ASSUME ChartAssumption == Rate \in Nat \ {0} /\ Axis \in Nat \ {0}

-----------------------------------------------------------------------------
(* Tables. A row shows an item: the key columns it is found by, the columns *)
(* drawn once (fixed) and the ones drawn at each answer (live).             *)

\* "Nope, nothing to see here.": a row that no item is found in
Nope == [key |-> 0, fixed |-> 0, live |-> 0]

\* The first row with the key of the item, at or after start; 0 for none
findIndex(rows, start, item) ==
  SelectInSubSeq(rows, start, Len(rows), LAMBDA row : row.key = item.key)

\* A mutant: a new row goes to the end
FaultyAppends(table, data, i) ==
  LET found == findIndex(table.rows, table.start, data[i]) IN
  IF found = 0 THEN [table EXCEPT !.rows = Append(@, data[i]), !.start = i + 1]
  ELSE [table EXCEPT !.rows[found] = data[i], !.start = found]

\* One turn of the loop of updateTable over the items
PlaceRow(table, data, i) ==
  LET found == findIndex(table.rows, table.start, data[i]) IN
  IF table.broken THEN table
  ELSE IF found = 0
    THEN [table EXCEPT !.rows = InsertAt(@, i, data[i]), !.start = i + 1]
  ELSE IF found = i
    THEN [table EXCEPT !.rows[i].live = data[i].live, !.start = found]
  ELSE IF i > Len(table.rows)
    THEN [table EXCEPT !.broken = TRUE]       \* renderRow(undefined, ...)
  ELSE [table EXCEPT
          !.rows = [j \in DOMAIN @ |-> IF j = i THEN data[i]
                                       ELSE IF j = found /\ j <= Len(data)
                                         THEN data[j] ELSE @[j]],
          !.start = IF i + 1 < found THEN i + 1 ELSE found]

\* A mutant: an empty answer leaves the table alone
FaultySkipsEmpty(rows, data) ==
  [rows |-> IF data = <<>> THEN rows ELSE data, broken |-> FALSE]

\* The rows after an answer; broken when drawing them raised an error
updateTable(rows, data) ==
  IF data = <<>> THEN [rows |-> <<Nope>>, broken |-> FALSE]
  ELSE LET placed == FoldLeftDomain(
             LAMBDA table, i : PlaceRow(table, data, i),
             [rows |-> rows, start |-> 1, broken |-> FALSE], data)
       IN [rows |-> IF placed.broken THEN placed.rows
                    ELSE SubSeq(placed.rows, 1, Len(data)),
           broken |-> placed.broken]

-----------------------------------------------------------------------------
(* The pages that createPagination links to, from a page.                   *)

\* A mutant: the pages around the last ones run over the end
FaultyAround(pages, page) ==
  {p \in (page - 1)..(page + 1) : p # 0}

\* The pages written around the current one, when there are six or more
PagesAround(pages, page) ==
  LET low  == page - 1 - (CASE page = pages -> 2
                            [] page = pages - 1 -> 1
                            [] OTHER -> 0)
      high == page + 1 + (CASE page = 1 -> 2
                            [] page = 2 -> 1
                            [] OTHER -> 0)
  IN {p \in low..high : p # 0 /\ p <= pages}

\* A mutant: "Previous" on every page
FaultyPrevious(pages, page) ==
  {page - 1} \union (1..pages)

PageLinks(pages, page) ==
  IF pages = 1 THEN {}
  ELSE {p \in {page - 1} : page > 1} \union {p \in {page + 1} : page < pages}
       \union (IF pages < 6 THEN 1..pages
               ELSE PagesAround(pages, page)
                    \union {p \in {1} : page > 2}
                    \union {p \in {page - 2} : page > 3}
                    \union {p \in {page + 2} : page < pages - 2}
                    \union {p \in {pages} : page < pages - 1})

-----------------------------------------------------------------------------
(* Charts. A point is a reading y at time x; Void marks a missed poll.      *)

Void == 0 - 1
Points == Axis \div Rate        \* MAX_TICKS

\* A mutant: one missed poll is filled, however many there were
FaultyFillsOnce(points) ==
  LET n == Len(points) IN
  [points |-> IF n > 1 /\ points[n].x - points[n - 1].x >= 2 * Rate
                THEN InsertAt(points, n, [x |-> points[n].x - Rate, y |-> Void])
                ELSE points,
   more |-> FALSE]

\* One call of fillDatasetVoids: the loop walks the indexes it found at the
\* start while it inserts points
FillPass(points) ==
  FoldLeftDomain(
    LAMBDA pass, i :
      LET point == pass.points[i]
          gap   == point.x - pass.prev.x
      IN IF gap >= 2 * Rate
           THEN [points |-> InsertAt(pass.points, i,
                                     [x |-> point.x - Rate, y |-> Void]),
                 prev   |-> point,
                 more   |-> gap >= 3 * Rate]
           ELSE [pass EXCEPT !.prev = point],
    [points |-> points, prev |-> points[1], more |-> FALSE], points)

fillDatasetVoids(points) ==
  LET filled[ps \in Seq([x : Int, y : Int])] ==
        LET pass == FillPass(ps)
        IN IF pass.more THEN filled[pass.points] ELSE pass.points
  IN filled[points]

Expired(point, now) == now > point.x + Axis

\* The loop shifts the sequence it walks, so it skips the point after each
\* one it drops
fixDatasetLength(points, now) ==
  FoldLeftDomain(
    LAMBDA left, i : IF i <= Len(left) /\ Expired(left[i], now)
                       THEN Tail(left) ELSE left,
    points, points)

addToDataset(points, point, now) ==
  LET room == IF Len(points) >= Points THEN Tail(points) ELSE points
  IN fixDatasetLength(fillDatasetVoids(Append(room, point)), now)

\* The points after readings taken at the given times
Charted(times) ==
  FoldLeftDomain(LAMBDA points, i : addToDataset(points, [x |-> times[i], y |-> i], times[i]),
                 <<>>, times)

-----------------------------------------------------------------------------
CONSTANTS
  RowSamples,    \* rows a table may show (a set of sequences)
  DataSamples,   \* items an answer may hold (a set of sequences)
  MaxPages,      \* page counts tried
  PollTimes      \* times of the polls of a chart (a set of sequences)

Shows(rows, data) ==
  /\ Len(rows) = Len(data)
  /\ \A i \in DOMAIN data : rows[i].key = data[i].key /\ rows[i].live = data[i].live

\* Whatever a table shows, the incremental update of updateTable leaves one row
\* for each item of the answer, in the order of the answer, with its current
\* values, or raises an error; and it raises one only for items that share
\* their key columns.
UpdateExact ==
  \A rows \in RowSamples, data \in DataSamples :
    LET after == updateTable(rows, data) IN
    IF after.broken
      THEN \E i, j \in DOMAIN data : i # j /\ data[i].key = data[j].key
      ELSE data # <<>> => Shows(after.rows, data)

\* createPagination never links outside the pages, and from every page every
\* other one can be reached by its links, whatever the number of pages; from a
\* page that a filter left empty, page 1 can.
PagesReachable ==
  \A pages \in 2..MaxPages :
    LET from[k \in 0..pages, start \in 1..pages] ==
          IF k = 0 THEN {start}
          ELSE from[k - 1, start] \union
               UNION {PageLinks(pages, p) : p \in from[k - 1, start]}
    IN \A page \in 1..pages :
         /\ PageLinks(pages, page) \subseteq 1..pages
         /\ from[pages, page] = 1..pages
         /\ 1 \in PageLinks(pages, pages + page)

\* A chart has no hole: polls that were missed (a sleeping laptop, a slow
\* answer) are filled with void points, in order of time, however many were
\* missed.
NoHoles ==
  \A times \in PollTimes :
    LET points == Charted(times) IN
    \A i \in 1..(Len(points) - 1) :
      /\ points[i].x < points[i + 1].x
      /\ points[i + 1].x - points[i].x < 2 * Rate

\* The points from the reading i to the last but one: one for every Rate of time,
\* and one at least, as a late answer makes the next gap shorter than the rate
PointsFrom(times, i) ==
  LET gaps == [j \in 1..(Len(times) - 1 - i) |-> times[i + j] - times[i + j - 1]]
  IN FoldLeft(LAMBDA sum, gap : sum + (IF gap < Rate THEN 1 ELSE gap \div Rate), 1, gaps)

\* Making room, filling holes and dropping old points loses no reading that is
\* still on the time axis, unless MAX_TICKS points were in the chart from it on,
\* which takes answers that are closer than the rate.
ReadingsKept ==
  \A times \in PollTimes :
    LET points == Charted(times) IN
    \A i \in DOMAIN times :
      Last(times) - times[i] < Axis /\ PointsFrom(times, i) < Points =>
        \E j \in DOMAIN points : points[j] = [x |-> times[i], y |-> i]
=============================================================================
