---------------------------- MODULE Table_proofs ----------------------------
(***************************************************************************)
(* A proof about Table for every value of its constants: the order the     *)
(* user clicked last is kept. What is drawn and when (RowsExact,           *)
(* LinksReach, FreshEventually) is left to TLC: the rows are folded and    *)
(* sorted, and that they become right is a liveness property.              *)
(***************************************************************************)
EXTENDS Table, TLAPS

\* The order is remembered at four places. The query string and sessionStorage
\* are where a page that loads finds it, the links carry the column of when they
\* were drawn, and those drawn since the last click carry its column.
LinksInv ==
  \A l \in links :
    /\ l.drawn \in 0..bounds.clicks
    /\ l.drawn = bounds.clicks /\ ~astray => Names(l.sort, chosen)

BoundsRecord ==
  bounds = [clicks |-> bounds.clicks, searches |-> bounds.searches, loads |-> bounds.loads,
            changes |-> bounds.changes, troubles |-> bounds.troubles]

OrderInv ==
  /\ SortKept
  /\ stored = chosen
  /\ ~astray => url.sort = None \/ Names(url.sort, chosen)
  /\ url.reverse => chosen.reverse
  /\ url = [sort |-> url.sort, reverse |-> url.reverse, name |-> url.name,
            page |-> url.page]
  /\ bounds.clicks \in Nat /\ BoundsRecord
  /\ LinksInv

orderVars == <<order, stored, chosen, url, links, astray, bounds>>

\* A page that is loaded with a query string that names the order of the last
\* click, or none at all, has that order.
LEMMA LoadedKeeps ==
  ASSUME OrderInv, UNCHANGED <<stored, chosen>>,
         NEW sort, ~astray' => sort = None \/ Names(sort, chosen),
         NEW reverse, reverse => chosen.reverse,
         NEW name, NEW pg,
         LoadWith([sort |-> sort, reverse |-> reverse, name |-> name, page |-> pg]),
         bounds' = [bounds EXCEPT !.loads = @ + 1]
  PROVE  OrderInv'
<1> DEFINE q == [sort |-> sort, reverse |-> reverse, name |-> name, page |-> pg]
<1>1. /\ url' = q /\ links' = {}
      /\ order' = IF q.sort # None THEN [column |-> q.sort, reverse |-> q.reverse] ELSE stored
  BY DEF LoadWith
<1>2. /\ q.sort = sort /\ q.reverse = reverse
      /\ q = [sort |-> q.sort, reverse |-> q.reverse, name |-> q.name, page |-> q.page]
  OBVIOUS
<1> HIDE DEF q
<1>3. SortKept'
  BY <1>1, <1>2 DEF OrderInv, SortKept, Names
<1>4. (~astray => url.sort = None \/ Names(url.sort, chosen))'
  BY <1>1, <1>2 DEF OrderInv, Names
<1>5. bounds'.clicks = bounds.clicks /\ BoundsRecord'
  BY DEF OrderInv, BoundsRecord
<1>6. LinksInv'
  BY <1>1 DEF LinksInv
<1> QED
  BY <1>1, <1>2, <1>3, <1>4, <1>5, <1>6 DEF OrderInv

\* A click replaces the order everywhere, and all links were drawn before it.
LEMMA SortKeeps == OrderInv /\ Sort => OrderInv'
<1> SUFFICES ASSUME OrderInv, Sort PROVE OrderInv'
  OBVIOUS
<1>1. PICK c \in Columns :
        LET o == [column |-> c,
                  reverse |-> IF order.column = c THEN ~order.reverse ELSE TRUE]
        IN /\ order' = o
           /\ stored' = o
           /\ chosen' = o
           /\ url' = [url EXCEPT !.sort = c, !.reverse = o.reverse]
  BY DEF Sort
<1> DEFINE o == [column |-> c, reverse |-> IF order.column = c THEN ~order.reverse ELSE TRUE]
<1>2. o.column = c
  OBVIOUS
<1> HIDE DEF o
<1>3. order' = o /\ stored' = o /\ chosen' = o /\ url' = [url EXCEPT !.sort = c, !.reverse = o.reverse]
  BY <1>1 DEF o
<1>4. /\ url'.sort = c /\ url'.reverse = o.reverse
      /\ url' = [sort |-> url'.sort, reverse |-> url'.reverse, name |-> url'.name, page |-> url'.page]
  BY <1>3 DEF OrderInv
<1>5. links' = links /\ bounds' = [bounds EXCEPT !.clicks = @ + 1]
  BY DEF Sort
<1>6. /\ bounds'.clicks = bounds.clicks + 1 /\ bounds'.clicks \in Nat
      /\ BoundsRecord'
  BY <1>5 DEF OrderInv, BoundsRecord
<1>7. LinksInv'
  BY <1>5, <1>6 DEF OrderInv, LinksInv
<1>8. SortKept' /\ (~astray => url.sort = None \/ Names(url.sort, chosen))'
  BY <1>2, <1>3, <1>4 DEF SortKept, Names
<1> QED
  BY <1>2, <1>3, <1>4, <1>6, <1>7, <1>8 DEF OrderInv

\* The filter changes another part of the query string.
LEMMA SettlesKeeps == OrderInv /\ SearchSettles => OrderInv'
<1> SUFFICES ASSUME OrderInv, SearchSettles PROVE OrderInv'
  OBVIOUS
<1>1. /\ url' = [url EXCEPT !.name = term]
      /\ UNCHANGED <<order, stored, chosen, links, astray, bounds>>
  BY DEF SearchSettles
<1>2. /\ url'.sort = url.sort /\ url'.reverse = url.reverse
      /\ url' = [sort |-> url'.sort, reverse |-> url'.reverse, name |-> url'.name, page |-> url'.page]
  BY <1>1 DEF OrderInv
<1>3. LinksInv'
  BY <1>1 DEF OrderInv, LinksInv
<1>4. BoundsRecord'
  BY <1>1 DEF OrderInv, BoundsRecord
<1> QED
  BY <1>1, <1>2, <1>3, <1>4 DEF OrderInv, SortKept

\* What is drawn carries the order the page has then.
LEMMA ArriveKeeps == OrderInv /\ Arrive => OrderInv'
<1> SUFFICES ASSUME OrderInv, Arrive PROVE OrderInv'
  OBVIOUS
<1>1. UNCHANGED <<order, stored, chosen, url, astray, bounds>>
  BY DEF Arrive
<1>2. PICK n, current : links' = Links(n, current)
  BY DEF Arrive
<1>3. ASSUME NEW l \in links', ~astray PROVE Names(l.sort, chosen)
  <2>1. l.sort = IF order.column = None THEN Null ELSE order.column
    BY <1>2, <1>3 DEF Links
  <2> QED
    BY <1>3, <2>1 DEF OrderInv, SortKept, Names
<1>4. \A l \in links' : l.drawn = bounds.clicks
  BY <1>2 DEF Links
<1>5. LinksInv'
  BY <1>1, <1>3, <1>4 DEF OrderInv, LinksInv
<1>6. BoundsRecord'
  BY <1>1 DEF OrderInv, BoundsRecord
<1> QED
  BY <1>1, <1>5, <1>6 DEF OrderInv, SortKept

\* A page is loaded again, through the menu, or through a link.
LEMMA LoadKeeps == OrderInv /\ Load => OrderInv'
<1> SUFFICES ASSUME OrderInv, Load PROVE OrderInv'
  OBVIOUS
<1>1. UNCHANGED <<stored, chosen>> /\ bounds' = [bounds EXCEPT !.loads = @ + 1]
  BY DEF Load
<1>2. CASE Reload
  <2>1. LoadWith([sort |-> url.sort, reverse |-> url.reverse, name |-> url.name, page |-> url.page])
    BY <1>2 DEF Reload, OrderInv
  <2>2. astray' = astray
    BY <1>2 DEF Reload
  <2> QED
    BY <1>1, <2>1, <2>2, LoadedKeeps DEF OrderInv
<1>3. CASE Return
  BY <1>1, <1>3, LoadedKeeps DEF NoQuery, Return
<1>4. CASE Follow
  <2>1. PICK l \in links :
          /\ LoadWith([sort |-> l.sort, reverse |-> FALSE, name |-> l.term, page |-> l.page])
          /\ astray' = (astray \/ l.drawn # bounds.clicks)
    BY <1>4 DEF Follow
  <2>2. ~astray' => Names(l.sort, chosen)
    BY <2>1 DEF OrderInv, LinksInv
  <2> QED
    BY <1>1, <2>1, <2>2, LoadedKeeps
<1> QED
  BY <1>2, <1>3, <1>4 DEF Load

\* The initial page is sorted by nothing, and nothing was clicked.
LEMMA OrderInit == Init => OrderInv
<1> SUFFICES ASSUME Init PROVE OrderInv
  OBVIOUS
<1>1. /\ order = Unsorted /\ stored = Unsorted /\ chosen = Unsorted /\ url = NoQuery
      /\ links = {}
      /\ bounds.clicks = 0 /\ BoundsRecord
  BY DEF Init, BoundsRecord
<1> QED
  BY <1>1 DEF OrderInv, SortKept, LinksInv, Names, Unsorted, NoQuery

\* Every step keeps the order; answers, timers and the server do not touch it.
LEMMA OrderStep == OrderInv /\ [Next]_vars => OrderInv'
<1> SUFFICES ASSUME OrderInv, [Next]_vars PROVE OrderInv'
  OBVIOUS
<1>1. ASSUME UNCHANGED <<order, stored, chosen, url, links, astray>>,
             bounds'.clicks = bounds.clicks, BoundsRecord'
      PROVE  OrderInv'
  <2>1. LinksInv'
    BY <1>1 DEF OrderInv, LinksInv
  <2> QED
    BY <1>1, <2>1 DEF OrderInv, SortKept
<1>2. CASE Sort
  BY <1>2, SortKeeps
<1>3. CASE SearchSettles
  BY <1>3, SettlesKeeps
<1>4. CASE Load
  BY <1>4, LoadKeeps
<1>5. CASE Tick \/ Serve \/ UNCHANGED vars
  <2>1. UNCHANGED orderVars
    BY <1>5 DEF Tick, Serve, vars, orderVars
  <2>2. BoundsRecord'
    BY <2>1 DEF OrderInv, orderVars, BoundsRecord
  <2> QED
    BY <1>1, <2>1, <2>2 DEF orderVars
<1>6. CASE Arrive
  BY <1>6, ArriveKeeps
<1>7. CASE Search \/ Garbled \/ Fail \/ Change
  <2>1. UNCHANGED <<order, stored, chosen, url, links, astray>>
    BY <1>7 DEF Search, Garbled, Fail, Change
  <2>2. \/ bounds' = [bounds EXCEPT !.searches = bounds.searches + 1]
        \/ bounds' = [bounds EXCEPT !.troubles = bounds.troubles + 1]
        \/ bounds' = [bounds EXCEPT !.changes = bounds.changes + 1]
    BY <1>7 DEF Search, Garbled, Fail, Change, Trouble
  <2>3. bounds'.clicks = bounds.clicks /\ BoundsRecord'
    BY <2>2 DEF OrderInv, BoundsRecord
  <2> QED
    BY <1>1, <2>1, <2>3
<1> QED
  BY <1>2, <1>3, <1>4, <1>5, <1>6, <1>7 DEF Next

\* The order clicked last survives answers in any order, reloads, the menu and
\* the links between pages (renderTable of static/js/table.js): the column
\* always, but for a link that was drawn before that click and followed before
\* an answer replaced it; the direction is at worst lost to the ascending default.
THEOREM OrderKept == Spec => []SortKept
<1>1. OrderInv => SortKept
  BY DEF OrderInv
<1> QED
  BY <1>1, OrderInit, OrderStep, PTL DEF Spec
=============================================================================
