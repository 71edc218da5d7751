-------------------------------- MODULE Table --------------------------------
(* A table of the management pages (renderTable of static/js/table.js): the *)
(* user sorts, filters and follows links; a timer polls; the answers of the *)
(* HTTP API come back in any order, or fail. What the server answers is the *)
(* page() of src/avalanchemq/http/controller.cr.                            *)
EXTENDS WebPages, FiniteSets

CONSTANTS
  Columns,       \* the columns a table can be sorted by
  Items,         \* keys of the things the server lists: 1..n
  PageSize,      \* rows of a page
  Interval,      \* whether the table polls
  MaxClicks,     \* bound on sort clicks
  MaxSearches,   \* bound on changes of the filter
  MaxLoads,      \* bound on pages loaded
  MaxChanges,    \* bound on changes on the server
  MaxTroubles,   \* bound on answers garbled or failed
  MaxFlight      \* bound on requests out

ASSUME TableAssumption ==
  /\ Items \subseteq Nat \ {0} /\ IsFiniteSet(Items)
  /\ PageSize \in Nat \ {0}
  /\ Interval \in BOOLEAN

None == "none"
Null == "null"        \* the text of a null sortKey in a query string
Unsorted == [column |-> None, reverse |-> FALSE]

VARIABLES
  server,     \* what the server lists: the live value of each key
  order,      \* sortKey and reverseOrder
  term,       \* searchTerm: the filter matches the keys from it up; 0 for none
  page,       \* currentPage
  url,        \* the query string of the page
  stored,     \* what sessionStorage remembers of the order
  typing,     \* the debounced update of the filter is armed
  ticking,    \* the interval timer runs
  flight,     \* requests out: their query, and the answer, <<>> before
  rows,       \* the rows of the table body
  links,      \* the hrefs below the table, with the clicks made before they were drawn
  error,      \* the text of the error element is not empty
  chosen,     \* history: the order the user clicked last
  astray,     \* history: the order came with a link drawn before the last click
  bounds      \* clicks, searches, loads, changes and troubles so far

vars == <<server, order, term, page, url, stored, typing, ticking, flight,
          rows, links, error, chosen, astray, bounds>>

-----------------------------------------------------------------------------
(* The server's side: filter, sort, page.                                   *)

Query == [order |-> order, term |-> term, page |-> page]

Least(a, b) == IF a < b THEN a ELSE b

Item(k) == [key |-> k, fixed |-> k, live |-> server[k]]

Before(o, j, k) ==
  CASE o.column = "live" /\ server[j] # server[k] -> server[j] < server[k]
    [] OTHER -> j < k

Matching(q) ==
  LET keys     == {k \in DOMAIN server : k >= q.term}
      down     == q.order.reverse /\ q.order.column # None
      Place(k) == Cardinality({j \in keys : IF down THEN Before(q.order, k, j)
                                                     ELSE Before(q.order, j, k)})
  IN [i \in 1..Cardinality(keys) |-> Item(CHOOSE k \in keys : Place(k) = i - 1)]

Answer(q) ==
  LET all == Matching(q)
      from == (q.page - 1) * PageSize
  IN [items |-> SubSeq(all, from + 1, Least(from + PageSize, Len(all))),
      filtered_count |-> Len(all),
      page |-> q.page]

Pages(answer) == (answer.filtered_count + PageSize - 1) \div PageSize

-----------------------------------------------------------------------------
(* The page's side.                                                         *)

NoQuery == [sort |-> None, reverse |-> FALSE, name |-> 0, page |-> 1]

\* What the users page finds in sessionStorage under the url of its table:
\* fetch of users.js left it there, and it is drawn before the first answer
Cached == Matching([order |-> Unsorted, term |-> 0])

\* renderTable reads its order from the query string, or else from
\* sessionStorage
LoadWith(q) ==
  LET o == IF q.sort # None THEN [column |-> q.sort, reverse |-> q.reverse]
           ELSE stored
  IN /\ url' = q
     /\ order' = o
     /\ term' = q.name
     /\ page' = q.page
     /\ rows' \in {<<>>, updateTable(<<>>, Cached).rows}
     /\ typing' = FALSE
     /\ ticking' = Interval
     /\ links' = {}
     /\ error' = FALSE
     /\ flight' = {[query |-> [order |-> o, term |-> q.name, page |-> q.page],
                    answer |-> <<>>]}

Init ==
  /\ server \in [Items -> {0}]
  /\ order = Unsorted /\ term = 0 /\ page = 1
  /\ url = NoQuery
  /\ stored = Unsorted
  /\ typing = FALSE /\ ticking = Interval
  /\ flight = {[query |-> [order |-> Unsorted, term |-> 0, page |-> 1],
                answer |-> <<>>]}
  /\ rows = <<>> /\ links = {} /\ error = FALSE
  /\ chosen = Unsorted /\ astray = FALSE
  /\ bounds = [clicks |-> 0, searches |-> 0, loads |-> 0, changes |-> 0,
                troubles |-> 0]

fetchAndUpdate(q) == flight' = flight \union {[query |-> q, answer |-> <<>>]}

RoomForFetch == Cardinality(flight) < MaxFlight

\* A mutant: the order goes into the query string only
FaultyForgetsOrder ==
  /\ bounds.clicks < MaxClicks /\ RoomForFetch
  /\ \E c \in Columns :
       LET o == [column |-> c, reverse |-> TRUE]
       IN /\ order' = o
          /\ chosen' = o
          /\ url' = [url EXCEPT !.sort = c, !.reverse = o.reverse]
          /\ fetchAndUpdate([Query EXCEPT !.order = o])
  /\ rows' = <<>>
  /\ astray' = FALSE
  /\ bounds' = [bounds EXCEPT !.clicks = @ + 1]
  /\ UNCHANGED <<server, term, page, stored, typing, ticking, links, error>>

\* A click on a column header: same column, other direction; the rows go
Sort ==
  /\ bounds.clicks < MaxClicks /\ RoomForFetch
  /\ \E c \in Columns :
       LET o == [column |-> c,
                 reverse |-> IF order.column = c THEN ~order.reverse ELSE TRUE]
       IN /\ order' = o
          /\ stored' = o
          /\ chosen' = o
          /\ url' = [url EXCEPT !.sort = c, !.reverse = o.reverse]
          /\ fetchAndUpdate([Query EXCEPT !.order = o])
  /\ rows' = <<>>
  /\ astray' = FALSE
  /\ bounds' = [bounds EXCEPT !.clicks = @ + 1]
  /\ UNCHANGED <<server, term, page, typing, ticking, links, error>>

\* A key pressed in the filter: the term changes now, the fetch waits
Search ==
  /\ bounds.searches < MaxSearches
  /\ term' \in ({0} \union Items) \ {term}
  /\ typing' = TRUE
  /\ bounds' = [bounds EXCEPT !.searches = @ + 1]
  /\ UNCHANGED <<server, order, page, url, stored, ticking, flight, rows, links,
                 error, chosen, astray>>

\* 200 ms without a key
SearchSettles ==
  /\ typing /\ RoomForFetch
  /\ typing' = FALSE
  /\ url' = [url EXCEPT !.name = term]
  /\ fetchAndUpdate(Query)
  /\ UNCHANGED <<server, order, term, page, stored, ticking, rows, links, error,
                 chosen, astray, bounds>>

\* The interval timer
Tick ==
  /\ ticking /\ RoomForFetch
  /\ fetchAndUpdate(Query)
  /\ UNCHANGED <<server, order, term, page, url, stored, typing, ticking, rows,
                 links, error, chosen, astray, bounds>>

\* The server handles a request, when it gets to it
Serve ==
  \E r \in flight :
    /\ r.answer = <<>>
    /\ flight' = (flight \ {r}) \union {[r EXCEPT !.answer = <<Answer(r.query)>>]}
    /\ UNCHANGED <<server, order, term, page, url, stored, typing, ticking, rows,
                   links, error, chosen, astray, bounds>>

\* The hrefs that createPagination writes, each with the order and the filter of
\* that moment; buildQuery leaves out an empty sortKey, but not one that is null
Links(pages, current) ==
  {[page |-> p, sort |-> IF order.column = None THEN Null ELSE order.column,
    term |-> term, drawn |-> bounds.clicks] : p \in PageLinks(pages, current)}

\* An answer arrives: draw it; an error raised by drawing is caught like a
\* failed request
Arrive ==
  \E r \in flight :
    LET answer == r.answer[1]
        drawn  == updateTable(rows, answer.items) IN
    /\ r.answer # <<>>
    /\ flight' = flight \ {r}
    /\ links' = Links(Pages(answer), answer.page)
    /\ rows' = drawn.rows
    /\ error' = drawn.broken
    /\ ticking' = (ticking /\ ~drawn.broken)
    /\ UNCHANGED <<server, order, term, page, url, stored, typing, chosen, astray,
                   bounds>>

Trouble == /\ bounds.troubles < MaxTroubles
           /\ bounds' = [bounds EXCEPT !.troubles = @ + 1]

\* A 200 whose body is no JSON: request returns the error as the answer, and
\* the table finds nothing to show in it
Garbled ==
  \E r \in flight :
    /\ Trouble
    /\ flight' = flight \ {r}
    /\ rows' = <<Nope>>
    /\ error' = FALSE
    /\ UNCHANGED <<server, order, term, page, url, stored, typing, ticking, links,
                   chosen, astray>>

\* A request fails: the timer is cleared for good
Fail ==
  \E r \in flight :
    /\ Trouble
    /\ flight' = flight \ {r}
    /\ error' = TRUE
    /\ ticking' = FALSE
    /\ UNCHANGED <<server, order, term, page, url, stored, typing, rows, links,
                   chosen, astray>>

\* The page is loaded again
Reload == LoadWith(url) /\ UNCHANGED astray

\* It is left for and come back to through the menu
Return == LoadWith(NoQuery) /\ astray' = FALSE

\* It is changed for another of its pages. A link names the direction
\* sort_reverse, and renderTable reads reverseOrder
Follow ==
  \E l \in links :
    /\ LoadWith([sort |-> l.sort, reverse |-> FALSE, name |-> l.term, page |-> l.page])
    /\ astray' = (astray \/ l.drawn # bounds.clicks)

Load ==
  /\ bounds.loads < MaxLoads
  /\ Reload \/ Return \/ Follow
  /\ bounds' = [bounds EXCEPT !.loads = @ + 1]
  /\ UNCHANGED <<server, stored, chosen>>

\* Things come, go and change on the server
Change ==
  /\ bounds.changes < MaxChanges
  /\ \/ \E k \in DOMAIN server :
          server' = [j \in DOMAIN server \ {k} |-> server[j]]
     \/ \E k \in Items :
          server' = [j \in DOMAIN server \union {k} |->
                       IF j = k THEN 1 ELSE server[j]]
  /\ server' # server
  /\ bounds' = [bounds EXCEPT !.changes = @ + 1]
  /\ UNCHANGED <<order, term, page, url, stored, typing, ticking, flight, rows,
                 links, error, chosen, astray>>

Next == Sort \/ Search \/ SearchSettles \/ Tick \/ Serve \/ Arrive \/ Garbled
        \/ Fail \/ Load \/ Change

Spec == Init /\ [][Next]_vars

\* An answer is out no longer: it has arrived, or what came was no answer
Ends == \E r \in flight : r.answer # <<>> /\ flight' = flight \ {r}

\* Timers fire, the server answers, and answers come to an end. Nothing is said of
\* the order in which they do.
Fairness == /\ WF_vars(SearchSettles)
            /\ WF_vars(Tick)
            /\ WF_vars(Serve)
            /\ WF_flight(Ends)

FairSpec == Spec /\ Fairness

-----------------------------------------------------------------------------
Sorts == Columns \union {None, Null}
Orders == [column : Sorts, reverse : BOOLEAN]
Terms == {0} \union Items
Queries == [order : Orders, term : Terms, page : Nat \ {0}]
Rows == [key : Items, fixed : Items, live : {0, 1}]
Answers == [items : Seq(Rows), filtered_count : Nat, page : Nat \ {0}]

\* Every variable has a value the page can hold; no link leads to a page before
\* the first, and each names an order.
TableTypeOK ==
  /\ DOMAIN server \subseteq Items /\ \A k \in DOMAIN server : server[k] \in {0, 1}
  /\ order \in Orders /\ stored \in Orders /\ chosen \in Orders /\ astray \in BOOLEAN
  /\ term \in Terms /\ page \in Nat \ {0}
  /\ url \in [sort : Sorts, reverse : BOOLEAN, name : Terms, page : Nat \ {0}]
  /\ typing \in BOOLEAN /\ ticking \in BOOLEAN /\ error \in BOOLEAN
  /\ ticking => Interval
  /\ \A r \in flight : r.query \in Queries /\ r.answer \in Seq(Answers)
  /\ rows \in Seq(Rows \union {Nope})
  /\ links \subseteq [page : Nat \ {0}, sort : Sorts \ {None}, term : Terms,
                     drawn : 0..bounds.clicks]
  /\ bounds \in [clicks : 0..MaxClicks, searches : 0..MaxSearches, loads : 0..MaxLoads,
                 changes : 0..MaxChanges, troubles : 0..MaxTroubles]

\* What a page is sorted by when the user chose o: as long as nothing is chosen, a
\* link turns the null into a text
Names(column, o) == column = o.column \/ (o.column = None /\ column = Null)

\* The order clicked last survives answers in any order, reloads, the menu and
\* the links between pages: the column always, but for a link that was drawn
\* before that click and followed before an answer replaced it; the direction is
\* at worst lost to the ascending default, never turned round from it.
SortKept ==
  /\ ~astray => Names(order.column, chosen)
  /\ order.reverse => chosen.reverse

Fresh == LET answer == Answer(Query) IN
  /\ rows = IF answer.items = <<>> THEN <<Nope>> ELSE answer.items
  /\ links = Links(Pages(answer), page)

\* Once the user and the server are at rest, a polling table comes to show what
\* the server lists for the order, the filter and the page the user sees, with
\* links that carry that order and that filter, and stays there: answers that
\* were overtaken are overwritten, and so are links drawn before a click. Only an
\* error, which stops the timer for good, keeps it stale.
FreshEventually == <>[](ticking => Fresh)
=============================================================================
