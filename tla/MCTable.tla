------------------------------ MODULE MCTable ------------------------------
(* Instances of Table and WebPages for TLC. *)
EXTENDS Table

Shown == [key : {1, 2, 3}, fixed : {0}, live : {0}]
MCRowSamples == {<<Nope>>} \union SeqOf(Shown, 3)
MCDataSamples == SeqOf([key : {1, 2, 3}, fixed : {1}, live : {1}], 3)

\* Times of six answers, which stamp the readings: from half an interval apart, when
\* the one before was late, to more than four intervals, when polls were missed
Gaps == [1..5 -> {1, 2, 3, 5, 9}]
MCPollTimes == {[i \in 1..6 |-> 1 + FoldLeft(LAMBDA sum, j : sum + gaps[j], 0,
                                           [j \in 1..(i - 1) |-> j])] : gaps \in Gaps}

(* The properties of WebPages depend on no variable: TLC checks them once.  *)
AtStart == bounds.clicks + bounds.searches + bounds.loads + bounds.changes
             + bounds.troubles = 0
           /\ flight = {[query |-> Query, answer |-> <<>>]} /\ rows = <<>>

\* UpdateExact, of updateTable in static/js/table.js
RowsExact == AtStart => UpdateExact

\* PagesReachable, of createPagination in static/js/table.js
LinksReach == AtStart => PagesReachable

\* NoHoles and ReadingsKept, of addToDataset and what it calls in static/js/chart.js
ChartRight == AtStart => NoHoles /\ ReadingsKept
=============================================================================
