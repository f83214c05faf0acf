--------------------------- MODULE MCInsightCache ---------------------------
(* A page, and two reports that share their sections: of a selection, in   *)
(* the order of the whole scope, and of a repository where the order is    *)
(* the other one.                                                          *)
EXTENDS InsightCache

CONSTANTS ann, bob, first, second

MCReports == {[board |-> <<ann, bob>>, wanted |-> {ann, bob}],
              [board |-> <<bob, ann>>, wanted |-> {}]}
MCRequests == {first, second}
=============================================================================
