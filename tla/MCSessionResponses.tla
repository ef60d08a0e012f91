------------------------- MODULE MCSessionResponses -------------------------
(* Up to three responses over two queries, nested in every way; ids -1 to 4.*)
EXTENDS SessionResponses
CONSTANTS q1, q2
MCQueries == {q1, q2}
=============================================================================
