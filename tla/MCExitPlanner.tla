--------------------------- MODULE MCExitPlanner ----------------------------
(* Small instances of ExitPlanner.                                          *)
EXTENDS ExitPlanner

CONSTANTS c1, c2, w1, w2, w3, p, q

\* Pool p has a claim and two withdrawals, pool q a claim; one position could
\* not be read.
MCPoolOf == [t \in Task |-> CASE t = c2 -> q [] t = w3 -> NoPool [] OTHER -> p]
MCFences == {{}, {p}}
\* Lowest and highest, the first base of the ladder, the documented default,
\* that of the exit page, whose second step is a fraction, and the last base below
\* the cap on the second step.
MCBases == {0, 2120, 250000, 750000, 2222220, 3000000}
=============================================================================
