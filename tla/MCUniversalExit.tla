-------------------------- MODULE MCUniversalExit --------------------------
(* Small instances of UniversalExit: the positions of one wallet.          *)
EXTENDS UniversalExit, TLC

CONSTANTS c1, w1, w2, p, q

\* A pool with a fee claim and a withdrawal, and a pool with a withdrawal.
MCPoolOf == [t \in Task |-> IF t = w2 THEN q ELSE p]

\* Calls of run() are interchangeable.
MCSymmetry == Permutations(Run)
=============================================================================
