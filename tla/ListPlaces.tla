----------------------------- MODULE ListPlaces ------------------------------
(***************************************************************************)
(* Array.filter and Array.sort as the planner of exits and the Explore     *)
(* page use them.  A filter and an order are given by places, not by       *)
(* recursion over the list: `before` maps each place to the places that    *)
(* come before it in the result.                                           *)
(***************************************************************************)
EXTENDS Integers, Sequences, FiniteSets

Lined(before) ==
    [n \in 1..Cardinality(DOMAIN before) |->
        CHOOSE i \in DOMAIN before : Cardinality(before[i]) = n - 1]

\* The members of a set of numbers, the least one first.
Ascending(S) == Lined([i \in S |-> {j \in S : j < i}])

\* s.filter(t => t in S)
Places(s, S) == {i \in DOMAIN s : s[i] \in S}
Kept(s, S) == LET line == Ascending(Places(s, S)) IN [n \in DOMAIN line |-> s[line[n]]]

\* s.sort() by descending keys; it is stable: of equal keys, the earlier first.
SortDesc(s, key) ==
    LET line == Lined([i \in DOMAIN s |->
                   {j \in DOMAIN s : \/ key[s[j]] > key[s[i]]
                                     \/ key[s[j]] = key[s[i]] /\ j < i}])
    IN  [n \in DOMAIN line |-> s[line[n]]]
=============================================================================
