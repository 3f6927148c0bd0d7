----------------------------- MODULE ExitOrder ------------------------------
(***************************************************************************)
(* The tasks of an exit and the order the planner promises (scaffolds/     *)
(* fun-launch/src/hooks/universalExitPlanner.ts, lines 441-456): what the  *)
(* executor relies on and the planner's algorithm must deliver.            *)
(***************************************************************************)
EXTENDS Naturals, Sequences, FiniteSets

CONSTANTS
    Claim,          \* DBC fee claims, one per DBC position
    Withdraw,       \* DAMM v2 full withdrawals, one per DAMM v2 position
    PoolOf          \* the pool (or "unknown") a task belongs to

Task == Claim \cup Withdraw

ASSUME TasksAssumption ==
    /\ IsFiniteSet(Task)
    /\ Claim \cap Withdraw = {}
    /\ DOMAIN PoolOf = Task

\* (Operators named Slip_... are plausible slips of the definition they
\* precede.  No specification uses them: putting one in the place of that
\* definition must break a property.)

\* Planner order: each task once, pools one after the other, and within a
\* pool the claims before the withdrawals.
Slip_NoPartition(s) == TRUE
ClaimsFirst(s) ==
    \A i, j \in DOMAIN s :
        PoolOf[s[i]] = PoolOf[s[j]] /\ s[i] \in Withdraw /\ s[j] \in Claim => j < i
PoolByPool(s) ==
    \A i, j, k \in DOMAIN s :
        i < j /\ j < k /\ PoolOf[s[i]] = PoolOf[s[k]] => PoolOf[s[j]] = PoolOf[s[i]]
EachOnce(s) == \A i, j \in DOMAIN s : s[i] = s[j] => i = j
IsPlan(s) == EachOnce(s) /\ ClaimsFirst(s) /\ PoolByPool(s)
Plans(S) == {s \in [1..Cardinality(S) -> S] : IsPlan(s)}
=============================================================================
