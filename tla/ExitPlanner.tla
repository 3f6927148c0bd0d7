---------------------------- MODULE ExitPlanner -----------------------------
(***************************************************************************)
(* planUniversalExits (scaffolds/fun-launch/src/hooks/                     *)
(* universalExitPlanner.ts): two discoveries in parallel, the claims built *)
(* by the server, the withdrawals built in the browser or, position by     *)
(* position, by the server, three priority variants each, and the order in *)
(* which the executor will run them.                                       *)
(*                                                                         *)
(* A task stands for its position.  Left out: slippage thresholds, the     *)
(* instructions themselves, and the many shapes of the SDK's answers.      *)
(***************************************************************************)
EXTENDS ExitOrder, ListPlaces, SequencesExt

CONSTANTS
    Bases,          \* values of priorityMicros
    Fences,         \* values of MIGRATED_DBC_POOLS, {} when it is not set
    NoPool          \* the pool of a position discovery could not read

Cap == 3000000
ASSUME BasesAssumption == Bases \subseteq 0..Cap
ASSUME FencesAssumption == \A F \in Fences : NoPool \notin F

VARIABLES
    at,         \* the await planUniversalExits is suspended at
    fence,      \* the pools of MIGRATED_DBC_POOLS
    base,       \* its clamped priorityMicros
    dbc, damm,  \* dbcPositions and dammPositions
    scan,       \* ownerPositions: which are open (have an NFT and liquidity)
    sdk,        \* connection, cp and latestBlockhash are set
    claims,     \* claimTasks
    withdraws,  \* withdrawTasks
    plan        \* the result

vars == <<at, fence, base, dbc, damm, scan, sdk, claims, withdraws, plan>>

Init ==
    /\ at = "discovery"
    /\ fence \in Fences
    /\ base \in Bases
    /\ dbc = <<>> /\ damm = <<>>
    /\ scan = <<>>
    /\ sdk = FALSE
    /\ claims = <<>> /\ withdraws = <<>> /\ plan = <<>>

-----------------------------------------------------------------------------
(* The priority ladder.  JavaScript computes it in doubles.                *)

\* v lies in [2^e, 2^(e+1)) for p = 2^e.
IsBinade(p, v) == p =< v /\ v < 2 * p
Binades == {2^e : e \in 0..22}

\* b * 1.35 as a double is a whole number.  1.35 is stored 2/5 of a unit in the
\* last place (2^-52) too high, so a whole product 27b/20 survives rounding only
\* while 2b/5 is at most half a unit of its own binade.
IsWholeUplift(b) ==
    /\ (27 * b) % 20 = 0
    /\ b > 0 => \E p \in Binades : IsBinade(p, (27 * b) \div 20) /\ 4 * b =< 5 * p

RoundDown(v, step) == (v \div step) * step
Capped(v) == IF v < Cap THEN v ELSE Cap

\* The second step is kept as its whole part, see Encodable.  (Beyond two
\* million the third step is capped; the product would not fit 32 bits.)
Slip_ThirdFromBase(b) ==
    <<Capped(RoundDown(b, 1000)), Capped((27 * b) \div 20), Capped(RoundDown(b, 1000))>>
Steps(b) ==
    <<Capped(RoundDown(b, 1000)),
      Capped((27 * b) \div 20),
      IF b > 2000000 THEN Cap ELSE Capped(RoundDown((729 * b) \div 400, 1000))>>

\* setComputeUnitPrice converts to a BigInt, in the browser and in
\* /api/dammv2-exit alike, and throws on a fraction.
Encodable(b) == (27 * b) \div 20 >= Cap \/ IsWholeUplift(b)

-----------------------------------------------------------------------------
\* Lists of elements of S, none twice.
Lists(S) ==
    UNION {{s \in [1..n -> S] : EachOnce(s)} : n \in 0..Cardinality(S)}

-----------------------------------------------------------------------------
(* Which positions are built.                                              *)

Fenced(s) ==
    IF fence = {} THEN s ELSE Kept(s, {t \in Task : PoolOf[t] \in fence})

\* A wallet scan that found anything overrules the discovery.
Slip_ScanIgnored(s) == s
Validated(s) ==
    IF DOMAIN scan = {} THEN s ELSE Kept(s, {t \in DOMAIN scan : scan[t]})

Candidates == Kept(Validated(Fenced(damm)), {t \in Task : PoolOf[t] # NoPool})

-----------------------------------------------------------------------------
(* The order of the result.  (Slip_...: see ExitOrder.)                    *)

\* Where the key of i is inserted into byPool.
Inserted(s, i) ==
    CHOOSE j \in DOMAIN s :
        /\ PoolOf[s[j]] = PoolOf[s[i]]
        /\ \A h \in DOMAIN s : PoolOf[s[h]] = PoolOf[s[i]] => j =< h

\* Keys in the order of their insertion, and within a segment the claims first;
\* otherwise as built.
Precedes(s, j, i) ==
    \/ Inserted(s, j) < Inserted(s, i)
    \/ /\ Inserted(s, j) = Inserted(s, i)
       /\ \/ s[j] \in Claim /\ s[i] \in Withdraw
          \/ (s[j] \in Claim <=> s[i] \in Claim) /\ j < i

Slip_Unsegmented(cs, ws) == cs \o ws
Ordered(cs, ws) ==
    LET all == cs \o ws
        line == Lined([i \in DOMAIN all |-> {j \in DOMAIN all : Precedes(all, j, i)}])
    IN  [n \in DOMAIN line |-> all[line[n]]]

-----------------------------------------------------------------------------
(* One action per await.                                                   *)

\* Both discoveries settle.  A failed or excluded one counts as empty.
Discovered ==
    /\ at = "discovery"
    /\ dbc' \in Lists(Claim)
    /\ damm' \in Lists(Withdraw)
    /\ at' = "claims"
    /\ UNCHANGED <<fence, base, scan, sdk, claims, withdraws, plan>>

\* The claims the server could build, in discovery order.
ClaimsBuilt ==
    /\ at = "claims"
    /\ \E ok \in SUBSET ToSet(dbc) : claims' = Kept(dbc, ok)
    /\ at' = "scan"
    /\ UNCHANGED <<fence, base, dbc, damm, scan, sdk, withdraws, plan>>

\* The wallet scan and the blockhash.  When the blockhash fails the scan is
\* kept although the SDK is not used.  (The positions synthesized from the
\* scan are assigned after `filtered` was taken and have no effect.)
Scanned ==
    /\ at = "scan"
    /\ \E S \in SUBSET Withdraw : scan' \in [S -> BOOLEAN]
    /\ sdk' \in BOOLEAN
    /\ at' = "withdraws"
    /\ UNCHANGED <<fence, base, dbc, damm, claims, withdraws, plan>>

\* Every candidate is built by the SDK if its account was scanned, otherwise or
\* after a failure by the server; one that both fail is left out.
WithdrawsBuilt ==
    /\ at = "withdraws"
    /\ \E ok \in SUBSET {t \in ToSet(Candidates) : Encodable(base)} :
        withdraws' = Kept(Candidates, ok)
    /\ at' = "order"
    /\ UNCHANGED <<fence, base, dbc, damm, scan, sdk, claims, plan>>

Finished ==
    /\ at = "order"
    /\ plan' = Ordered(claims, withdraws)
    /\ at' = "done"
    /\ UNCHANGED <<fence, base, dbc, damm, scan, sdk, claims, withdraws>>

Next == Discovered \/ ClaimsBuilt \/ Scanned \/ WithdrawsBuilt \/ Finished

Spec == Init /\ [][Next]_vars

-----------------------------------------------------------------------------
TypeOK ==
    /\ fence \in Fences
    /\ at \in {"discovery", "claims", "scan", "withdraws", "order", "done"}
    /\ base \in Bases
    /\ ToSet(dbc) \subseteq Claim /\ ToSet(claims) \subseteq Claim
    /\ ToSet(damm) \subseteq Withdraw /\ ToSet(withdraws) \subseteq Withdraw
    /\ DOMAIN scan \subseteq Withdraw
    /\ sdk \in BOOLEAN
    /\ ToSet(plan) \subseteq Task

\* What UniversalExit assumes of its plan: the algorithm delivers every built
\* task once, pools one after the other, claims before withdrawals.
PlanIsOrdered ==
    at = "done" =>
        /\ IsPlan(plan)
        /\ ToSet(plan) = ToSet(claims) \cup ToSet(withdraws)

\* Nothing outside the fence, and nothing the wallet scan shows as closed or
\* foreign, is withdrawn.
WithdrawalsAreOpen ==
    \A t \in ToSet(plan) \cap Withdraw :
        /\ fence # {} => PoolOf[t] \in fence
        /\ DOMAIN scan # {} => t \in DOMAIN scan /\ scan[t]
        /\ PoolOf[t] # NoPool

\* A plan is made of positions, and withdraws what is open and in the fence.
PlanIsSound == TypeOK /\ WithdrawalsAreOpen

\* A retry never offers a lower priority than the attempt before it, and none
\* exceeds the cap, from 2117 micro-lamports on (below, rounding the third
\* step down to a thousand can undo the uplift).
RetriesPayMore ==
    (ToSet(plan) \cap Withdraw # {} /\ base >= 2117) =>
        LET s == Steps(base) IN s[1] =< s[2] /\ s[2] =< s[3] /\ s[3] =< Cap
=============================================================================
