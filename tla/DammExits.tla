----------------------------- MODULE DammExits ------------------------------
(***************************************************************************)
(* The DAMM v2 exits of the site: all positions of a wallet                *)
(* (useDammV2ExitAll and /api/dammv2-exit-all), one position               *)
(* (/api/dammv2-exit), and the largest LP balance (OneClickExitAutoButton  *)
(* and /api/exit-auto).  The routes read the chain and answer an unsigned  *)
(* transaction; the wallet signs it some time later.                       *)
(*                                                                         *)
(* What the SDK lists for an owner are positions of that owner, so that    *)
(* the reason owner-mismatch never applies; migratedOnly and the priority  *)
(* choose among positions and prices and are left out.                     *)
(***************************************************************************)
EXTENDS SitePages, SequencesExt

CONSTANT LpPool     \* pools with a fungible LP token (DAMM v1 style keys)

mine == getUserPositionByPool("wallet")

\* removeAllLiquidity takes what is unlocked when it is executed; the hook asks
\* for no thresholds.
RemoveAllTx(k, i, p) ==
    [OnOpen(k, "removeAll", p) EXCEPT
        !.att = i, !.makes = {Done(k, i)}, !.drops = Free(p, Liquidity(p))]

-----------------------------------------------------------------------------
(* All positions.                                                          *)

\* run() of the last render; nothing keeps it from starting next to another.
OpenExitAll(k) ==
    /\ At(k, "exitAll")
    /\ Keep(k, IF page.flag THEN {<<"abortFlag", 0>>} ELSE {})
    /\ page' = [page EXCEPT !.busy = TRUE, !.flag = FALSE, !.rows = <<>>]
    /\ Goto(k, "listing") /\ UNCHANGED built

ExitAllFails(k) ==
    /\ \/ At(k, "listing")
       \/ At(k, "signing") /\ job[k].cmd = "exitAll"
    /\ Rest(k) /\ Nothing

\* Skipped: positions with vestings or without liquidity, and those for which
\* the SDK builds nothing (or, simulated, something that fails).
Skips(p, broken) == Vested(p, facts) # {} \/ Free(p, facts) = {} \/ p \in broken

\* A set of places in their order (there is one way).
Slip_AsTheyAreBuilt(places) ==
    {line \in [1..Cardinality(places) -> places] : \A i, j \in DOMAIN line : i # j => line[i] # line[j]}
Lines(places) ==
    {line \in [1..Cardinality(places) -> places] : \A i, j \in DOMAIN line : i < j => line[i] < line[j]}

\* The answer: one row per position, one transaction per position not skipped.
\* A simulation is shown and leaves the page busy.
ListPositions(k) ==
    /\ At(k, "listing")
    /\ \E broken \in SUBSET mine :
          LET list == SetToSeq(mine)
              kept == {i \in DOMAIN list : ~Skips(list[i], broken)}
          IN /\ page' = [page EXCEPT
                   !.rows = [i \in DOMAIN list |->
                       Row(k, <<"open", list[i]>>, IF i \in kept THEN "built" ELSE "skipped")],
                   !.busy = IF job[k].dry \/ kept # {} THEN @ ELSE FALSE]
             /\ \E line \in Lines(kept) :
                   built' = [built EXCEPT ![k] = [i \in DOMAIN line |-> RemoveAllTx(k, i, list[line[i]])]]
             /\ Goto(k, IF job[k].dry \/ kept = {} THEN "returned" ELSE "signing")
    /\ Nothing

SignExitAll(k) ==
    /\ At(k, "signing") /\ job[k].cmd = "exitAll"
    /\ GotoRow(k, "rows", 1) /\ UNCHANGED pageVars

-----------------------------------------------------------------------------
(* One position.                                                           *)

NoPositionForPool(k) ==
    /\ At(k, "exitOne")
    /\ IF job[k].position = "any" THEN mine = {} ELSE job[k].position \notin mine
    /\ Goto(k, "stopped") /\ Nothing /\ UNCHANGED pageVars

\* The position asked for, or the one with the most liquidity.
PickPosition(k) ==
    /\ At(k, "exitOne")
    /\ \E p \in mine :
          /\ IF job[k].position = "any"
             THEN \A q \in mine : Cardinality(Free(q, facts)) <= Cardinality(Free(p, facts))
             ELSE p = job[k].position
          /\ Keep(k, {<<"chosen", p>>} \cup (State(p) \cap facts))
    /\ Goto(k, "picked") /\ UNCHANGED pageVars

\* liquidity.mul(percent): mul of a BN throws for a number, and the catch leaves
\* the full amount.
liquidityDelta(k) == Free(Chosen(k), seen[k])

RemoveTx1(k, p) ==
    IF job[k].percent = 100 THEN RemoveAllTx(k, 1, p)
    ELSE [OnOpen(k, "removeSome", p) EXCEPT
            !.needs = @ \cup liquidityDelta(k), !.drops = liquidityDelta(k), !.makes = {Done(k, 1)}]

\* With the thresholds of a withdraw quote, or without when it cannot be had.
BuildExit(k) ==
    /\ At(k, "picked") /\ Nothing
    /\ \E quoted \in BOOLEAN :
          LET tx == RemoveTx1(k, Chosen(k))
          IN Send(k, <<{[tx EXCEPT !.needs = @ \cup (IF quoted THEN Prices \cap facts ELSE {})]}>>, "returned")
    /\ UNCHANGED pageVars

-----------------------------------------------------------------------------
(* The largest LP balance.                                                 *)

Lps(n) == {f \in facts : f[1] = "lp" /\ f[2] = n}
LpTx(k, i, n, amount) == [Bare(k, "removeLp") EXCEPT !.att = i, !.takes = <<n, amount>>, !.makes = {Done(k, i)}]
Amount(k) == CHOOSE z \in {<<f[2], f[3]>> : f \in {g \in seen[k] : g[1] = "amount"}} : TRUE

\* The button is disabled while it is loading.
OpenExitAuto(k) ==
    /\ At(k, "exitAuto") /\ ~page.busy
    /\ page' = [page EXCEPT !.busy = TRUE]
    /\ Goto(k, "findLp") /\ Nothing /\ UNCHANGED built

\* Accounts whose pool cannot be resolved are passed over.
findBestDammLpAndPool(k) ==
    /\ At(k, "findLp")
    /\ \E known \in SUBSET LpPool : \E n \in known :
          /\ Lps(n) # {}
          /\ \A other \in known : Cardinality(Lps(other)) <= Cardinality(Lps(n))
          /\ Keep(k, {<<"amount", n, Cardinality(Lps(n))>>})
    /\ Goto(k, "signLp") /\ UNCHANGED pageVars

\* No LP, a failed request, a refusal of the wallet.
ExitAutoFails(k) ==
    /\ At(k, "findLp") \/ At(k, "signLp")
    /\ Rest(k) /\ Nothing

\* The wallet sends; nobody waits for the outcome.
SubmitLp(k) ==
    /\ At(k, "signLp") /\ Nothing
    /\ LET tx == LpTx(k, 1, Amount(k)[1], Amount(k)[2]) IN
         /\ Fits(tx)
         /\ pending' = pending \cup {tx}
    /\ at' = [at EXCEPT ![k] = "returned"]
    /\ page' = [page EXCEPT !.busy = FALSE]
    /\ UNCHANGED <<facts, fate, job, todo, stage, round, rescue, built>>

DammExitStep(k) ==
    \/ OpenExitAll(k) \/ ExitAllFails(k) \/ ListPositions(k) \/ SignExitAll(k)
    \/ NoPositionForPool(k) \/ PickPosition(k) \/ BuildExit(k)
    \/ OpenExitAuto(k) \/ findBestDammLpAndPool(k) \/ ExitAutoFails(k) \/ SubmitLp(k)

-----------------------------------------------------------------------------
\* An exit of less than 100 percent leaves some of the liquidity it has read.
PercentLeavesTheRest ==
    \A k \in Call : job[k].cmd = "exitOne" /\ job[k].percent < 100 /\ IsDone(k, 1) =>
       Free(Chosen(k), seen[k]) \cap facts # {}
=============================================================================
