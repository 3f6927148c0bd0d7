---------------------------- MODULE PoolSeeding -----------------------------
(***************************************************************************)
(* The studio commands that make a pool and fill it: a base token and a    *)
(* DLMM, DAMM v1 or DAMM v2 pool (followed by its vault, if configured),   *)
(* the two ways to seed a DLMM pool, and locking the LP of a DAMM v1 pool  *)
(* (lib/dlmm, lib/damm_v1, lib/damm_v2 up to createDammV2BalancedPool,     *)
(* helpers/token.ts and the actions that call them).                       *)
(***************************************************************************)
EXTENDS VaultRollout

CONSTANTS
    Groups,     \* how many bin arrays and positions a curve needs
    LpUnits     \* LP tokens a new DAMM v1 pool mints to its payer

ASSUME SeedingAssumption == Groups \in Nat /\ LpUnits \in Nat

PoolPlaces == {"newPool", "seedLfg", "lookForPool", "farm", "lock", "status", "singleBin"}

theSupply(k) == <<"supply", PoolOf(k)>>
Starts(k, command) == job[k].cmd = command /\ At(k, command)

-----------------------------------------------------------------------------
(* A token and its pool.                                                   *)

\* createTokenMint: not under dryRun; a mint of a new key pair, the wallet's
\* account for it and the whole supply, each awaited before the next.
CreateTokenMint(k) ==
    /\ Starts(k, "createPool") /\ job[k].newMint /\ Nothing
    /\ IF job[k].dry THEN Goto(k, "stopped")
       ELSE Send(k, << {Creates(k, "mint", {}, {<<"mint", k>>})},
                       {Creates(k, "ata", {<<"mint", k>>}, {<<"ata", k>>})},
                       {Creates(k, "mintTo", {<<"ata", k>>}, {theSupply(k)})} >>, "newPool")
UseMint(k) ==
    /\ Starts(k, "createPool") /\ ~job[k].newMint /\ Nothing
    /\ Goto(k, "newPool")

\* A pool is one transaction that needs the base token of the wallet.  What
\* the wallet holds of it afterwards depends on the program: nothing that can
\* be locked (DLMM, seeded later), LP tokens (DAMM v1), a position (DAMM v2).
InitPool(k, program, holds) ==
    Creates(k, program, {theSupply(k)}, {thePool(k)} \cup holds)
createPermissionlessDlmmPool(k) == InitPool(k, "dlmm", {})
createDammV1Pool(k) == InitPool(k, "dammV1", {<<"lpAccount", PoolOf(k)>>} \cup {<<"lp", PoolOf(k), i>> : i \in 1..LpUnits})
createDammV2OneSidedPool(k) == InitPool(k, "oneSided", {<<"poolPosition", PoolOf(k)>>})
createDammV2BalancedPool(k) ==
    [InitPool(k, "balanced", {<<"poolPosition", PoolOf(k)>>}) EXCEPT !.needs = @ \cup {<<"quote", 0>>}]
PoolTx(k) ==
    CASE job[k].pool = "dlmm" -> createPermissionlessDlmmPool(k)
      [] job[k].pool = "dammV1" -> createDammV1Pool(k)
      [] job[k].pool = "oneSided" -> createDammV2OneSidedPool(k)
      [] job[k].pool = "balanced" -> createDammV2BalancedPool(k)

\* hasAlphaVault: createAlphaVault follows.
CreatePool(k) ==
    /\ At(k, "newPool") /\ Nothing
    /\ Send(k, <<{PoolTx(k)}>>, IF job[k].vault = "none" THEN "returned" ELSE "vault")

-----------------------------------------------------------------------------
(* DLMM.                                                                   *)

\* DLMM.create throws when there is no pool.
NoPool(k) ==
    /\ job[k].cmd \in {"seedLfg", "singleBin", "status", "farm"} /\ At(k, job[k].cmd)
    /\ thePool(k) \notin facts
    /\ Nothing /\ Goto(k, "stopped")

\* The first transactions of seedLiquidityLfg ignore dryRun; a new base key
\* pair makes its positions new ones in every run.
Prove(k) == [Bare(k, "prove") EXCEPT !.makes = {<<"proven", 0>>}, !.real = TRUE]
Inits(k) ==
    {[Creates(k, "initBins", {thePool(k), <<"proven", 0>>}, {<<"bins", k, i>>}) EXCEPT !.real = TRUE]
        : i \in 1..Groups}
Deposits(k) ==
    [i \in 1..Groups |->
        {[Creates(k, "deposit", {<<"bins", k, i>>}, {<<"seeded", k, i>>}) EXCEPT !.real = TRUE]}]

\* The owner's token account decides whether a proof of ownership is sent
\* first (then dryRun throws); all positions are made at once, and the
\* deposits go one by one when every one of them is there.
SeedLiquidityLfg(k) ==
    /\ Starts(k, "seedLfg") /\ Nothing
    /\ thePool(k) \in facts
    /\ LET prove == job[k].seedToken /\ <<"proven", 0>> \notin facts IN
         IF prove /\ job[k].dry THEN Goto(k, "stopped")
         ELSE Send(k, (IF prove THEN <<{Prove(k)}>> ELSE <<>>) \o <<Inits(k)>> \o Deposits(k), "returned")

SeedLiquiditySingleBin(k) ==
    /\ Starts(k, "singleBin") /\ Nothing
    /\ thePool(k) \in facts
    /\ Send(k, <<{Creates(k, "singleBin", {thePool(k)}, {<<"seeded", k, 0>>})}>>, "returned")

SetPoolStatus(k) ==
    /\ Starts(k, "status") /\ Nothing
    /\ thePool(k) \in facts
    /\ Send(k, <<{[Bare(k, "status") EXCEPT !.needs = {thePool(k)}, !.makes = {<<"enabled", 0>>}]}>>,
            "returned")

-----------------------------------------------------------------------------
(* DAMM v1.                                                                *)

\* The stake-to-earn farm of an existing pool, unless there is one.
CreateFarm(k) ==
    /\ Starts(k, "farm") /\ Nothing
    /\ thePool(k) \in facts
    /\ LET farm == <<"farm", PoolOf(k)>> IN
         IF farm \in facts THEN Return(k)
         ELSE Send(k, <<{Creates(k, "farm", {thePool(k)}, {farm})}>>, "returned")

\* fromAllocationsToAmount: rounded down, the remainder to the last.
Sums(s) == LET sum[n \in 0..Len(s)] == IF n = 0 THEN 0 ELSE sum[n - 1] + s[n] IN sum
SumOf(s) == Sums(s)[Len(s)]
Slip_LastByItsShare(lpAmount, percents) ==
    [j \in DOMAIN percents |-> (lpAmount * percents[j]) \div SumOf(percents)]
fromAllocationsToAmount(lpAmount, percents) ==
    LET share == [j \in DOMAIN percents |-> (lpAmount * percents[j]) \div SumOf(percents)]
    IN [share EXCEPT ![Len(share)] = lpAmount - Sums(share)[Len(share) - 1]]

\* One transaction per allocation takes its amount out of the balance.
LockTx(k, j, amount) ==
    [Bare(k, "lock") EXCEPT !.att = j,
        !.takes = <<PoolOf(k), amount>>, !.makes = {<<"lpLock", k, j, amount>>}]

\* payerPoolLpBalance, read once; the amounts are fixed by it, and the
\* transactions follow one by one.
Balance(k) == Cardinality({f \in facts : f[1] = "lp" /\ f[2] = PoolOf(k)})
LockAll(k) ==
    LET amount == fromAllocationsToAmount(Balance(k), job[k].alloc) IN
    /\ <<"lpAccount", PoolOf(k)>> \in facts
    /\ SumOf(job[k].alloc) \in 1..100
    /\ Keep(k, {<<"balance", Balance(k)>>})
    /\ Send(k, [j \in DOMAIN amount |-> {LockTx(k, j, amount[j])}], "returned")

LockLiquidity(k) == Starts(k, "lock") /\ LockAll(k)
\* The allocations must name the farm's fee vault.
LockLiquidityStake2Earn(k) == Starts(k, "lockStake") /\ job[k].feeVaultListed /\ LockAll(k)

\* No LP token account to read a balance from, percentages that do not add up,
\* or no fee vault in the list.
LockRefused(k) ==
    /\ Starts(k, "lock") \/ Starts(k, "lockStake")
    /\ \/ <<"lpAccount", PoolOf(k)>> \notin facts
       \/ SumOf(job[k].alloc) \notin 1..100
       \/ job[k].cmd = "lockStake" /\ ~job[k].feeVaultListed
    /\ Nothing /\ Goto(k, "stopped")

PoolStep(k) ==
    \/ CreateTokenMint(k) \/ UseMint(k) \/ CreatePool(k) \/ NoPool(k)
    \/ SeedLiquidityLfg(k) \/ SeedLiquiditySingleBin(k) \/ SetPoolStatus(k)
    \/ CreateFarm(k) \/ LockLiquidity(k) \/ LockLiquidityStake2Earn(k) \/ LockRefused(k)

-----------------------------------------------------------------------------
\* A lock command that returns has locked every LP token it had counted, and no
\* allocation got less than its percentage rounded down, also when a rival call
\* or the late transactions of a stopped one took from the same balance.
LockedAsAllocated ==
    \A k \in Call : \A b \in 0..LpUnits :
       /\ At(k, "returned") /\ job[k].cmd \in {"lock", "lockStake"} /\ ~job[k].dry
       /\ <<"balance", b>> \in seen[k]
       => \E amount \in [DOMAIN job[k].alloc -> 0..b] :
             /\ SumOf(amount) = b
             /\ \A j \in DOMAIN amount :
                   /\ <<"lpLock", k, j, amount[j]>> \in facts
                   /\ (amount[j] + 1) * SumOf(job[k].alloc) > b * job[k].alloc[j]

\* No transaction of a call is refused for what another transaction of the
\* same call, already on its way, is to make: inits before deposits, a mint
\* before its supply, a pool before its vault, a position before its share.
NeverAheadOfItself ==
    [][\A k \in Call : Refused(k) =>
          \A x \in Batch(k), y \in pending :
             y.by = k => y.makes \cap (x.needs \ facts) = {}]_<<facts, processVars>>
=============================================================================
