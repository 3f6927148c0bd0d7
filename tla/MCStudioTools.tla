--------------------------- MODULE MCStudioTools ----------------------------
(* Small instances of StudioTools.                                         *)
EXTENDS StudioTools, TLC

CONSTANTS k1, k2, p1, p2, n1, n2, u1, u2, u3, m1, m2

MCNewPosition == k1 :> n1 @@ k2 :> n2

Plain == [cmd |-> "close", dry |-> FALSE, owner |-> "wallet", vault |-> "none", list |-> <<>>,
          fcfs |-> TRUE, upload |-> FALSE, newMint |-> FALSE, pool |-> "dlmm", after |-> {},
          seedToken |-> TRUE, alloc |-> <<50, 30, 20>>, feeVaultListed |-> TRUE]

Pair(a, b) == k1 :> a @@ k2 :> b
\* Two commands next to each other, or the second when the first is over.
Beside(as, bs, chains) == {[job |-> Pair(a, b), facts |-> c] : a \in as, b \in bs, c \in chains}
Behind(as, bs, chains) == Beside(as, {[b EXCEPT !.after = {k1}] : b \in bs}, chains)

\* A pool with one position of the wallet, or two.
OnePosition == {<<"price", 1>>, <<"open", p1>>, <<"owner", p1, "wallet">>, <<"free", p1, u1>>}
TwoPositions == OnePosition \cup {<<"open", p2>>, <<"owner", p2, "wallet">>, <<"fee", p2>>, <<"vested", p2, u2>>}
Empty == {<<"price", 1>>, <<"open", p1>>, <<"owner", p1, "wallet">>, <<"fee", p1>>}
PositionJob(c) == [Plain EXCEPT !.cmd = c]
PositionInputs ==
    Beside({PositionJob(c) : c \in {"add", "remove", "split"}},
           {PositionJob(c) : c \in PositionCommands}, {OnePosition})
    \cup Behind({PositionJob(c) : c \in PositionCommands}, {PositionJob("close")}, {Empty})
    \cup Behind({PositionJob("remove")}, {PositionJob("remove")}, {TwoPositions})
    \cup Behind({[PositionJob("split") EXCEPT !.owner = "other"]},
                {[PositionJob(c) EXCEPT !.dry = TRUE] : c \in PositionCommands}, {OnePosition})

\* A pool and its mint, before and after the pool is there.
NoPoolYet == {<<"supply", 0>>, <<"quote", 0>>}
WithPool(program) == NoPoolYet \cup {<<"pool", 0, program>>}
VaultJob(v, p) ==
    [Plain EXCEPT !.cmd = "vault", !.vault = v, !.list = <<3, 1, 2>>,
                  !.upload = (v = "merkle"), !.fcfs = (v = "merkle"), !.pool = p]
Vaults == {"permissionless", "authority", "merkle"}
Rollouts(p) == {VaultJob(v, p) : v \in Vaults}
VaultInputs ==
    Behind(Rollouts("dlmm"), Rollouts("dlmm"), {WithPool("dlmm")})
    \cup Beside({VaultJob("merkle", "dlmm")}, {VaultJob("authority", "dlmm")}, {WithPool("dlmm")})
    \cup Behind({[j EXCEPT !.cmd = "createPool"] : j \in Rollouts("oneSided")},
                {[VaultJob("merkle", "oneSided") EXCEPT !.dry = TRUE]}, {NoPoolYet})

Lp == {<<"lpAccount", 0>>} \cup {<<"lp", 0, i>> : i \in 1..5}
PoolJob(c, p) == [Plain EXCEPT !.cmd = c, !.pool = p]
PoolJobs ==
    {[PoolJob("createPool", p) EXCEPT !.newMint = n] : p \in {"dlmm", "dammV1", "balanced"}, n \in BOOLEAN}
    \cup {[PoolJob("createPool", "dlmm") EXCEPT !.newMint = TRUE, !.dry = TRUE]}
OnPool ==
    {PoolJob(c, "dlmm") : c \in {"seedLfg", "singleBin", "status"}}
    \cup {PoolJob(c, "dammV1") : c \in {"farm", "lock", "lockStake"}}
    \cup {[PoolJob("lockStake", "dammV1") EXCEPT !.feeVaultListed = FALSE],
          [PoolJob("lock", "dammV1") EXCEPT !.alloc = <<60, 50>>],
          [PoolJob("seedLfg", "dlmm") EXCEPT !.seedToken = FALSE, !.dry = TRUE],
          [PoolJob("seedLfg", "dlmm") EXCEPT !.dry = TRUE]}
Locks == {j \in OnPool : j.cmd \in {"lock", "lockStake"}}
PoolInputs ==
    Behind(PoolJobs, PoolJobs \cup OnPool, {NoPoolYet})
    \cup Behind({j \in OnPool : ~j.dry}, OnPool, {WithPool("dlmm") \cup WithPool("dammV1") \cup Lp})
    \cup Beside(Locks, Locks, {WithPool("dammV1") \cup Lp})

Owing == {<<"curve", m1>>, <<"curve", m2>>, <<"owed", m1, 2>>, <<"owed", m2, 1>>, <<"left", m1>>}
NoSecondCurve == {<<"curve", m1>>, <<"owed", m1, 2>>, <<"owed", m2, 2>>, <<"left", m1>>, <<"left", m2>>}
ClaimJob(c, l) == [Plain EXCEPT !.cmd = c, !.list = l]
ClaimInputs ==
    Beside({ClaimJob("claimList", <<m1>>)}, {ClaimJob("claimList", <<m1>>)}, {Owing})
    \cup Behind({ClaimJob("claimList", <<m1>>)}, {ClaimJob("claimSdk", <<m1>>)}, {Owing})
    \cup Behind({ClaimJob(c, <<m1>>) : c \in ClaimCommands \ {"claimSdk"}},
                {ClaimJob(c, <<m1, m2>>) : c \in ClaimCommands \ {"claimSdk"}}, {NoSecondCurve})
    \cup Behind({[ClaimJob("claimList", <<m1>>) EXCEPT !.dry = TRUE]},
                {ClaimJob("claimSdk", <<m1, m2>>)}, {Owing, NoSecondCurve})

MCInputs == PositionInputs \cup VaultInputs \cup PoolInputs \cup ClaimInputs
=============================================================================
