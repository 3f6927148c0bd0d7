---------------------------- MODULE ServerExits -----------------------------
(***************************************************************************)
(* The exits the servers build, or send themselves, from LP balances:      *)
(* executeBulletproofDbcExit of dbc-adapter.ts with its attempts, and the  *)
(* routes under pages/api (dammv2/keys, dammv2/exit, exit/build) over      *)
(* dammv2-adapter.ts and dbc-exit-builder.ts.  Who calls them is not in    *)
(* the repository; a caller signs what it is answered and sends it once.   *)
(***************************************************************************)
EXTENDS DammExits, BatchClaims

CONSTANT Attempts       \* maxRetries of sendBulletproofTransaction, 10 in the code

ASSUME AttemptsAssumption == Attempts \in Nat \ {0}

-----------------------------------------------------------------------------
(* The bulletproof exit.                                                   *)

\* scanDbcPositionsUltraSafe has read the balance once and for all; without a
\* builder in the studio's runtime there is no attempt.
ScanLp(k) ==
    /\ At(k, "bulletproof") /\ UNCHANGED pageVars
    /\ \/ Goto(k, "gaveUp") /\ Nothing
       \/ /\ \E n \in {m \in LpPool : Lps(m) # {}} : Keep(k, {<<"amount", n, Cardinality(Lps(n))>>})
          /\ Try(k, <<>>, "attempt", Uncaught)
          /\ round' = [round EXCEPT ![k] = 1]
          /\ UNCHANGED facts

\* The same instructions with a fresh blockhash, whatever went wrong before.
Slip_LateIsSuccess == [CaughtAs("again") EXCEPT !.wait = "success", !.expired = "success"]
AttemptCatch == CaughtAs("again")
Attempt(k) ==
    /\ At(k, "attempt") /\ Nothing
    /\ Try(k, <<{LpTx(k, round[k], Amount(k)[1], Amount(k)[2])}>>, "success", AttemptCatch)
    /\ UNCHANGED <<facts, round, page, built>>

\* The delay doubles and is left out.
Slip_NeverGivesUp(k) ==
    /\ At(k, "again") /\ UNCHANGED pageVars
    /\ GotoRow(k, "attempt", IF round[k] < Attempts THEN round[k] + 1 ELSE round[k])
Again(k) ==
    /\ At(k, "again") /\ UNCHANGED pageVars
    /\ IF round[k] < Attempts THEN GotoRow(k, "attempt", round[k] + 1)
       ELSE Goto(k, "gaveUp") /\ Nothing

Answered(k) ==
    /\ At(k, "success") \/ At(k, "gaveUp")
    /\ Keep(k, {<<"answer", at[k]>>})
    /\ Return(k) /\ UNCHANGED pageVars

-----------------------------------------------------------------------------
(* The routes.                                                             *)

\* /api/dammv2/keys: the pools whose keys can be resolved, or the one of them
\* with the largest balance.
ResolveKeys(k) ==
    /\ At(k, "removeLp") /\ UNCHANGED pageVars
    /\ \E known \in SUBSET LpPool : \E n \in known :
          /\ job[k].largestOnly => \A other \in known : Cardinality(Lps(other)) <= Cardinality(Lps(n))
          /\ Keep(k, {<<"keys", n>>})
    /\ Goto(k, "removeAll")
Keys(k) == CHOOSE n \in LpPool : <<"keys", n>> \in seen[k]

NoKeys(k) ==
    /\ At(k, "removeLp") \/ At(k, "removeAll")
    /\ Goto(k, "stopped") /\ Nothing /\ UNCHANGED pageVars

\* exit/build puts a price instruction before those of the adapter, which has
\* one of its own: a cluster accepts only one.
TwoPrices(tx) == [tx EXCEPT !.needs = {<<"twoPricesAccepted", 0>>}]

\* buildDammV2RemoveAllLpIxs takes the whole balance; dammv2/exit only counts
\* the instructions.
RemoveAllLp(k) ==
    /\ At(k, "removeAll") /\ Nothing /\ UNCHANGED pageVars
    /\ Lps(Keys(k)) # {}
    /\ LET tx == LpTx(k, 1, Keys(k), Cardinality(Lps(Keys(k))))
       IN IF job[k].route = "dammv2/exit" THEN Return(k)
          ELSE Send(k, <<{TwoPrices(tx)}>>, "returned")

\* exit/build for a DBC pool: a claim, or an error when the fee vault or the
\* discriminator is missing.
BuildClaim(k) ==
    /\ At(k, "buildClaim") /\ Nothing /\ UNCHANGED pageVars
    /\ \/ Goto(k, "stopped")
       \/ \E m \in Mint : <<"curve", m>> \in facts /\ Send(k, <<{ClaimFee(k, 1, m, TRUE)}>>, "returned")

ServerStep(k) ==
    ScanLp(k) \/ Attempt(k) \/ Again(k) \/ Answered(k) \/ ResolveKeys(k) \/ NoKeys(k) \/ RemoveAllLp(k) \/ BuildClaim(k)

-----------------------------------------------------------------------------
\* The bulletproof sender answers success only for an exit that was executed,
\* and of all its attempts, late ones included, it was executed exactly once.
SuccessIsOneExit ==
    \A k \in Call : <<"answer", "success">> \in seen[k] =>
       Cardinality({n \in 1..Attempts : IsDone(k, n)}) = 1
=============================================================================
