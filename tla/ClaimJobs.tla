----------------------------- MODULE ClaimJobs ------------------------------
(***************************************************************************)
(* The claim jobs of the studio (actions/dbc/claim_*.ts): for each base    *)
(* mint of a list they claim trading fees through the library or the SDK,  *)
(* or leftovers through whatever entry point the SDK has, catch what goes  *)
(* wrong with one mint, go on with the next, and report at the end.        *)
(*                                                                         *)
(* job[k].list is BASE_MINTS.  What a mint owes is <<"owed", mint, n>>     *)
(* (trading fees: 0, 1 is below MIN_SOL_THRESHOLD, 2 is not) or            *)
(* <<"left", mint>>; <<"curve", mint>> says that its pool is found.        *)
(***************************************************************************)
EXTENDS Calls

CONSTANTS
    Candidates,     \* entry points of the SDK that claim_leftovers.ts finds
    SdkAttempts     \* attempts of the SDK claim, 3 in the code

ASSUME CandidatesAssumption == Candidates \in Nat \ {0} /\ SdkAttempts \in Nat \ {0}

Threshold == 2
Unknown == 3        \* Number.MAX_SAFE_INTEGER: above every fee that was read
ClaimCommands == {"claimList", "claimAuto", "claimSdk", "claimLeftovers"}
ClaimPlaces == {"claims", "claimNext", "claimed", "libFailed", "sdkExpired", "sdkFailed", "tryEntry"}

Verdict == {"claimed", "failed", "skipped", "noop"}
Verdicts(k, m) == {v \in Verdict : <<v, m>> \in seen[k]}
Mints(k) == {job[k].list[i] : i \in DOMAIN job[k].list}
Left(k) == {m \in Mints(k) : Verdicts(k, m) = {}}
Fee(k, m) == CHOOSE n \in 0..Unknown : <<"fee", m, n>> \in seen[k]
Current(k) == CHOOSE m \in Mints(k) : <<"current", m>> \in seen[k]

\* What the loop does with one mint, and then with the next.
Settle(k, m, verdict) ==
    /\ seen' = [seen EXCEPT ![k] = (@ \ {<<"current", m>>}) \cup {<<verdict, m>>}]
    /\ Goto(k, "claimNext")
Take(k, m) == Keep(k, {<<"current", m>>})

-----------------------------------------------------------------------------
(* The jobs.                                                               *)

\* claim_trading_fee.ts, and claim_leftovers.ts with its lists from the
\* environment.
StartList(k) ==
    /\ At(k, "claims") /\ job[k].cmd \in {"claimList", "claimLeftovers"} /\ Nothing
    /\ Goto(k, "claimNext")

\* claim_trading_fee_auto.ts: the pools on chain that name this wallet, or,
\* when they cannot be discovered, the mints of the environment.
StartAuto(k) ==
    /\ At(k, "claims") /\ job[k].cmd = "claimAuto"
    /\ \/ Keep(k, {<<"skipped", m>> : m \in {n \in Mints(k) : <<"curve", n>> \notin facts}})
       \/ Keep(k, {<<"fallback", 0>>})
    /\ Goto(k, "claimNext")

\* claim_trading_fee_sdk.ts reads what every mint owes, or fails to.
StartSdk(k) ==
    /\ At(k, "claims") /\ job[k].cmd = "claimSdk"
    /\ \E unread \in SUBSET Mints(k) :
          Keep(k, {<<"fee", z[1], IF z[1] \in unread THEN Unknown ELSE z[2]>> :
                      z \in {y \in Mints(k) \X (0..2) : <<"owed", y[1], y[2]>> \in facts}})
    /\ Goto(k, "claimNext")

\* The mint whose turn it is: as listed, or the one with the highest fee.
Turn(k, m) ==
    /\ m \in Left(k)
    /\ IF job[k].cmd = "claimSdk" THEN \A n \in Left(k) : Fee(k, n) <= Fee(k, m)
       ELSE \E i \in DOMAIN job[k].list :
               m = job[k].list[i] /\ \A j \in 1..(i - 1) : job[k].list[j] \notin Left(k)

\* claimTradingFee of lib/dbc, whose own retries StudioDbc has.
LibClaim(k, m) ==
    [Bare(k, "claimTradingFee") EXCEPT
        !.needs = {<<"curve", m>>}, !.makes = {<<"paid", m, k>>, <<"owed", m, 0>>},
        !.drops = {<<"owed", m, n>> : n \in 1..2}]
SdkClaim(k, m, n) == [LibClaim(k, m) EXCEPT !.op = "sdkClaim", !.att = n, !.real = TRUE]

\* The library does not read the error of what was executed (StudioDbc).
Slip_NothingRead(k) == CaughtAs("claimed")
LibCatch(k) == [CaughtAs("libFailed") EXCEPT !.failed = "claimed"]

\* "DBC Pool not found" is thrown before anything is sent.
ClaimByLib(k) ==
    /\ At(k, "claimNext") /\ job[k].cmd # "claimLeftovers"
    /\ \E m \in Mints(k) :
          /\ Turn(k, m)
          /\ job[k].cmd = "claimSdk" => Fee(k, m) >= Threshold
          /\ IF <<"curve", m>> \in facts
             THEN /\ Take(k, m)
                  /\ Try(k, <<{LibClaim(k, m)}>>, "claimed", LibCatch(k)) /\ UNCHANGED <<facts, round>>
             ELSE Settle(k, m, "failed")

\* No fee, or less than MIN_SOL_THRESHOLD.
SkipMint(k) ==
    /\ At(k, "claimNext") /\ job[k].cmd = "claimSdk"
    /\ \E m \in Mints(k) : Turn(k, m) /\ Fee(k, m) < Threshold /\ Settle(k, m, "skipped")

Claimed(k) ==
    /\ At(k, "claimed")
    /\ Settle(k, Current(k), "claimed")

\* An expired blockhash, or a refusal that may be for it, is told apart.
SdkCatch == [CaughtAs("sdkFailed") EXCEPT !.expired = "sdkExpired", !.send = "sdkExpired"]

\* The jobs count a failure; the SDK job first tries the SDK's own claim,
\* which it sends for good whether or not dryRun is set.
LibFailed(k) ==
    /\ At(k, "libFailed")
    /\ IF job[k].cmd = "claimSdk"
       THEN /\ Try(k, <<{SdkClaim(k, Current(k), 1)}>>, "claimed", SdkCatch)
            /\ round' = [round EXCEPT ![k] = 1]
            /\ UNCHANGED facts /\ Nothing
       ELSE Settle(k, Current(k), "failed")

\* Once more with a new blockhash.
SdkRetry(k) ==
    /\ At(k, "sdkExpired") /\ round[k] < SdkAttempts /\ Nothing
    /\ Try(k, <<{SdkClaim(k, Current(k), round[k] + 1)}>>, "claimed", SdkCatch)
    /\ round' = [round EXCEPT ![k] = @ + 1]
    /\ UNCHANGED facts
SdkGivesUp(k) ==
    /\ At(k, "sdkFailed") \/ At(k, "sdkExpired")
    /\ Settle(k, Current(k), "failed")

-----------------------------------------------------------------------------
(* claim_leftovers.ts                                                      *)

LeftoverTx(k, m, entry) ==
    [Bare(k, "claimLeftover") EXCEPT !.att = entry,
        !.needs = {<<"left", m>>}, !.drops = {<<"left", m>>}, !.makes = {<<"received", m>>}]

NextLeftover(k) ==
    /\ At(k, "claimNext") /\ job[k].cmd = "claimLeftovers"
    /\ \E m \in Mints(k) : Turn(k, m) /\ Take(k, m)
    /\ Try(k, <<>>, "tryEntry", Uncaught)
    /\ round' = [round EXCEPT ![k] = 1]
    /\ UNCHANGED facts

\* The entry point says there is nothing to claim.
NothingLeft(k) ==
    /\ At(k, "tryEntry") /\ round[k] <= Candidates
    /\ <<"left", Current(k)>> \notin facts
    /\ Settle(k, Current(k), "noop")

\* sendGeneric: the same bytes up to three times; a send that fails moves on
\* to the next entry point, a confirmation that fails is ignored.
TryEntry(k) ==
    /\ At(k, "tryEntry") /\ round[k] <= Candidates /\ Nothing
    /\ <<"left", Current(k)>> \in facts
    /\ Try(k, <<{LeftoverTx(k, Current(k), round[k])}>>, "claimed",
           [CaughtAs("claimed") EXCEPT !.send = "tryEntry"])
    /\ round' = [round EXCEPT ![k] = @ + 1]
    /\ UNCHANGED facts

NoEntryLeft(k) ==
    /\ At(k, "tryEntry") /\ round[k] > Candidates
    /\ Settle(k, Current(k), "failed")

-----------------------------------------------------------------------------
AnyFailed(k) == \E m \in Mints(k) : "failed" \in Verdicts(k, m)
NoneClaimed(k) == \A m \in Mints(k) : "claimed" \notin Verdicts(k, m)

\* process.exit(1): a failure, except in the fallback of the auto job, which
\* is content with one success, and for leftovers, which never fail.
ExitsWithError(k) ==
    CASE job[k].cmd = "claimLeftovers" -> FALSE
      [] <<"fallback", 0>> \in seen[k] -> NoneClaimed(k)
      [] OTHER -> AnyFailed(k)
FinishClaims(k) ==
    /\ At(k, "claimNext") /\ Left(k) = {} /\ Nothing
    /\ Goto(k, IF ExitsWithError(k) THEN "stopped" ELSE "returned")

ClaimStep(k) ==
    \/ StartList(k) \/ StartAuto(k) \/ StartSdk(k) \/ ClaimByLib(k) \/ SkipMint(k) \/ Claimed(k)
    \/ LibFailed(k) \/ SdkRetry(k) \/ SdkGivesUp(k)
    \/ NextLeftover(k) \/ NothingLeft(k) \/ TryEntry(k) \/ NoEntryLeft(k) \/ FinishClaims(k)

-----------------------------------------------------------------------------
\* "Success" for a mint means that its fee was paid by a transaction of this
\* very run, although a failed claim of the library is followed by others.
\* (Claimed leftovers are only known to have been sent.)
ClaimedIsPaid ==
    \A k \in Call : \A m \in Mints(k) :
       job[k].cmd \in ClaimCommands \ {"claimLeftovers"} /\ ~job[k].dry
       /\ "claimed" \in Verdicts(k, m) => <<"paid", m, k>> \in facts

\* A job that exits with 0 has one verdict for every mint of its list, and no
\* failure among them, unless it is in the fallback or claims leftovers.
GreenMeansAllClaimed ==
    \A k \in Call : At(k, "returned") /\ job[k].cmd \in ClaimCommands =>
       /\ \A m \in Mints(k) : Cardinality(Verdicts(k, m)) = 1
       /\ job[k].cmd # "claimLeftovers" /\ <<"fallback", 0>> \notin seen[k] => ~AnyFailed(k)
=============================================================================
