--------------------------- MODULE DbcInstantExit ---------------------------
(***************************************************************************)
(* The instant exit hook (scaffolds/fun-launch/src/hooks/                  *)
(* useDbcInstantExit.ts): exit() builds, signs, sends and confirms one fee *)
(* claim in up to three attempts of growing priority; abort() and reset()  *)
(* act on the newest AbortController.  Its three callers: the button of    *)
(* DbcOneClickExitButton for one pool, the same button for all pools, and  *)
(* the rows of TokenTable/TxTable.                                         *)
(*                                                                         *)
(* An action is one synchronous stretch between two awaits.  Left out:     *)
(* timings, logs and the wording of errors.                                *)
(***************************************************************************)
EXTENDS Naturals, FiniteSets, Chain

CONSTANTS
    Call,           \* calls of exit() that may be made
    Pool,           \* pools of the wallet
    MaxAttempts,    \* maxAttempts (3 in the code)
    Fractional,     \* attempts whose priority is not a whole number, see Rejected
    Options,        \* option records a caller may pass
    Hosts,          \* components that may hold the hook: the kind of caller and
                    \* which of abort() and reset() it offers
    HasTx,          \* may an answer of /api/dbc-exit have (lack) the field `tx`
    CalmNetwork,    \* TRUE: no request, signature or confirmation fails
    NoCall,         \* abortControllerRef.current = null
    NoTx,           \* no signature in the state
    NoPool          \* a call that has not been made

ASSUME AttemptsAssumption == MaxAttempts \in Nat \ {0}
ASSUME PoolsAssumption == IsFiniteSet(Pool)
ASSUME OptionsAssumption ==
    Options \subseteq [action : {"claim", "withdraw"}, simulate : BOOLEAN, fast : BOOLEAN]
ASSUME HostsAssumption ==
    Hosts \subseteq [caller : {"button", "batch", "table"},
                     controls : SUBSET {"abort", "reset"}]
ASSUME NetworkAssumption ==
    /\ HasTx \subseteq BOOLEAN
    /\ CalmNetwork \in BOOLEAN
ASSUME SentinelAssumption == NoCall \notin Call /\ NoPool \notin Pool

\* A transaction is named by its call and attempt.
Tx == [call : Call, att : 1..MaxAttempts]

VARIABLES
    host,       \* the component this instance of the hook belongs to
    pc,         \* where each call of exit() is suspended
    pool,       \* dbcPoolKeys of each call
    opt,        \* its other options
    att,        \* currentAttempt
    aborted,    \* abortController.signal.aborted of each call
    outcome,    \* how its promise settled
    abortRef,   \* abortControllerRef.current
    ui,         \* the hook's React state
    batch,      \* batchState of the button, and where its loop is
    todo        \* pools the batch loop has not reached

callVars == <<pc, pool, opt, att, outcome>>
batchVars == <<batch, todo>>
vars == <<host, callVars, aborted, abortRef, ui, batchVars, chainVars>>

Busy == {"building", "signing", "sending", "confirming"}
Status == Busy \cup {"idle", "success", "error"}
Place == {"idle", "simulating", "building", "signing", "sending",
          "processed", "confirming", "waiting", "done"}
NoOptions == [action |-> "claim", simulate |-> FALSE, fast |-> FALSE]

Live(c) == pc[c] \notin {"idle", "done"}

TypeOK ==
    /\ host \in Hosts
    /\ pc \in [Call -> Place]
    /\ pool \in [Call -> Pool \cup {NoPool}]
    /\ opt \in [Call -> Options \cup {NoOptions}]
    /\ att \in [Call -> 0..MaxAttempts]
    /\ aborted \in [Call -> BOOLEAN]
    /\ outcome \in [Call -> {"none", "signature", "undefined", "thrown"}]
    /\ abortRef \in Call \cup {NoCall}
    /\ ui \in [status : Status, attempt : 0..MaxAttempts, sig : Tx \cup {NoTx}]
    /\ batch \in [at : {"off", "scanning", "looping"}, total : Nat, done : Nat, errors : Nat]
    /\ todo \subseteq Pool
    /\ sent \subseteq Tx /\ live \subseteq Tx /\ landed \subseteq Tx /\ reverted \subseteq Tx

Fresh(status, n) == [status |-> status, attempt |-> n, sig |-> NoTx]
NoBatch == [at |-> "off", total |-> 0, done |-> 0, errors |-> 0]

Init ==
    /\ host \in Hosts
    /\ pc = [c \in Call |-> "idle"]
    /\ pool = [c \in Call |-> NoPool]
    /\ opt = [c \in Call |-> NoOptions]
    /\ att = [c \in Call |-> 0]
    /\ aborted = [c \in Call |-> FALSE]
    /\ outcome = [c \in Call |-> "none"]
    /\ abortRef = NoCall
    /\ ui = Fresh("idle", 0)
    /\ batch = NoBatch
    /\ todo = {}
    /\ ChainInit

CurrentTx(c) == [call |-> c, att |-> att[c]]

-----------------------------------------------------------------------------
(* The server.                                                             *)

\* POST /api/dbc-exit refuses withdrawals with 501, and setComputeUnitPrice
\* throws on a priority that is no whole number: the clamp of the builder does
\* not round, and in doubles 337500 * 1.35 is 455625.00000000006.
Rejected(c) == opt[c].action = "withdraw" \/ att[c] \in Fractional

-----------------------------------------------------------------------------
(* How exit() goes on.                                                     *)

\* The promise of exit() settles; the batch loop counts it.
Counted(out) ==
    IF host.caller # "batch" THEN batch
    ELSE [batch EXCEPT !.done = @ + 1,
                       !.errors = IF out = "thrown" THEN @ + 1 ELSE @]

Settle(c, out, shown) ==
    /\ pc' = [pc EXCEPT ![c] = "done"]
    /\ outcome' = [outcome EXCEPT ![c] = out]
    /\ ui' = shown
    /\ batch' = Counted(out)
    /\ UNCHANGED att

\* `if (signal.aborted) { setState(error: Aborted); return undefined }`
ReturnAborted(c, shown) ==
    /\ aborted[c]
    /\ Settle(c, "undefined", [shown EXCEPT !.status = "error"])

\* Only the first attempt simulates, and not in fast mode.
FirstAwait(o, n) == IF o.simulate /\ ~o.fast /\ n = 1 THEN "simulating" ELSE "building"

\* The head of the loop body, up to the first fetch of the next attempt.
Slip_AttemptNotCounted(c) ==
    /\ pc' = [pc EXCEPT ![c] = "building"]
    /\ ui' = [ui EXCEPT !.status = "building"]
    /\ UNCHANGED att
NextAttempt(c) ==
    /\ att' = [att EXCEPT ![c] = @ + 1]
    /\ pc' = [pc EXCEPT ![c] = FirstAwait(opt[c], att[c] + 1)]
    /\ ui' = [ui EXCEPT !.status = "building", !.attempt = att[c] + 1]

\* The catch of an attempt, with the state the failing stretch has set.
Slip_ErrorWhileWaiting(c, shown) ==
    \/ ReturnAborted(c, shown)
    \/ /\ ~aborted[c] /\ att[c] >= MaxAttempts
       /\ Settle(c, "thrown", [shown EXCEPT !.status = "error"])
    \/ /\ ~aborted[c] /\ att[c] < MaxAttempts
       /\ pc' = [pc EXCEPT ![c] = "waiting"]
       /\ ui' = [shown EXCEPT !.status = "error"]
       /\ UNCHANGED <<att, outcome, batch>>
AttemptFailed(c, shown) ==
    \/ ReturnAborted(c, shown)
    \/ /\ ~aborted[c] /\ att[c] >= MaxAttempts
       /\ Settle(c, "thrown", [shown EXCEPT !.status = "error"])
    \/ /\ ~aborted[c] /\ att[c] < MaxAttempts
       /\ pc' = [pc EXCEPT ![c] = "waiting"]
       /\ ui' = shown
       /\ UNCHANGED <<att, outcome, batch>>

-----------------------------------------------------------------------------
(* The caller.                                                             *)

\* exit() is called for pool p with options o.
Start(c, p, o) ==
    /\ pc[c] = "idle"
    /\ pool' = [pool EXCEPT ![c] = p]
    /\ opt' = [opt EXCEPT ![c] = o]
    /\ abortRef' = c
    /\ att' = [att EXCEPT ![c] = 1]
    /\ pc' = [pc EXCEPT ![c] = FirstAwait(o, 1)]
    /\ ui' = Fresh("building", 1)
    /\ UNCHANGED <<outcome, aborted, chainVars>>

\* The button is disabled while the state is busy or a batch runs.
ButtonEnabled == ui.status \notin Busy /\ batch.at = "off"

\* One pool is selected.
Click(c) ==
    /\ host.caller = "button"
    /\ ButtonEnabled
    /\ \E p \in Pool, o \in Options : Start(c, p, o)
    /\ UNCHANGED batchVars

\* A row of TxTable is disabled while its own pool exits (exitingPositions is
\* set before the call and cleared in its finally).
RowClick(c) ==
    /\ host.caller = "table"
    /\ \E p \in Pool :
        /\ ~\E d \in Call : Live(d) /\ pool[d] = p
        /\ Start(c, p, NoOptions)
    /\ UNCHANGED batchVars

\* ALL is selected: the positions are scanned first.
BatchClick ==
    /\ host.caller = "batch"
    /\ ButtonEnabled
    /\ batch' = [NoBatch EXCEPT !.at = "scanning"]
    /\ todo' = {}
    /\ UNCHANGED <<callVars, aborted, abortRef, ui, chainVars>>

\* The scan answers with S, the pools that have positions.
BatchScanned ==
    /\ batch.at = "scanning"
    /\ \E S \in SUBSET Pool :
        /\ todo' = S
        /\ batch' = IF S = {} THEN NoBatch
                    ELSE [NoBatch EXCEPT !.at = "looping", !.total = Cardinality(S)]
    /\ UNCHANGED <<callVars, aborted, abortRef, ui, chainVars>>

BatchScanFailed ==
    /\ batch.at = "scanning"
    /\ ~CalmNetwork
    /\ batch' = [batch EXCEPT !.at = "off"]
    /\ UNCHANGED <<todo, callVars, aborted, abortRef, ui, chainVars>>

\* `await exit(...)` for the next pool of the loop.
BatchCall(c) ==
    /\ batch.at = "looping"
    /\ ~\E d \in Call : Live(d)
    /\ \E p \in todo, o \in Options :
        /\ Start(c, p, o)
        /\ todo' = todo \ {p}
    /\ UNCHANGED batch

Slip_WaitForAllWell ==
    /\ batch.at = "looping"
    /\ batch.done - batch.errors = batch.total
    /\ batch' = [batch EXCEPT !.at = "off"]
    /\ UNCHANGED <<todo, callVars, aborted, abortRef, ui, chainVars>>
BatchDone ==
    /\ batch.at = "looping"
    /\ todo = {}
    /\ ~\E d \in Call : Live(d)
    /\ batch' = [batch EXCEPT !.at = "off"]
    /\ UNCHANGED <<todo, callVars, aborted, abortRef, ui, chainVars>>

\* abort(): the newest controller, and the state at once.
Abort ==
    /\ "abort" \in host.controls
    /\ aborted' = [c \in Call |-> aborted[c] \/ c = abortRef]
    /\ ui' = [ui EXCEPT !.status = "error"]
    /\ UNCHANGED <<callVars, abortRef, batchVars, chainVars>>

\* reset(): the same controller, forgotten, and an empty state.
Reset ==
    /\ "reset" \in host.controls
    /\ aborted' = [c \in Call |-> aborted[c] \/ c = abortRef]
    /\ abortRef' = NoCall
    /\ ui' = Fresh("idle", 0)
    /\ UNCHANGED <<callVars, batchVars, chainVars>>

-----------------------------------------------------------------------------
(* One attempt.                                                            *)

\* The simulation answers without an error.  (An aborted fetch rejects.)
Simulated(c) ==
    /\ pc[c] = "simulating"
    /\ ~aborted[c] /\ ~Rejected(c)
    /\ pc' = [pc EXCEPT ![c] = "building"]
    /\ UNCHANGED <<pool, opt, att, outcome, aborted, abortRef, ui, batchVars, chainVars>>

\* The build answers: with `tx` the wallet is asked; without it the
\* deserialization throws, once the state says signing.
Slip_FetchWithoutSignal(c) ==
    /\ pc[c] = "building"
    /\ ~Rejected(c)
    /\ pc' = [pc EXCEPT ![c] = "signing"]
    /\ ui' = [ui EXCEPT !.status = "signing"]
    /\ UNCHANGED <<att, outcome, batch>>
    /\ UNCHANGED <<pool, opt, aborted, abortRef, todo, chainVars>>
Built(c) ==
    /\ pc[c] = "building"
    /\ ~aborted[c] /\ ~Rejected(c)
    /\ \/ /\ TRUE \in HasTx
          /\ pc' = [pc EXCEPT ![c] = "signing"]
          /\ ui' = [ui EXCEPT !.status = "signing"]
          /\ UNCHANGED <<att, outcome, batch>>
       \/ /\ FALSE \in HasTx
          /\ AttemptFailed(c, [ui EXCEPT !.status = "signing"])
    /\ UNCHANGED <<pool, opt, aborted, abortRef, todo, chainVars>>

\* A fetch of an attempt fails: refused by the server, aborted, or lost.
FetchFailed(c) ==
    /\ pc[c] \in {"simulating", "building"}
    /\ aborted[c] \/ Rejected(c) \/ ~CalmNetwork
    /\ AttemptFailed(c, ui)
    /\ UNCHANGED <<pool, opt, aborted, abortRef, todo, chainVars>>

Signed(c) ==
    /\ pc[c] = "signing"
    /\ pc' = [pc EXCEPT ![c] = "sending"]
    /\ ui' = [ui EXCEPT !.status = "sending"]
    /\ UNCHANGED <<pool, opt, att, outcome, aborted, abortRef, batchVars, chainVars>>

SignRefused(c) ==
    /\ pc[c] = "signing"
    /\ ~CalmNetwork
    /\ AttemptFailed(c, ui)
    /\ UNCHANGED <<pool, opt, aborted, abortRef, todo, chainVars>>

Slip_SignatureForgotten(c) ==
    /\ pc[c] = "sending"
    /\ Submit(CurrentTx(c))
    /\ pc' = [pc EXCEPT ![c] = IF opt[c].fast THEN "processed" ELSE "confirming"]
    /\ ui' = [ui EXCEPT !.status = "confirming"]
    /\ UNCHANGED <<pool, opt, att, outcome, aborted, abortRef, batchVars>>
Sent(c) ==
    /\ pc[c] = "sending"
    /\ Submit(CurrentTx(c))
    /\ pc' = [pc EXCEPT ![c] = IF opt[c].fast THEN "processed" ELSE "confirming"]
    /\ ui' = [ui EXCEPT !.status = "confirming", !.sig = CurrentTx(c)]
    /\ UNCHANGED <<pool, opt, att, outcome, aborted, abortRef, batchVars>>

SendFailed(c) ==
    /\ pc[c] = "sending"
    /\ ~CalmNetwork
    /\ SubmitUnanswered(CurrentTx(c))
    /\ AttemptFailed(c, ui)
    /\ UNCHANGED <<pool, opt, aborted, abortRef, todo>>

\* The processed confirmation of fast mode: a failure is swallowed.
Processed(c) ==
    /\ pc[c] = "processed"
    /\ CurrentTx(c) \in OnChain \/ ~CalmNetwork
    /\ pc' = [pc EXCEPT ![c] = "confirming"]
    /\ UNCHANGED <<pool, opt, att, outcome, aborted, abortRef, ui, batchVars, chainVars>>

\* The confirmation resolves, for a reverted transaction too.
Slip_NoReturn(c) ==
    /\ pc[c] = "confirming"
    /\ CurrentTx(c) \in OnChain
    /\ outcome' = [outcome EXCEPT ![c] = "signature"]
    /\ pc' = [pc EXCEPT ![c] = IF att[c] < MaxAttempts THEN "waiting" ELSE "done"]
    /\ ui' = [ui EXCEPT !.status = "success"]
    /\ UNCHANGED <<att, batch>>
    /\ UNCHANGED <<pool, opt, aborted, abortRef, todo, chainVars>>
Confirmed(c) ==
    /\ pc[c] = "confirming"
    /\ CurrentTx(c) \in OnChain
    /\ Settle(c, "signature", [ui EXCEPT !.status = "success"])
    /\ UNCHANGED <<pool, opt, aborted, abortRef, todo, chainVars>>

\* It rejects: expired, timed out or lost.  The transaction may yet land.
ConfirmFailed(c) ==
    /\ pc[c] = "confirming"
    /\ ~CalmNetwork
    /\ AttemptFailed(c, ui)
    /\ UNCHANGED <<pool, opt, aborted, abortRef, todo, chainVars>>

\* The pause between two attempts is over; the loop reads the signal.
Retry(c) ==
    /\ pc[c] = "waiting"
    /\ \/ ReturnAborted(c, ui)
       \/ ~aborted[c] /\ NextAttempt(c) /\ UNCHANGED <<outcome, batch>>
    /\ UNCHANGED <<pool, opt, aborted, abortRef, todo, chainVars>>

-----------------------------------------------------------------------------
CallStep(c) ==
    /\ \/ Simulated(c) \/ Built(c) \/ FetchFailed(c) \/ Signed(c) \/ SignRefused(c)
       \/ Sent(c) \/ SendFailed(c) \/ Processed(c) \/ Confirmed(c) \/ ConfirmFailed(c)
       \/ Retry(c)
    /\ UNCHANGED host

BatchStep ==
    /\ BatchScanned \/ BatchScanFailed \/ BatchDone \/ \E c \in Call : BatchCall(c)
    /\ UNCHANGED host

UserStep ==
    /\ Abort \/ Reset \/ BatchClick \/ \E c \in Call : Click(c) \/ RowClick(c)
    /\ UNCHANGED host

ChainStep ==
    /\ \E x \in live : Land(x) \/ Revert(x) \/ (~CalmNetwork /\ Expire(x))
    /\ UNCHANGED <<host, callVars, aborted, abortRef, ui, batchVars>>

Next == UserStep \/ BatchStep \/ ChainStep \/ \E c \in Call : CallStep(c)

Spec == Init /\ [][Next]_vars

\* Awaits are answered: fetches and confirmations fail or time out on their
\* own, timers fire, the user answers the wallet.  Neither the user nor the
\* chain owes anything else.
Fairness == WF_vars(BatchStep) /\ \A c \in Call : WF_vars(CallStep(c))
FairSpec == Spec /\ Fairness

-----------------------------------------------------------------------------
(* Safety.                                                                 *)

\* The button cannot stay disabled for good: a busy status always has a live
\* call of exit() behind it, however calls, aborts and resets overlapped.
BusyHasCall == ui.status \in Busy => \E c \in Call : Live(c)

\* As the button uses the hook (no abort, no reset) two exits never run side
\* by side: the status stays busy from the click to the settled promise, the
\* pauses between attempts included.
OneCallAtATime ==
    host.caller # "table" /\ host.controls = {} =>
        \A c, d \in Call : Live(c) /\ Live(d) => c = d

\* The explorer link the button shows with a success names a transaction that
\* is on chain and belongs to the call that reported the success.
SuccessLinkOnChain ==
    host.caller # "table" /\ host.controls = {} /\ ui.status = "success" =>
        /\ ui.sig \in OnChain
        /\ outcome[ui.sig.call] = "signature"
        /\ ui.sig.att = att[ui.sig.call]

\* Once an attempt is confirmed its call sends nothing more.
NothingAfterSuccess ==
    [][\A x \in sent' \ sent : outcome[x.call] # "signature"]_vars

\* An aborted call asks the wallet for nothing any more: only an attempt that
\* already waits for the wallet or the cluster goes on.
AbortedAsksNoSignature ==
    [][\A c \in Call : aborted[c] /\ pc'[c] = "signing" => pc[c] = "signing"]_vars

\* When the batch loop has ended every pool of the scan had its call, failed
\* ones included, and the counters shown say so.
BatchAccounts ==
    batch.at = "off" /\ batch.total > 0 =>
        /\ todo = {}
        /\ batch.done = batch.total
        /\ batch.errors =< Cardinality({c \in Call : outcome[c] = "thrown"})

\* Whatever the hosts show of an exit or a batch is true: busy, success, counters.
StatusIsHonest == TypeOK /\ BusyHasCall /\ SuccessLinkOnChain /\ BatchAccounts

-----------------------------------------------------------------------------
(* Liveness.                                                               *)

\* Every call of exit() settles its promise if its awaits are answered.
CallSettles == \A c \in Call : Live(c) ~> pc[c] = "done"

\* The button's "Batch i/n" does not stay: every batch ends.  The one exception
\* is the bound's: pools remain, but each call of the instance has been used up
\* (a batch that finds two pools first has its two calls and must end).
OutOfCalls == todo # {} /\ \A c \in Call : pc[c] = "done"
BatchEnds == batch.at # "off" ~> (batch.at = "off" \/ OutOfCalls)

-----------------------------------------------------------------------------
(* What the documents say and the code does not do.                        *)

\* EXIT_VERIFICATION.md:42: on a normal network the priority never increases
\* beyond the initial one.  /api/dbc-exit answers `txBase64`, the hook reads
\* `tx`: each attempt fails.
NoEscalationWhenCalm == CalmNetwork => ui.attempt =< 1
=============================================================================
