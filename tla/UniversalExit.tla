--------------------------- MODULE UniversalExit ---------------------------
(***************************************************************************)
(* The Universal Exit hook (scaffolds/fun-launch/src/hooks/                *)
(* useUniversalExit.ts): one call of `run` discovers the wallet's          *)
(* positions, signs and submits one transaction after another, and retries *)
(* each item over its prebuilt priority variants; `abort` raises the flag  *)
(* of the newest AbortController and clears `running`.                     *)
(*                                                                         *)
(* JavaScript interleaves only at `await`, so every action below is one    *)
(* synchronous stretch of `run`, from the resumption of one await to the   *)
(* next.  Several calls of `run` can be alive at once: abort clears the    *)
(* flag that guards a new call while the old call still awaits.            *)
(*                                                                         *)
(* Left out: wording of errors, signatures' bytes, fee amounts, the time   *)
(* stamps and currentIndex (display only).                                 *)
(***************************************************************************)
EXTENDS ExitOrder

CONSTANTS
    Run,            \* calls of run() the user may make
    MaxVariants,    \* priority variants built for a withdrawal (3 in the code)
    PatientUser,    \* TRUE: a new run is started only when no call is alive
    NoRun,          \* abortRef.current = null
    NoTx            \* an item that has no signature yet

ASSUME VariantsAssumption == MaxVariants \in Nat \ {0}
ASSUME SentinelAssumption == NoRun \notin Run
ASSUME PatienceAssumption == PatientUser \in BOOLEAN

\* A transaction is named by the call that sent it, its task and its variant.
Tx == [run : Run, task : Task, att : 1..MaxVariants]

ASSUME NoTxAssumption == NoTx \notin Tx

VARIABLES
    pc,         \* where each call of run() is suspended
    found,      \* positions its discovery read from the chain
    plan,       \* its `items`, in execution order
    refused,    \* indices whose first signature was refused (errors[i])
    idx, att,   \* loop counters i and a (1-based)
    aborted,    \* controller.signal.aborted of each call
    abortRef,   \* abortRef.current
    ui,         \* React state: planning, running and items
    sent,       \* transactions handed to an RPC node (history)
    live,       \* sent and still able to land
    landed,     \* executed on chain with success
    reverted    \* executed on chain with an error (only the fee is spent)

runVars   == <<pc, found, plan, refused, idx, att>>
chainVars == <<sent, live, landed, reverted>>
vars      == <<runVars, aborted, abortRef, ui, chainVars>>

Status == {"pending", "signed", "sent", "confirmed", "error"}
Item   == [task : Task, status : Status, sig : Tx \cup {NoTx}]
Place  == {"idle", "planning", "building", "signing",
           "sign", "send", "confirm", "done"}

PlanPlaces == {"planning", "building"}
ExecPlaces == {"signing", "sign", "send", "confirm"}
Planning(r)  == pc[r] \in PlanPlaces
Executing(r) == pc[r] \in ExecPlaces
Active(r)    == Planning(r) \/ Executing(r)

TypeOK ==
    /\ pc \in [Run -> Place]
    /\ found \in [Run -> SUBSET Task]
    /\ plan \in [Run -> Seq(Task)]
    /\ refused \in [Run -> SUBSET Nat]
    /\ idx \in [Run -> Nat]
    /\ att \in [Run -> 1..MaxVariants]
    /\ aborted \in [Run -> BOOLEAN]
    /\ abortRef \in Run \cup {NoRun}
    /\ ui \in [planning : BOOLEAN, running : BOOLEAN, items : Seq(Item)]
    /\ sent \in SUBSET Tx
    /\ live \in SUBSET Tx
    /\ landed \in SUBSET Tx
    /\ reverted \in SUBSET Tx

Init ==
    /\ pc = [r \in Run |-> "idle"]
    /\ found = [r \in Run |-> {}]
    /\ plan = [r \in Run |-> <<>>]
    /\ refused = [r \in Run |-> {}]
    /\ idx = [r \in Run |-> 0]
    /\ att = [r \in Run |-> 1]
    /\ aborted = [r \in Run |-> FALSE]
    /\ abortRef = NoRun
    /\ ui = [planning |-> FALSE, running |-> FALSE, items |-> <<>>]
    /\ sent = {} /\ live = {} /\ landed = {} /\ reverted = {}

-----------------------------------------------------------------------------
(* What the planner promises and what the executor reads.                  *)

\* Positions closed on chain; discovery no longer lists them.
Exited == {t \in Withdraw : \E x \in landed : x.task = t}

\* The attempts array: all variants of a withdrawal, the one tx of a claim.
Slip_OneAttemptMore(t) == IF t \in Withdraw THEN MaxVariants + 1 ELSE 1
Attempts(t) == IF t \in Withdraw THEN MaxVariants ELSE 1

TaskAt(r) == plan[r][idx[r]]
CurrentTx(r) == [run |-> r, task |-> TaskAt(r), att |-> att[r]]

\* setState(s => s.items.map((it, idx) => idx === i ? ... : it)): by index,
\* on whatever list the state holds by then.
SetStatus(items, i, st) ==
    [k \in DOMAIN items |->
        IF k = i THEN [items[k] EXCEPT !.status = st] ELSE items[k]]
Slip_SignatureToNextRow(items, i, x) ==
    [k \in DOMAIN items |->
        IF k = i + 1 THEN [items[k] EXCEPT !.status = "sent", !.sig = x] ELSE items[k]]
SetSent(items, i, x) ==
    [k \in DOMAIN items |->
        IF k = i THEN [items[k] EXCEPT !.status = "sent", !.sig = x] ELSE items[k]]
Slip_FirstRefusedRowLost(items, first, last) ==
    [k \in DOMAIN items |->
        IF k \in (first + 1)..last THEN [items[k] EXCEPT !.status = "error"] ELSE items[k]]
MarkRefused(items, first, last) ==
    [k \in DOMAIN items |->
        IF k \in first..last THEN [items[k] EXCEPT !.status = "error"] ELSE items[k]]
Fresh(s) == [k \in DOMAIN s |-> [task |-> s[k], status |-> "pending", sig |-> NoTx]]

\* The state once the plan is known.
Slip_RunningForgotten(s) == [planning |-> FALSE, running |-> FALSE, items |-> Fresh(s)]
PlanShown(s) == [planning |-> FALSE, running |-> TRUE, items |-> Fresh(s)]

-----------------------------------------------------------------------------
(* The loop of run(): what happens when an item is finished.               *)

\* The early return of run().
Busy == ui.planning \/ ui.running

\* The finally block.
Slip_PlanningKept(items) == [ui EXCEPT !.running = FALSE, !.items = items]
Finally(items) == [planning |-> FALSE, running |-> FALSE, items |-> items]

\* `if (controller.signal.aborted) break`, read before each item only.
Slip_NewestController(r) == abortRef \in Run /\ aborted[abortRef]
StopHere(r) == aborted[r]

\* n is the first index after i whose signature was not refused, or one past
\* the last item.
IsNextItem(i, refs, n) ==
    /\ \A k \in (i + 1)..(n - 1) : k \in refs
    /\ n \notin refs

\* signTransactionsAdaptive: the batch signature refuses none; after a failed
\* or missing batch each transaction is signed on its own and may be refused.
Refusals(s) == SUBSET (1..Len(s))

\* Leaving the loop: break or exhausted, then finally.
Leave(r, items) ==
    /\ pc' = [pc EXCEPT ![r] = "done"]
    /\ ui' = Finally(items)
    /\ UNCHANGED <<idx, att>>

\* From the end of item i to the next await: the abort check, the refused
\* items in between, then the first attempt of the next item or the end.
GoOn(r, i, refs, items) ==
    \/ StopHere(r) /\ Leave(r, items)
    \/ /\ ~StopHere(r)
       /\ \E n \in (i + 1)..(Len(plan[r]) + 1) :
            /\ IsNextItem(i, refs, n)
            /\ LET marked == MarkRefused(items, i + 1, n - 1) IN
               \/ n > Len(plan[r]) /\ Leave(r, marked)
               \/ /\ n <= Len(plan[r])
                  /\ pc' = [pc EXCEPT ![r] = "sign"]
                  /\ idx' = [idx EXCEPT ![r] = n]
                  /\ att' = [att EXCEPT ![r] = 1]
                  /\ ui' = [ui EXCEPT !.items = marked]

\* The catch of the attempts loop: the next variant (abort is not read
\* here), or the item ends in error.
Slip_LastVariantForever(r) ==
    /\ att' = [att EXCEPT ![r] = IF @ < Attempts(TaskAt(r)) THEN @ + 1 ELSE @]
    /\ pc' = [pc EXCEPT ![r] = "sign"]
    /\ UNCHANGED <<idx, ui>>
AttemptFailed(r) ==
    \/ /\ att[r] < Attempts(TaskAt(r))
       /\ att' = [att EXCEPT ![r] = @ + 1]
       /\ pc' = [pc EXCEPT ![r] = "sign"]
       /\ UNCHANGED <<idx, ui>>
    \/ /\ att[r] = Attempts(TaskAt(r))
       /\ GoOn(r, idx[r], refused[r], SetStatus(ui.items, idx[r], "error"))

-----------------------------------------------------------------------------
(* One action per synchronous stretch of run(), and abort().               *)

Start(r) ==
    /\ pc[r] = "idle"
    /\ ~Busy
    /\ PatientUser => \A q \in Run : ~Active(q)
    /\ pc' = [pc EXCEPT ![r] = "planning"]
    /\ abortRef' = r
    /\ ui' = [planning |-> TRUE, running |-> FALSE, items |-> <<>>]
    /\ UNCHANGED <<found, plan, refused, idx, att, aborted, chainVars>>

\* The user's abort(): only the newest controller is reachable.
Abort ==
    /\ abortRef \in Run
    /\ aborted' = [aborted EXCEPT ![abortRef] = TRUE]
    /\ ui' = [ui EXCEPT !.running = FALSE]
    /\ UNCHANGED <<runVars, abortRef, chainVars>>

\* The planner's discovery requests are answered from the chain of that moment.
Discover(r) ==
    /\ pc[r] = "planning"
    /\ found' = [found EXCEPT ![r] = Task \ Exited]
    /\ pc' = [pc EXCEPT ![r] = "building"]
    /\ UNCHANGED <<plan, refused, idx, att, aborted, abortRef, ui, chainVars>>

\* planUniversalExits resolves (a failed discovery or build drops its tasks):
\* the list is shown and the batch signature is requested.
PlanReady(r) ==
    /\ pc[r] = "building"
    /\ \E S \in SUBSET found[r] : \E s \in Plans(S) :
        /\ plan' = [plan EXCEPT ![r] = s]
        /\ ui' = PlanShown(s)
    /\ pc' = [pc EXCEPT ![r] = "signing"]
    /\ UNCHANGED <<found, refused, idx, att, aborted, abortRef, chainVars>>

\* One transaction does not deserialize or has a foreign unsigned signer:
\* the exception leaves run() through finally.
PlanInvalid(r) ==
    /\ pc[r] = "building"
    /\ \E S \in SUBSET found[r] \ {{}} : \E s \in Plans(S) :
        /\ plan' = [plan EXCEPT ![r] = s]
        /\ ui' = Finally(Fresh(s))
    /\ pc' = [pc EXCEPT ![r] = "done"]
    /\ UNCHANGED <<found, refused, idx, att, aborted, abortRef, chainVars>>

\* signTransactionsAdaptive resolves; only its errors are used.
SignedAll(r) ==
    /\ pc[r] = "signing"
    /\ \E refs \in Refusals(plan[r]) :
        /\ refused' = [refused EXCEPT ![r] = refs]
        /\ GoOn(r, 0, refs, ui.items)
    /\ UNCHANGED <<found, plan, aborted, abortRef, chainVars>>

\* The wallet signs the current variant.
Signed(r) ==
    /\ pc[r] = "sign"
    /\ pc' = [pc EXCEPT ![r] = "send"]
    /\ ui' = [ui EXCEPT !.items = SetStatus(@, idx[r], "signed")]
    /\ UNCHANGED <<found, plan, refused, idx, att, aborted, abortRef, chainVars>>

\* The wallet (or its user) refuses it.
SignRefused(r) ==
    /\ pc[r] = "sign"
    /\ AttemptFailed(r)
    /\ UNCHANGED <<found, plan, refused, aborted, abortRef, chainVars>>

\* sendRawTransaction resolves with the signature.
Sent(r) ==
    /\ pc[r] = "send"
    /\ pc' = [pc EXCEPT ![r] = "confirm"]
    /\ ui' = [ui EXCEPT !.items = SetSent(@, idx[r], CurrentTx(r))]
    /\ sent' = sent \cup {CurrentTx(r)}
    /\ live' = live \cup {CurrentTx(r)}
    /\ UNCHANGED <<found, plan, refused, idx, att, aborted, abortRef, landed, reverted>>

\* It rejects: the preflight failed, or only the answer was lost.
SendFailed(r) ==
    /\ pc[r] = "send"
    /\ AttemptFailed(r)
    /\ \/ UNCHANGED <<sent, live>>
       \/ /\ sent' = sent \cup {CurrentTx(r)}
          /\ live' = live \cup {CurrentTx(r)}
    /\ UNCHANGED <<found, plan, refused, aborted, abortRef, landed, reverted>>

\* confirmTransaction resolves once the transaction is on chain, also when it
\* reverted: value.err of the answer is not read.
Slip_NoBreak(r) ==
    /\ pc[r] = "confirm"
    /\ CurrentTx(r) \in landed \cup reverted
    /\ IF att[r] < Attempts(TaskAt(r))
       THEN /\ att' = [att EXCEPT ![r] = @ + 1]
            /\ pc' = [pc EXCEPT ![r] = "sign"]
            /\ ui' = [ui EXCEPT !.items = SetStatus(@, idx[r], "confirmed")]
            /\ UNCHANGED idx
       ELSE GoOn(r, idx[r], refused[r], SetStatus(ui.items, idx[r], "confirmed"))
    /\ UNCHANGED <<found, plan, refused, aborted, abortRef, chainVars>>
Confirmed(r) ==
    /\ pc[r] = "confirm"
    /\ CurrentTx(r) \in landed \cup reverted
    /\ GoOn(r, idx[r], refused[r], SetStatus(ui.items, idx[r], "confirmed"))
    /\ UNCHANGED <<found, plan, refused, aborted, abortRef, chainVars>>

\* It rejects: block height exceeded or an RPC failure.  The transaction may
\* have landed, or may still land.
ConfirmFailed(r) ==
    /\ pc[r] = "confirm"
    /\ AttemptFailed(r)
    /\ UNCHANGED <<found, plan, refused, aborted, abortRef, chainVars>>

-----------------------------------------------------------------------------
(* The chain: a sent transaction lands, reverts or expires with its        *)
(* blockhash.  A second withdrawal of a position reverts.                  *)

Land(x) ==
    /\ x \in live
    /\ x.task \notin Exited
    /\ landed' = landed \cup {x}
    /\ live' = live \ {x}
    /\ UNCHANGED <<runVars, aborted, abortRef, ui, sent, reverted>>

Revert(x) ==
    /\ x \in live
    /\ reverted' = reverted \cup {x}
    /\ live' = live \ {x}
    /\ UNCHANGED <<runVars, aborted, abortRef, ui, sent, landed>>

Expire(x) ==
    /\ x \in live
    /\ live' = live \ {x}
    /\ UNCHANGED <<runVars, aborted, abortRef, ui, sent, landed, reverted>>

RunStep(r) ==
    \/ Discover(r) \/ PlanReady(r) \/ PlanInvalid(r) \/ SignedAll(r)
    \/ Signed(r) \/ SignRefused(r) \/ Sent(r) \/ SendFailed(r)
    \/ Confirmed(r) \/ ConfirmFailed(r)

ChainStep == \E x \in live : Land(x) \/ Revert(x) \/ Expire(x)

Next ==
    \/ Abort
    \/ \E r \in Run : Start(r) \/ RunStep(r)
    \/ ChainStep

Spec == Init /\ [][Next]_vars

\* Every await of run() is answered: requests and confirmations fail or time
\* out on their own, and the user answers an open wallet prompt.  Nothing
\* obliges the user to start or abort, nor the chain to take a transaction.
Fairness == \A r \in Run : WF_vars(RunStep(r))
FairSpec == Spec /\ Fairness

-----------------------------------------------------------------------------
(* Safety.                                                                 *)

\* The exit button cannot stay disabled for good: a raised planning or
\* running flag always has a live call of run() behind it that will reach
\* its finally block, however calls and aborts overlapped.
BusyIsHonest ==
    /\ ui.planning => \E r \in Run : Planning(r)
    /\ ui.running => \E r \in Run : Executing(r)

\* A call of run() that nobody stopped shows as busy and is the one abort()
\* reaches (abortRef), as long as the user waits for the previous call.
RunningCanBeStopped ==
    \A r \in Run : Active(r) /\ ~aborted[r] => Busy /\ abortRef = r

\* A row shown as confirmed carries the signature of a transaction for that
\* row's own position which really is on chain.
ConfirmedIsOnChain ==
    \A k \in DOMAIN ui.items :
        ui.items[k].status = "confirmed" =>
            /\ ui.items[k].sig \in landed \cup reverted
            /\ ui.items[k].sig.task = ui.items[k].task

Settled == {"confirmed", "error"}

\* A call that has asked the wallet for its list and leaves the loop without
\* having been stopped forgot no row between the others: each is confirmed or
\* in error.  Of a list that is thrown out before the wallet is asked
\* (PlanInvalid) it says nothing: there one bad transaction leaves every row
\* pending, where EXIT_VERIFICATION.md:159-164 has that row alone in error.
NoRowForgotten ==
    [][\A r \in Run : Executing(r) /\ pc'[r] = "done" /\ ~aborted[r] =>
          \A k \in DOMAIN ui'.items : ui'.items[k].status \in Settled]_vars

\* A call of run() sends no fee claim of a pool after it has sent a
\* withdrawal of that pool (withdrawing first would close what is claimed).
ClaimsSentFirst ==
    [][\A x \in sent' \ sent : x.task \in Claim =>
          ~\E y \in sent : /\ y.run = x.run
                           /\ y.task \in Withdraw
                           /\ PoolOf[y.task] = PoolOf[x.task]]_vars

\* Abort is seen at the next item: an aborted call never moves on to another
\* one, whatever else runs beside it.
AbortedStaysOnItem ==
    [][\A r \in Run : aborted[r] => idx'[r] = idx[r]]_vars

-----------------------------------------------------------------------------
(* The promise to a patient user, and how the hook keeps it.               *)

Shown == [k \in DOMAIN ui.items |-> ui.items[k].task]
Told == [k \in DOMAIN ui.items |->
            IF ui.items[k].status \in Settled THEN ui.items[k].status ELSE "open"]
Asked == {x.task : x \in sent}
Executed == {x.task : x \in landed \cup reverted}
Board == INSTANCE ExitBoard WITH
    list <- Shown, report <- Told, asked <- Asked, executed <- Executed

\* run(), with its retries, refusals, aborts and lost answers, works the list
\* off from top to bottom as ExitBoard says, if the user waits for each call.
BoardIsKept == Board!Spec

-----------------------------------------------------------------------------
(* Liveness.                                                               *)

\* Every call of run() ends, aborted or not, if its awaits are answered.
RunEnds == \A r \in Run : Active(r) ~> pc[r] = "done"

-----------------------------------------------------------------------------
(* What the documents say and the code does not do.                        *)

\* EXIT_VERIFICATION.md:171: a confirmed withdrawal leaves no liquidity.
\* The error of the confirmation answer is not read.
ConfirmedMeansExited ==
    \A k \in DOMAIN ui.items :
        ui.items[k].status = "confirmed" /\ ui.items[k].task \in Withdraw =>
            ui.items[k].task \in Exited
=============================================================================
