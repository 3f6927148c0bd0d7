----------------------------- MODULE SiteTools ------------------------------
(***************************************************************************)
(* The site's exits, claims and launches together: runs of their hooks and *)
(* requests to their routes next to each other and next to a command of    *)
(* the studio, on one page and one chain; the hooks that look for the      *)
(* wallet's pools; and the chart of a token.                               *)
(***************************************************************************)
EXTENDS ServerExits, PoolLaunch, PoolContext, ChartBars

CONSTANT Inputs     \* what the calls are, the chain they find, the scanning hook or the chart

callVars == <<programVars, processVars, job, pageVars>>
vars == <<callVars, ctx, chart>>

PositionCommands == {"split", "claimFee", "add", "remove", "close"}
Hooks == {"exitAll", "batch", "exitAuto", "launch"}
Commands ==
    PositionCommands \cup Hooks
    \cup {"none", "exitOne", "removeLp", "bulletproof", "buildClaim", "bundle", "submitBundle", "buildLaunch"}
Entry(command) == IF command \in PositionCommands THEN "position" ELSE command

\* Only the studio's commands and the exit of all positions can be simulated; and
\* what the calls are going to make is not there before them.
ASSUME InputsAssumption ==
    \A input \in Inputs :
       /\ input.hook \in {"none", "context", "discovery", "derived", "chart"}
       /\ DOMAIN input.job = Call /\ \A k \in Call : input.job[k].cmd \in Commands
       /\ \A k \in Call : input.job[k].dry => input.job[k].cmd \in PositionCommands \cup {"exitAll"}
       /\ IsFiniteSet(input.facts) /\ \A f \in input.facts : f[1] \notin {"done", "tip"}
       /\ \A k \in Call : {<<"curve", k>>, <<"open", NewPosition[k]>>} \cap input.facts = {}

Place ==
    PositionPlaces \cup InFlight \cup Hooks
    \cup {"idle", "returned", "stopped", "position", "quoted", "listing", "signing", "rows", "rowDone",
          "rowFailed", "exitOne", "picked", "findLp", "signLp", "discover", "build", "bulletproof",
          "attempt", "again", "success", "gaveUp", "removeLp", "removeAll", "buildClaim", "signCreate",
          "signSwap", "bundle", "submitBundle", "relay", "buildLaunch"}

TypeOK ==
    /\ \A x \in pending : x.by \in Call
    /\ \A z \in fate : z[2] \in Outcome /\ z[1].by \in Call
    /\ at \in [Call -> Place]
    /\ \A k \in Call : \A i \in DOMAIN todo[k] : \A x \in todo[k][i] : x.by = k
    /\ stage \in [Call -> {"ready", "sent"}]
    /\ round \in [Call -> Nat]
    /\ rescue \in [Call -> [Failures -> Place]]
    /\ page.busy \in BOOLEAN /\ page.flag \in BOOLEAN
    /\ \A i \in DOMAIN page.rows :
          page.rows[i].status \in Status /\ {page.rows[i].listed, page.rows[i].by} \subseteq Call
    /\ page.newest \in Call \cup {"none"} /\ page.stopped \subseteq Call
    /\ \A k \in Call : \A i \in DOMAIN built[k] : built[k][i].by = k
    /\ ctx.wallet \in Wallet \cup {"none"} /\ ctx.shown \in Shows
    /\ ctx.selected \in Shows \cup {"ALL"}
    /\ chart.token \in Token \cup {"none"} /\ DOMAIN chart.bars \subseteq Token

Init ==
    /\ \E input \in Inputs :
          job = input.job /\ facts = input.facts
          /\ ctx = Fresh(input.hook) /\ chart = NewChart(input.hook = "chart")
    /\ pending = {} /\ fate = {}
    /\ at = [k \in Call |-> "idle"]
    /\ todo = [k \in Call |-> <<>>]
    /\ stage = [k \in Call |-> "ready"]
    /\ round = [k \in Call |-> 0]
    /\ rescue = [k \in Call |-> Uncaught]
    /\ seen = [k \in Call |-> {}]
    /\ page = EmptyPage
    /\ built = [k \in Call |-> <<>>]

\* The user clicks, or a client asks, next to the other calls or when those it
\* waits for are over.
Start(k) ==
    /\ at[k] = "idle" /\ job[k].cmd # "none" /\ Nothing /\ UNCHANGED pageVars
    /\ \A j \in job[k].after : Over(j)
    /\ Goto(k, Entry(job[k].cmd))

OnPage(k) == DammExitStep(k) \/ BatchStep(k) \/ LoopStep(k) \/ ServerStep(k) \/ LaunchStep(k)
Elsewhere(k) == PositionStep(k) /\ UNCHANGED pageVars
Carried(k) == Delivery(k) /\ UNCHANGED pageVars
Goes(k) == OnPage(k) \/ Elsewhere(k) \/ Carried(k)

\* A server or the command line may be killed; a page that is closed takes what
\* it shows with it.
Killed(k) ==
    /\ \/ Fault(k)
       \/ job[k].cmd \notin Hooks /\ Stop(k)
    /\ UNCHANGED pageVars

Happens == (Cluster \/ World) /\ UNCHANGED pageVars

Apart == UNCHANGED <<ctx, chart>>

Next ==
    \/ \E k \in Call : (Start(k) \/ Goes(k) \/ Killed(k) \/ GivesUp(k)) /\ Apart
    \/ (Abort \/ Happens) /\ Apart
    \/ ContextStep /\ UNCHANGED <<callVars, chart>>
    \/ ChartStep /\ UNCHANGED <<callVars, ctx>>

Spec == Init /\ [][Next]_vars

\* The event loops run on, every request and every scan is answered or fails,
\* the wallet signs or refuses, every blockhash lands or expires in the end, and
\* React runs its effects.
FairSpec ==
    /\ Spec
    /\ \A k \in Call : WF_vars(Goes(k) /\ Apart)
    /\ WF_vars(Cluster /\ UNCHANGED pageVars /\ Apart)
    /\ WF_vars(Effect /\ UNCHANGED <<callVars, chart>>)
    /\ \A w \in Wallet : WF_vars(ScanEnds(w) /\ UNCHANGED <<callVars, chart>>)

-----------------------------------------------------------------------------
\* "Running" is not left on the page by a run that is over, however runs overlap,
\* fail or are aborted.  (A simulation of useDammV2ExitAll that found something
\* leaves it.)
BusyMeansRun ==
    page.busy => \E k \in Call :
       \/ Running(k) /\ job[k].cmd \in Hooks
       \/ Over(k) /\ job[k].cmd = "exitAll" /\ job[k].dry

\* Whatever was started ends, however often it tries again.
RequestEnds == \A k \in Call : Running(k) ~> Over(k)

\* What a row or the form says is on chain, or was accepted, and a pool that was
\* launched has its files.
ToldIsTrue == TypeOK /\ ConfirmedRowIsDone /\ ToldMeansAccepted /\ PoolHasFiles

\* No flag of a page outlives what it stands for: running, loading, or the load
\* of marks that makes buttons dead.
FlagsAreHonest == BusyMeansRun /\ LoadingMeansScan /\ DeadButtonsMeanLoad
=============================================================================
