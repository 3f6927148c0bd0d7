---------------------------- MODULE StudioTools -----------------------------
(***************************************************************************)
(* The studio's commands together: calls of any of them run next to each   *)
(* other, or one after the other was stopped, against the same chain.      *)
(***************************************************************************)
EXTENDS DammV2Positions, PoolSeeding, ClaimJobs

CONSTANT Inputs     \* what the calls are, and the chain they find

vars == <<programVars, processVars, job>>

PositionCommands == {"split", "claimFee", "add", "remove", "close"}
PoolCommands == {"createPool", "seedLfg", "singleBin", "status", "farm", "lock", "lockStake"}
Commands == PositionCommands \cup ClaimCommands \cup PoolCommands \cup {"vault"}
Pools == {"dlmm", "dammV1", "oneSided", "balanced"}

\* Each call runs one command; a pool that position commands work on has a
\* price, one at a time, and nothing was traded by a call before it began, nor
\* written of a whitelist: every run of a rollout is a call of its own.  A
\* whitelist that is put into trees has someone on it.
ASSUME InputsAssumption == \A input \in Inputs :
    /\ input.job = [k \in Call |-> input.job[k]]
    /\ \A k \in Call : /\ input.job[k].cmd \in Commands /\ input.job[k].pool \in Pools
                        /\ input.job[k].list \in Seq({input.job[k].list[i] : i \in DOMAIN input.job[k].list})
                        /\ input.job[k].alloc \in Seq(Nat)
    /\ \A k \in Call : input.job[k].cmd \in {"vault", "createPool"} =>
          /\ input.job[k].list \in Seq(Nat)
          /\ input.job[k].vault = "merkle" => input.job[k].list # <<>>
    /\ \A f \in input.facts : /\ f[1] \notin {"traded", "file", "root", "rootOf", "proof", "lpLock"}
                              /\ f[1] = "price" => f \in Prices
    /\ \A f, g \in input.facts \cap Prices : f = g
    /\ (\E k \in Call : input.job[k].cmd \in PositionCommands) => input.facts \cap Prices # {}

Entry(command) ==
    CASE command \in PositionCommands -> "position"
      [] command \in ClaimCommands -> "claims"
      [] OTHER -> command

Place == {"returned", "stopped"} \cup VaultPlaces \cup PositionPlaces \cup PoolPlaces \cup ClaimPlaces
         \cup {"idle", "position", "quoted", "createPool", "lockStake"}

TypeOK ==
    /\ \A x \in pending : x.by \in Call
    /\ \A z \in fate : z[2] \in Outcome /\ z[1].by \in Call
    /\ at \in [Call -> Place]
    /\ \A k \in Call : \A i \in DOMAIN todo[k] : \A x \in todo[k][i] : x.by = k
    /\ stage \in [Call -> {"ready", "sent"}]
    /\ round \in [Call -> Nat]
    /\ rescue \in [Call -> [Failures -> Place]]

Init ==
    /\ \E input \in Inputs : job = input.job /\ facts = input.facts
    /\ pending = {} /\ fate = {}
    /\ at = [k \in Call |-> "idle"]
    /\ todo = [k \in Call |-> <<>>]
    /\ stage = [k \in Call |-> "ready"]
    /\ round = [k \in Call |-> 0]
    /\ rescue = [k \in Call |-> Uncaught]
    /\ seen = [k \in Call |-> {}]

\* The command line starts the command of its configuration, next to the others
\* or when those it waits for are over.
Start(k) ==
    /\ at[k] = "idle" /\ Nothing
    /\ \A j \in job[k].after : Over(j)
    /\ Goto(k, Entry(job[k].cmd))

Command(k) == PositionStep(k) \/ PoolStep(k) \/ VaultStep(k) \/ ClaimStep(k)

Next ==
    \/ \E k \in Call : Start(k) \/ Command(k) \/ Delivery(k) \/ Fault(k) \/ Stop(k)
    \/ Cluster
    \/ World

Spec == Init /\ [][Next]_vars

\* The event loop runs on, every blockhash lands or expires in the end, the
\* proof store answers, and the operator selects a position when asked.
FairSpec ==
    /\ Spec
    /\ \A k \in Call : WF_vars(Command(k) \/ Delivery(k))
    /\ WF_vars(Cluster)

\* Every command that is started ends, whatever fails and however often it
\* tries again.
CommandEnds == \A k \in Call : Running(k) ~> Over(k)

\* Who is listed gets it: every wallet of a whitelist is let in, as each
\* whitelist's tree can do, and every allocation of a lock is locked.
ListsAreHonoured == ReturnedMeansLetIn /\ WholeListVerifies /\ LockedAsAllocated

\* What the claim jobs report is what happened.
ClaimsAreSound == TypeOK /\ ClaimedIsPaid /\ GreenMeansAllClaimed
=============================================================================
