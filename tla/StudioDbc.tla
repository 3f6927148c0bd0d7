----------------------------- MODULE StudioDbc ------------------------------
(***************************************************************************)
(* The bonding curve commands of the studio (studio/src/lib/dbc/index.ts): *)
(* create a config and a pool, claim trading fees, swap, and migrate to    *)
(* DAMM v1 or v2.  Each invocation is a process of its own that keeps      *)
(* nothing: it reads the chain, lists the transactions that are missing,   *)
(* and sends them one by one with sendWithFreshBlockhash.  It may be       *)
(* killed at any await and be run again, by the same operator or another.  *)
(*                                                                         *)
(* Left out: curve parameters, prices and amounts, priority fees, labels.  *)
(* One base mint, kept in a key file, so that every call means one pool.   *)
(***************************************************************************)
EXTENDS DbcProgram, Sequences

Command == {"create", "fees", "swap", "migrateV1", "migrateV2"}

CONSTANT Inputs     \* what the calls are: a command and its dryRun each

ASSUME InputsAssumption == Inputs \subseteq [Call -> [cmd : Command, dry : BOOLEAN]]

VARIABLES
    place,      \* where each call is suspended, or how it ended
    cmd,        \* its command
    dry,        \* config.dryRun
    seen,       \* facts its reads of the chain have shown it
    queue,      \* `transactions` still to be sent
    sharing,    \* migrateDammV1 is past its second read of the metadata
    att         \* attempt of the transaction at the head of the queue

inputs == <<cmd, dry>>
callVars == <<place, inputs, seen, queue, sharing, att>>
vars == <<callVars, chainVars>>

Place == {"idle", "readPool", "readMetadata", "readLocker", "readLp",
          "send", "confirm", "finalize", "returned", "stopped"}
Ended == {"returned", "stopped"}

TypeOK ==
    /\ ChainTypeOK
    /\ place \in [Call -> Place]
    /\ cmd \in [Call -> Command]
    /\ dry \in [Call -> BOOLEAN]
    /\ seen \in [Call -> SUBSET Fact]
    /\ queue \in [Call -> Seq(Step)]
    /\ sharing \in [Call -> BOOLEAN]
    /\ att \in [Call -> 1..MaxAttempts]

Init ==
    /\ ChainInit
    /\ place = [k \in Call |-> "idle"]
    /\ \E input \in Inputs :
          /\ cmd = [k \in Call |-> input[k].cmd]
          /\ dry = [k \in Call |-> input[k].dry]
    /\ seen = [k \in Call |-> {}]
    /\ queue = [k \in Call |-> <<>>]
    /\ sharing = [k \in Call |-> FALSE]
    /\ att = [k \in Call |-> 1]

-----------------------------------------------------------------------------
(* What each command decides to send.                                      *)

ForPool(op) == [op |-> op, on |-> {Pool}]
ForCall(op, k) == [op |-> op, on |-> {k}]
Shares(op, sides) == [op |-> op, on |-> sides]
When(b, step) == IF b THEN <<step>> ELSE <<>>

\* Both migrations: metadata, locker and migration, each unless it was seen.
Slip_LockerNotLookedUp(facts) ==
    When(<<"metadata", Pool>> \notin facts, ForPool("metadata"))
    \o When(world.vesting, ForPool("locker"))
    \o When(<<"migrate", Pool>> \notin facts, ForPool("migrate"))
MigrationPlan(facts) ==
    When(<<"metadata", Pool>> \notin facts, ForPool("metadata"))
    \o When(world.vesting /\ <<"locker", Pool>> \notin facts, ForPool("locker"))
    \o When(<<"migrate", Pool>> \notin facts, ForPool("migrate"))

\* The claims of DAMM v1 LP, then the locks: one combined transaction when
\* creator and partner are the same address.
SharesOf(op, amounts, facts) ==
    IF world.same
    THEN When(amounts # {} /\ \A s \in Side : <<op, s>> \notin facts, Shares(op, Side))
    ELSE When("creator" \in amounts /\ <<op, "creator">> \notin facts, Shares(op, {"creator"}))
         \o When("partner" \in amounts /\ <<op, "partner">> \notin facts, Shares(op, {"partner"}))
Slip_LocksSkippedOnceClaimed(facts) ==
    SharesOf("claim", world.claimable, facts)
    \o (IF \E s \in Side : <<"claim", s>> \in facts THEN <<>>
        ELSE SharesOf("lock", world.lockable, facts))
LpPlan(facts) ==
    SharesOf("claim", world.claimable, facts) \o SharesOf("lock", world.lockable, facts)

FeePlan(k) ==
    When("creator" \in world.roles, ForCall("creatorFee", k))
    \o When("partner" \in world.roles, ForCall("partnerFee", k))
CreatePlan(k) == When(~world.existing, ForCall("config", k)) \o <<ForPool("pool")>>

-----------------------------------------------------------------------------
(* One call.                                                               *)

Goto(k, p) == place' = [place EXCEPT ![k] = p]
Keep == UNCHANGED <<inputs, seen, queue, sharing, att>>
Leave(k, how) == Goto(k, how) /\ Keep /\ UNCHANGED chainVars
Awaiting(k) == place[k] \notin Ended \cup {"idle"}

CurrentTx(k) == [call |-> k, step |-> Head(queue[k]), att |-> att[k]]

\* The loops over `transactions`, and what follows an exhausted one.
Continue(k, steps) ==
    /\ queue' = [queue EXCEPT ![k] = steps]
    /\ att' = [att EXCEPT ![k] = 1]
    /\ Goto(k, IF steps # <<>> THEN "send"
               ELSE IF cmd[k] = "migrateV1" /\ ~sharing'[k] THEN "readLp" ELSE "returned")

\* createDbcPool reads nothing first; the others fetch the pool and its config.
Start(k) ==
    /\ place[k] = "idle"
    /\ IF cmd[k] = "create"
       THEN UNCHANGED sharing /\ Continue(k, CreatePlan(k))
       ELSE Goto(k, "readPool") /\ UNCHANGED <<queue, sharing, att>>
    /\ UNCHANGED <<inputs, seen, chainVars>>

Look(k, facts) == seen' = [seen EXCEPT ![k] = @ \cup (facts \cap done)]

\* getPoolByBaseMint, getPoolConfig (and getPoolFeeMetrics) have answered.
ReadPool(k) ==
    /\ place[k] = "readPool"
    /\ <<"pool", Pool>> \in done
    /\ CASE cmd[k] = "fees" ->
               UNCHANGED <<seen, sharing>> /\ Continue(k, FeePlan(k))
         [] cmd[k] = "swap" ->
               UNCHANGED <<seen, sharing>> /\ Continue(k, <<ForCall("swap", k)>>)
         [] OTHER ->
               /\ world.curve = "complete"
               /\ Look(k, {<<"migrate", Pool>>})
               /\ Goto(k, "readMetadata")
               /\ UNCHANGED <<queue, sharing, att>>
    /\ UNCHANGED <<inputs, chainVars>>

\* There is no pool, or its quote reserve is below the migration threshold.
PoolUnfit(k) ==
    /\ place[k] = "readPool"
    /\ \/ <<"pool", Pool>> \notin done
       \/ cmd[k] \in {"migrateV1", "migrateV2"} /\ world.curve # "complete"
    /\ Leave(k, "stopped")

\* getAccountInfo(migrationMetadata)
ReadMetadata(k) ==
    /\ place[k] = "readMetadata"
    /\ Look(k, {<<"metadata", Pool>>})
    /\ UNCHANGED sharing
    /\ IF world.vesting
       THEN Goto(k, "readLocker") /\ UNCHANGED <<queue, att>>
       ELSE Continue(k, MigrationPlan(seen'[k]))
    /\ UNCHANGED <<inputs, chainVars>>

\* getAccountInfo(escrow)
ReadLocker(k) ==
    /\ place[k] = "readLocker"
    /\ Look(k, {<<"locker", Pool>>})
    /\ UNCHANGED sharing
    /\ Continue(k, MigrationPlan(seen'[k]))
    /\ UNCHANGED <<inputs, chainVars>>

\* getDammV1MigrationMetadata: a dry run ends here unless the pool is migrated.
ReadLp(k) ==
    /\ place[k] = "readLp"
    /\ IF dry[k] /\ {<<"metadata", Pool>>, <<"migrate", Pool>>} \cap seen[k]
                        # {<<"metadata", Pool>>, <<"migrate", Pool>>}
       THEN Leave(k, "returned")
       ELSE /\ <<"metadata", Pool>> \in done
            /\ Look(k, OnSide \X Side)
            /\ sharing' = [sharing EXCEPT ![k] = TRUE]
            /\ Continue(k, LpPlan(seen'[k]))
            /\ UNCHANGED <<inputs, chainVars>>

\* runSimulateTransaction in place of the send.  A pool that cannot be
\* simulated is expected: its config was only simulated.
Simulate(k) ==
    /\ place[k] = "send" /\ dry[k]
    /\ IF Accepted(CurrentTx(k)) \/ CurrentTx(k).step.op = "pool"
       THEN UNCHANGED sharing /\ Continue(k, Tail(queue[k]))
            /\ UNCHANGED <<inputs, seen, chainVars>>
       ELSE Leave(k, "stopped")

\* getLatestBlockhashAndContext and sendRawTransaction; minContextSlot makes
\* the simulating node at least as recent as the blockhash.
Slip_SendInDryRun(k) ==
    /\ place[k] = "send"
    /\ Accepted(CurrentTx(k))
    /\ Submit(CurrentTx(k))
    /\ Goto(k, "confirm") /\ Keep
Send(k) ==
    /\ place[k] = "send" /\ ~dry[k]
    /\ Accepted(CurrentTx(k))
    /\ Submit(CurrentTx(k))
    /\ Goto(k, "confirm") /\ Keep

\* The simulation before the send fails: the command throws.
Refused(k) ==
    /\ place[k] = "send" /\ ~dry[k]
    /\ ~Accepted(CurrentTx(k))
    /\ Leave(k, "stopped")

\* confirmTransaction resolves once the transaction was executed, with success
\* or not: its value.err is not read.  (Nobody awaits it again: `ran` forgets it.)  A new config is then awaited as final.
Confirmed(k) ==
    /\ place[k] = "confirm"
    /\ CurrentTx(k) \in ran
    /\ IF CurrentTx(k).step.op = "config"
       THEN Goto(k, "finalize") /\ Keep
       ELSE UNCHANGED <<inputs, seen, sharing>> /\ Continue(k, Tail(queue[k]))
    /\ ran' = {x \in ran : x.call # k}
    /\ UNCHANGED <<world, live, done, swaps>>

Finalized(k) ==
    /\ place[k] = "finalize"
    /\ Continue(k, Tail(queue[k]))
    /\ UNCHANGED <<inputs, seen, sharing, chainVars>>

Expired(x) == x \notin live /\ (x \notin ran \/ world.missed)

\* `expired && attempt < maxAttempts`: once more with a new blockhash.
Slip_NotCounted(k) ==
    /\ att[k] < MaxAttempts
    /\ Goto(k, "send")
    /\ UNCHANGED <<inputs, seen, queue, sharing, att, chainVars>>
Retry(k) ==
    /\ att[k] < MaxAttempts
    /\ att' = [att EXCEPT ![k] = @ + 1]
    /\ Goto(k, "send")
    /\ UNCHANGED <<inputs, seen, queue, sharing, chainVars>>

Slip_RetryAnyError(k) ==
    /\ place[k] = "confirm"
    /\ \/ Retry(k)
       \/ att[k] = MaxAttempts /\ Leave(k, "stopped")
ConfirmExpired(k) ==
    /\ place[k] = "confirm"
    /\ Expired(CurrentTx(k))
    /\ \/ Retry(k)
       \/ att[k] = MaxAttempts /\ Leave(k, "stopped")

\* Any other failed await, or the end of the process: a read, a send (one that
\* the node took is Send and then this), a confirmation that ends early.  Only
\* a dry run survives a failed second read.
Fault(k) ==
    /\ Awaiting(k)
    /\ Leave(k, IF place[k] = "readLp" /\ dry[k] THEN "returned" ELSE "stopped")

CallStep(k) ==
    \/ Start(k) \/ ReadPool(k) \/ PoolUnfit(k) \/ ReadMetadata(k) \/ ReadLocker(k)
    \/ ReadLp(k) \/ Simulate(k) \/ Send(k) \/ Refused(k)
    \/ Confirmed(k) \/ Finalized(k) \/ ConfirmExpired(k) \/ Fault(k)

Next == (\E k \in Call : CallStep(k)) \/ (ChainStep /\ UNCHANGED callVars)

Spec == Init /\ [][Next]_vars

\* The event loop runs on, and every blockhash lands or expires in the end.
Progress(k) ==
    \/ ReadPool(k) \/ PoolUnfit(k) \/ ReadMetadata(k) \/ ReadLocker(k) \/ ReadLp(k)
    \/ Simulate(k) \/ Send(k) \/ Refused(k) \/ Confirmed(k) \/ Finalized(k)
    \/ ConfirmExpired(k)
FairSpec ==
    /\ Spec
    /\ \A k \in Call : WF_vars(Progress(k))
    /\ WF_vars(ChainStep /\ UNCHANGED callVars)

-----------------------------------------------------------------------------
(* Properties.                                                             *)

Goal(k) ==
    CASE cmd[k] = "create" -> {<<"pool", Pool>>}
      [] cmd[k] = "fees" -> {<<s.op, k>> : s \in {FeePlan(k)[i] : i \in DOMAIN FeePlan(k)}}
      [] cmd[k] = "swap" -> {}
      [] cmd[k] = "migrateV1" ->
            {<<"migrate", Pool>>} \cup ({"claim"} \X world.claimable)
                                  \cup ({"lock"} \X world.lockable)
      [] cmd[k] = "migrateV2" -> {<<"migrate", Pool>>}

\* A command that returns has reached what it was run for, whatever earlier
\* killed calls, rival calls and late transactions left half done: no part of
\* a migration is forgotten because another part was found finished.
ReturnedMeansDone ==
    \A k \in Call : place[k] = "returned" /\ ~dry[k] => Goal(k) \subseteq done

\* What a command reports, and what it keeps of its own, is as it should be.
ReturnedIsDone == TypeOK /\ ReturnedMeansDone

\* A rerun is never refused for work it could have seen: the node's refusal
\* means that somebody finished that very step after this call had read it,
\* and never that a step is sent before what it builds on.
RefusedOnlyForNews ==
    [][\A k \in Call : Refused(k) =>
          /\ Effect(CurrentTx(k)) \cap done # {}
          /\ Effect(CurrentTx(k)) \cap seen[k] = {}]_vars

\* `dryRun` holds at every send of every command.
DryRunSendsNothing == \A x \in live \cup ran : ~dry[x.call]

\* A swap is paid at most once per call however often its confirmation
\* expires, as long as no confirmation misses its notification.
SwapOncePerCall == \A k \in Call : world.missed \/ swaps[k] <= 1

\* Every command ends: the attempts are counted and each blockhash ends.
CallEnds == \A k \in Call : Awaiting(k) ~> place[k] \in Ended
=============================================================================
