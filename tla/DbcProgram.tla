----------------------------- MODULE DbcProgram -----------------------------
(***************************************************************************)
(* The bonding curve program on chain, as studio/src/lib/dbc/index.ts      *)
(* depends on it through the SDK: which transactions it accepts and what   *)
(* they leave behind.  External: none of it is in this repository.         *)
(*                                                                         *)
(* A transaction is one instruction [op, on]: `on` is what it acts for (the*)
(* pool, the creator's or the partner's share, or one call's own account). *)
(***************************************************************************)
EXTENDS Naturals

CONSTANTS
    Call,           \* invocations of the command line
    Pool,           \* the one pool (and base mint) they are about
    Worlds,         \* the pools the runs start from
    MaxAttempts     \* maxAttempts of sendWithFreshBlockhash (3 in the code)

ASSUME PoolAssumption == Pool \notin Call
ASSUME AttemptsAssumption == MaxAttempts \in Nat \ {0}

Side == {"creator", "partner"}

\* What one pool and its configuration decide.  curve: how far its bonding
\* curve is; same: creator and partner are one address; roles: which of them
\* the wallet is; existing: the config file names a config account; missed: a
\* confirmation may miss its notification.
World == [curve : {"absent", "open", "complete"}, vesting : BOOLEAN, same : BOOLEAN,
          claimable : SUBSET Side, lockable : SUBSET Side,
          roles : SUBSET Side, existing : BOOLEAN, missed : BOOLEAN]

ASSUME WorldsAssumption == Worlds \subseteq World

OnPool    == {"pool", "metadata", "locker", "migrate"}
OnSide    == {"claim", "lock"}
OnCall    == {"config", "creatorFee", "partnerFee", "swap"}
Repeatable == {"creatorFee", "partnerFee", "swap"}

Step == [op : OnPool, on : {{Pool}}] \cup [op : OnSide, on : SUBSET Side]
        \cup [op : OnCall, on : {{k} : k \in Call}]
Tx   == [call : Call, step : Step, att : 1..MaxAttempts]
Fact == (OnPool \X {Pool}) \cup (OnSide \X Side) \cup (OnCall \X Call)

VARIABLES
    world,      \* the pool of this behaviour
    live,       \* transactions a node holds and that may still be executed
    ran,        \* executed, with or without success, and not yet confirmed to the sender
    done,       \* accounts and marks they left on chain
    swaps       \* how often each call's swap was executed with success

chainVars == <<world, live, ran, done, swaps>>

ChainTypeOK ==
    /\ world \in Worlds
    /\ live \in SUBSET Tx
    /\ ran \in SUBSET Tx
    /\ done \in SUBSET Fact
    /\ swaps \in [Call -> 0..MaxAttempts]

ChainInit ==
    /\ world \in Worlds
    /\ live = {} /\ ran = {}
    /\ done = IF world.curve = "absent" THEN {} ELSE {<<"pool", Pool>>}
    /\ swaps = [k \in Call |-> 0]

Effect(x) == {x.step.op} \X x.step.on

Needs(x) ==
    CASE x.step.op = "migrate" ->
            {<<"metadata", Pool>>} \cup (IF world.vesting THEN {<<"locker", Pool>>} ELSE {})
      [] x.step.op \in OnSide -> {<<"migrate", Pool>>}
      [] x.step.op = "pool" -> IF world.existing THEN {} ELSE {<<"config", x.call>>}
      [] OTHER -> {}

\* The program's checks, at simulation and again at execution.
Accepted(x) ==
    /\ Needs(x) \subseteq done
    /\ x.step.op \in Repeatable \/ Effect(x) \cap done = {}

Submit(x) == live' = live \cup {x} /\ UNCHANGED <<world, ran, done, swaps>>

\* x is executed; a swap may also fail because the price moved.
Execute(x) ==
    /\ x \in live
    /\ live' = live \ {x}
    /\ ran' = ran \cup {x}
    /\ \/ /\ Accepted(x)
          /\ done' = done \cup Effect(x)
          /\ swaps' = IF x.step.op = "swap" THEN [swaps EXCEPT ![x.call] = @ + 1] ELSE swaps
       \/ /\ ~Accepted(x) \/ x.step.op = "swap"
          /\ UNCHANGED <<done, swaps>>
    /\ UNCHANGED world

\* The blockhash of x expires before it is executed.
Drop(x) ==
    /\ x \in live
    /\ live' = live \ {x}
    /\ UNCHANGED <<world, ran, done, swaps>>

ChainStep == \E x \in live : Execute(x) \/ Drop(x)
=============================================================================
