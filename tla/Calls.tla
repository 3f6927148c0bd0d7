------------------------------- MODULE Calls --------------------------------
(***************************************************************************)
(* How a studio command runs.  Each invocation is a process of its own: it *)
(* reads the chain, sends or simulates transactions and waits for them, in *)
(* the order of its code, keeps nothing, and may fail at any await or be   *)
(* killed there while its transactions are still on their way.             *)
(*                                                                         *)
(* The commands themselves are in DammV2Positions, VaultRollout,           *)
(* PoolSeeding and ClaimJobs.  `todo` is what a command sends before it    *)
(* continues at `at`: a sequence of sets of transactions, because a        *)
(* Promise.all sends several at once.                                      *)
(***************************************************************************)
EXTENDS Programs, Sequences

VARIABLES
    job,        \* what each call was started with: its command, dryRun, its config
    at,         \* where it continues once its transactions are through
    todo,       \* the transactions it sends before that
    stage,      \* "ready" or "sent": the state of the first set of todo
    round,      \* the index of the loop it is in
    rescue,     \* where it continues when a send or a wait fails, by how it fails
    seen        \* what its reads have shown it, and what it keeps in its variables

processVars == <<at, todo, stage, round, rescue, seen>>

\* All its transactions are through and it is at this place.
At(k, point) == at[k] = point /\ todo[k] = <<>>
Over(k) == At(k, "returned") \/ At(k, "stopped")
Running(k) == at[k] # "idle" /\ ~Over(k)

\* What is awaited fails at the send, while it waits, by an execution without
\* success, or because the blockhash expired.
Failures == {"send", "wait", "failed", "expired"}
CaughtAs(point) == [f \in Failures |-> point]
\* No try around it: the command ends.
Uncaught == CaughtAs("stopped")

\* Continue: send these sets one after the other, then go on at `point`.
Try(k, batches, point, catch) ==
    /\ at' = [at EXCEPT ![k] = point]
    /\ todo' = [todo EXCEPT ![k] = batches]
    /\ rescue' = [rescue EXCEPT ![k] = catch]
    /\ UNCHANGED <<stage, pending, fate, job>>
Send(k, batches, point) == Try(k, batches, point, Uncaught) /\ UNCHANGED <<facts, round>>
Goto(k, point) == Send(k, <<>>, point)
Return(k) == Goto(k, "returned")

Keep(k, news) == seen' = [seen EXCEPT ![k] = @ \cup news]
\* A read of everything in `about`: what is not there any more is forgotten.
Read(k, about) == seen' = [seen EXCEPT ![k] = (@ \ about) \cup (about \cap facts)]
Nothing == UNCHANGED seen

-----------------------------------------------------------------------------
(* sendAndConfirmTransaction of @solana/web3.js and runSimulateTransaction *)

Batch(k) == todo[k][1]
Prepared(k) == todo[k] # <<>> /\ stage[k] = "ready"
Waiting(k) == todo[k] # <<>> /\ stage[k] = "sent"
Pretends(k) == job[k].dry /\ \A x \in Batch(k) : ~x.real
Passes(x) == x.blind \/ Fits(x)
Awaited(x) == Waiting(x.by) /\ x \in Batch(x.by)

Forget(k) == fate' = {z \in fate : z[1].by # k}
Next1(k) ==
    /\ todo' = [todo EXCEPT ![k] = Tail(@)]
    /\ stage' = [stage EXCEPT ![k] = "ready"]
    /\ UNCHANGED <<at, round, rescue, seen, job>>
Throw(k, failure) ==
    /\ at' = [at EXCEPT ![k] = rescue[k][failure]]
    /\ todo' = [todo EXCEPT ![k] = <<>>]
    /\ stage' = [stage EXCEPT ![k] = "ready"]
    /\ rescue' = [rescue EXCEPT ![k] = Uncaught]
    /\ UNCHANGED <<round, seen, job>>

\* dryRun: simulated, and thrown when the simulation fails.
Simulate(k) ==
    /\ Prepared(k) /\ Pretends(k)
    /\ IF \A x \in Batch(k) : Fits(x) THEN Next1(k) ELSE Throw(k, "send")
    /\ UNCHANGED programVars

Submit(k) ==
    /\ Prepared(k) /\ ~Pretends(k)
    /\ \A x \in Batch(k) : Passes(x)
    /\ pending' = pending \cup Batch(k)
    /\ stage' = [stage EXCEPT ![k] = "sent"]
    /\ UNCHANGED <<at, todo, round, rescue, seen, job, facts, fate>>

\* A preflight fails: the rest of a Promise.all is sent all the same.
Refused(k) ==
    /\ Prepared(k) /\ ~Pretends(k)
    /\ \E x \in Batch(k) : ~Passes(x)
    /\ pending' = pending \cup {x \in Batch(k) : Passes(x)}
    /\ UNCHANGED <<facts, fate>>
    /\ Throw(k, "send")

Slip_OneOfAllConfirmed(k) ==
    /\ Waiting(k)
    /\ \E x \in Batch(k) : <<x, "ok">> \in fate
    /\ Next1(k) /\ Forget(k) /\ UNCHANGED <<facts, pending>>
Confirmed(k) ==
    /\ Waiting(k)
    /\ \A x \in Batch(k) : <<x, "ok">> \in fate
    /\ Next1(k) /\ Forget(k) /\ UNCHANGED <<facts, pending>>

\* One was executed without success, or expired: sendAndConfirm throws.
Slip_ExpiryUnheard(k) ==
    /\ Waiting(k)
    /\ \E x \in Batch(k) : <<x, "failed">> \in fate
    /\ Throw(k, "failed") /\ Forget(k) /\ UNCHANGED <<facts, pending>>
NotConfirmed(k) ==
    /\ Waiting(k)
    /\ \E x \in Batch(k), how \in {"failed", "expired"} : <<x, how>> \in fate /\ Throw(k, how)
    /\ Forget(k) /\ UNCHANGED <<facts, pending>>

\* Any other await of these that fails (a blockhash, a lost connection): what
\* was sent may still land, and so may what a node took without answering.
Fault(k) ==
    /\ todo[k] # <<>>
    /\ \/ UNCHANGED pending
       \/ Prepared(k) /\ ~Pretends(k) /\ pending' = pending \cup {x \in Batch(k) : Passes(x)}
    /\ Throw(k, IF Prepared(k) THEN "send" ELSE "wait") /\ Forget(k) /\ UNCHANGED facts

\* A read that fails, or the end of the process.
Stop(k) ==
    /\ Running(k)
    /\ at' = [at EXCEPT ![k] = "stopped"]
    /\ todo' = [todo EXCEPT ![k] = <<>>]
    /\ stage' = [stage EXCEPT ![k] = "ready"]
    /\ rescue' = [rescue EXCEPT ![k] = Uncaught]
    /\ Forget(k) /\ UNCHANGED <<round, seen, job, facts, pending>>

Delivery(k) == Simulate(k) \/ Submit(k) \/ Refused(k) \/ Confirmed(k) \/ NotConfirmed(k)
Cluster ==
    /\ \E x \in pending : Execute(x, Awaited(x)) \/ Expire(x, Awaited(x))
    /\ UNCHANGED <<processVars, job>>
World == (Trade \/ Mature) /\ UNCHANGED <<processVars, job>>
=============================================================================
