------------------------------ MODULE Programs -------------------------------
(***************************************************************************)
(* The programs the studio's pool, vault and claim commands talk to (DAMM, *)
(* DLMM, Alpha Vault, SPL token) and the cluster that executes their       *)
(* transactions, as the commands depend on them.  External: no line of it  *)
(* is in this repository.                                                  *)
(*                                                                         *)
(* What is on chain, in the proof folder and in the proof store is a set   *)
(* of facts, flat tuples <<kind, about, ...>>.                             *)
(* A transaction needs some facts, excludes others, makes and drops some:  *)
(* a program accepts it exactly when the needed ones hold and no excluded  *)
(* one does, at the preflight of a send and again when it is executed.     *)
(***************************************************************************)
EXTENDS Naturals, FiniteSets

CONSTANT Call           \* invocations of the command line

VARIABLES
    facts,      \* what is there outside the processes
    pending,    \* transactions a node holds and that may still be executed
    fate        \* <<transaction, outcome>> not yet heard by the call that awaits it

programVars == <<facts, pending, fate>>

Outcome == {"ok", "failed", "expired"}

\* A transaction of call k.  blind: sent without preflight; real: sent for
\* good whatever dryRun says; att: which blockhash it is built on.
Bare(k, op) ==
    [by |-> k, op |-> op, att |-> 1, blind |-> FALSE, real |-> FALSE,
     needs |-> {}, without |-> {}, makes |-> {}, drops |-> {}, takes |-> <<0, 0>>]

\* The account-creating instructions: refused when the account exists.
Creates(k, op, needs, new) ==
    [Bare(k, op) EXCEPT !.needs = needs, !.without = new, !.makes = new]

\* takes: so many of the LP tokens of a pool, whichever they are.
Tokens(x) == {f \in facts : f[1] = "lp" /\ f[2] = x.takes[1]}
Fits(x) ==
    /\ x.needs \subseteq facts /\ x.without \cap facts = {}
    /\ \E s \in SUBSET Tokens(x) : Cardinality(s) = x.takes[2]
Taken(x) == CHOOSE s \in SUBSET Tokens(x) : Cardinality(s) = x.takes[2]

\* A split moves the unlocked liquidity the first position has by then.
Moved(x) ==
    {z \in facts \X x.makes :
        z[2][1] = "split" /\ z[1][1] = "free" /\ z[1][2] = z[2][2]}
Gone(x) == x.drops \cup Taken(x) \cup {z[1] : z \in Moved(x)}
New(x)  == x.makes \cup {<<"free", z[2][3], z[1][3]>> : z \in Moved(x)}

\* An execution at the current price leaves a trace of that price.
Trades == {"addLiquidity", "removeLiquidity"}
Trace(x) == IF x.op \in Trades THEN {<<"traded", x.by, f[2]>> : f \in {g \in facts : g[1] = "price"}}
            ELSE {}

Executes(x) ==
    IF Fits(x)
    THEN facts' = (facts \ Gone(x)) \cup New(x) \cup Trace(x)
    ELSE UNCHANGED facts
Ends(x, outcome, heard) ==
    /\ pending' = pending \ {x}
    /\ fate' = IF heard THEN fate \cup {<<x, outcome>>} ELSE fate

\* x is executed; its sender learns how, if it still listens.
Execute(x, heard) == Executes(x) /\ Ends(x, IF Fits(x) THEN "ok" ELSE "failed", heard)

\* The blockhash of x expires first.
Expire(x, heard) == UNCHANGED facts /\ Ends(x, "expired", heard)

-----------------------------------------------------------------------------
(* The rest of the world.                                                  *)

Liquid == {f \in facts : f[1] \in {"free", "vested", "locked"}}

\* A trader moves the price, and every position with liquidity earns a fee.
Trade ==
    \E p \in {f \in facts : f[1] = "price"} :
       /\ facts' = (facts \ {p}) \cup {<<"price", 3 - p[2]>>} \cup {<<"fee", f[2]>> : f \in Liquid}
       /\ UNCHANGED <<pending, fate>>

\* The vesting schedules of the pool end.
Mature ==
    /\ \E f \in facts : f[1] = "vested"
    /\ <<"matured", 0>> \notin facts
    /\ facts' = facts \cup {<<"matured", 0>>}
    /\ UNCHANGED <<pending, fate>>
=============================================================================
