----------------------------- MODULE ExitBoard ------------------------------
(***************************************************************************)
(* What the Universal Exit promises a user who waits for one call of run() *)
(* before making the next: a list of the wallet's positions in an order    *)
(* that is safe, worked off from the first row to the last.  Nothing is    *)
(* asked of the chain for a row before the rows above it are settled, and  *)
(* a row is only reported confirmed when the chain has executed something  *)
(* for it.                                                                 *)
(*                                                                         *)
(* Wallets, variants, signatures, retries and aborts are not visible here. *)
(***************************************************************************)
EXTENDS ExitOrder

VARIABLES
    list,       \* the positions shown, in order
    report,     \* what is said of each: "open", "confirmed" or "error"
    asked,      \* positions a transaction was sent for, ever
    executed    \* positions a transaction of which is on chain

boardVars == <<list, report, asked, executed>>

Reports == {"open", "confirmed", "error"}

Init == list = <<>> /\ report = <<>> /\ asked = {} /\ executed = {}

IsTop(k) ==
    /\ k \in DOMAIN list /\ report[k] = "open"
    /\ \A j \in DOMAIN list : report[j] = "open" => k <= j

\* A new call takes the list away, and shows another one.
Clear ==
    /\ list' = <<>> /\ report' = <<>>
    /\ UNCHANGED <<asked, executed>>
Show ==
    /\ list = <<>>
    /\ \E S \in SUBSET Task : list' \in Plans(S)
    /\ report' = [k \in DOMAIN list' |-> "open"]
    /\ UNCHANGED <<asked, executed>>

\* Something is sent for the top row.
Ask ==
    /\ \E k \in DOMAIN list : IsTop(k) /\ asked' \in {asked, asked \cup {list[k]}}
    /\ UNCHANGED <<list, report, executed>>

\* The rows from the top one to row n are settled; only the top one can have
\* been executed, those after it were refused before.  (The answer to what was
\* sent for it may get lost while it is settled.)
Settle ==
    /\ \E k \in DOMAIN list : \E n \in k..Len(list) :
          /\ IsTop(k)
          /\ asked' \in {asked, asked \cup {list[k]}}
          /\ \A j \in DOMAIN list :
                report'[j] = IF j \notin k..n THEN report[j]
                             ELSE IF j = k /\ report'[k] = "confirmed" THEN "confirmed" ELSE "error"
          /\ report'[k] = "confirmed" => list[k] \in executed
    /\ DOMAIN report' = DOMAIN list
    /\ UNCHANGED <<list, executed>>

\* The chain executes what it was asked for, if at all, whenever it likes.
Execute ==
    /\ \E t \in asked : executed' = executed \cup {t}
    /\ UNCHANGED <<list, report, asked>>

Next == Clear \/ Show \/ Ask \/ Settle \/ Execute
Spec == Init /\ [][Next]_boardVars
=============================================================================
