------------------------------- MODULE Chain --------------------------------
(***************************************************************************)
(* The Solana cluster as every sender in this repository sees it: a        *)
(* submitted transaction lands, lands with an error, or expires with its   *)
(* blockhash; the sender's answer may be lost either way.  External: the   *)
(* code only calls sendRawTransaction and confirmTransaction.              *)
(***************************************************************************)
VARIABLES
    sent,       \* transactions a node has taken (history)
    live,       \* sent and still able to land
    landed,     \* executed with success
    reverted    \* executed with an error: only the fee is spent

chainVars == <<sent, live, landed, reverted>>

ChainInit == sent = {} /\ live = {} /\ landed = {} /\ reverted = {}

OnChain == landed \cup reverted

\* A node takes x.  Submitting the same bytes again changes nothing.
Submit(x) ==
    /\ sent' = sent \cup {x}
    /\ live' = IF x \in sent THEN live ELSE live \cup {x}
    /\ UNCHANGED <<landed, reverted>>

\* The call rejects, before or after the node took x.
SubmitUnanswered(x) == Submit(x) \/ UNCHANGED chainVars

Land(x) ==
    /\ x \in live
    /\ landed' = landed \cup {x}
    /\ live' = live \ {x}
    /\ UNCHANGED <<sent, reverted>>

Revert(x) ==
    /\ x \in live
    /\ reverted' = reverted \cup {x}
    /\ live' = live \ {x}
    /\ UNCHANGED <<sent, landed>>

Expire(x) ==
    /\ x \in live
    /\ live' = live \ {x}
    /\ UNCHANGED <<sent, landed, reverted>>
=============================================================================
