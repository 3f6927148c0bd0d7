---------------------------- MODULE BatchClaims -----------------------------
(***************************************************************************)
(* useDbcAutoBatchExit: discover the wallet's DBC positions                *)
(* (/api/dbc-discover), build one claim for each (/api/dbc-exit), sign     *)
(* them, and send them one after the other.                                *)
(*                                                                         *)
(* A position of the wallet in the pool of mint m is <<"holds", m>>; the   *)
(* pool is <<"curve", m>>; what it owes in fees is <<"due", m>>.           *)
(***************************************************************************)
EXTENDS SitePages, SequencesExt

CONSTANT Mint

ASSUME MintAssumption == IsFiniteSet(Mint)

\* /api/dbc-exit with action "claim".  The fee vault read from the pool is the
\* right one; when the pool could not be decoded the pool itself stands for it,
\* and no program accepts that.
ClaimFee(k, i, m, decoded) ==
    [Bare(k, "claimFee") EXCEPT
        !.att = i, !.needs = {<<"curve", m>>} \cup (IF decoded THEN {} ELSE {<<"vaultIs", m, "pool">>}),
        !.drops = {<<"due", m>>}, !.makes = {Done(k, i)}]

\* run() does nothing while `running` is shown.
OpenBatch(k) ==
    /\ At(k, "batch") /\ Nothing /\ UNCHANGED built
    /\ IF page.busy THEN Return(k) /\ UNCHANGED page
       ELSE /\ page' = [page EXCEPT !.busy = TRUE, !.newest = k, !.rows = <<>>]
            /\ Goto(k, "discover")

\* scanDbcPositionsUltraSafe: the token accounts whose pool account exists; one
\* that cannot be read is passed over, one that cannot be decoded is kept.
Discover(k) ==
    /\ At(k, "discover") /\ ~Aborted(k)
    /\ \E found \in SUBSET {m \in Mint : {<<"holds", m>>, <<"curve", m>>} \subseteq facts} :
       \E decoded \in SUBSET found :
          /\ Keep(k, {<<"pool", m, m \in decoded>> : m \in found})
          /\ IF found = {} THEN Rest(k) ELSE Goto(k, "build") /\ UNCHANGED pageVars

\* All of them are built or none: /api/dbc-exit reads the fee vault and builds
\* the claim with the studio's runtime, or by hand.
BuildBatch(k) ==
    /\ At(k, "build") /\ ~Aborted(k) /\ Nothing
    /\ job[k].field            \* the answer names the transaction `tx`
    /\ LET list == SetToSeq({f \in seen[k] : f[1] = "pool"})
       IN /\ built' = [built EXCEPT ![k] = [i \in DOMAIN list |-> ClaimFee(k, i, list[i][2], list[i][3])]]
          /\ page' = [page EXCEPT !.rows = [i \in DOMAIN list |-> Row(k, <<"curve", list[i][2]>>, "pending")]]
    /\ Goto(k, "signing")

\* signTransactionsAdaptive: the wallet may refuse some of them.  (The check of
\* the signers before it finds nothing: an unsigned slot has 64 bytes.)
SignBatch(k) ==
    /\ At(k, "signing") /\ job[k].cmd = "batch"
    /\ \E refused \in SUBSET (DOMAIN built[k]) :
          Keep(k, {<<"unsigned", i>> : i \in refused})
    /\ Try(k, <<>>, "rows", Uncaught)
    /\ round' = [round EXCEPT ![k] = 1]
    /\ UNCHANGED <<facts, page, built>>

\* A request fails or is aborted, one pool cannot be built, an answer lacks its
\* field, the wallet throws: the run ends, and `finally` clears `running`.
Preparing(k) == At(k, "discover") \/ At(k, "build") \/ (At(k, "signing") /\ job[k].cmd = "batch")
Slip_NoFinally(k) ==
    /\ Preparing(k)
    /\ Return(k) /\ Nothing /\ UNCHANGED pageVars
BatchFails(k) ==
    /\ Preparing(k)
    /\ Rest(k) /\ Nothing

BatchStep(k) ==
    OpenBatch(k) \/ Discover(k) \/ BuildBatch(k) \/ SignBatch(k) \/ BatchFails(k)
=============================================================================
