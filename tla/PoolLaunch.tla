----------------------------- MODULE PoolLaunch -----------------------------
(***************************************************************************)
(* Launching a token: the form of create-pool.tsx with /api/upload,        *)
(* /api/build-swap and /api/send-transaction; the bundle of                *)
(* useAtomicLaunchClientBundle with /api/dbc/send-bundle; the bundle that  *)
(* studio/lib/jito/submit-bundle.ts signs itself; and the launch kind of   *)
(* /api/exit/build.                                                        *)
(*                                                                         *)
(* Every submit generates a mint of its own, so that k stands for the mint *)
(* as well: its files are <<"image", k>> and <<"metadata", k>>, its pool   *)
(* <<"curve", k>>, the first buy <<"bought", k>>.                          *)
(***************************************************************************)
EXTENDS SitePages

Told(k, what) == <<"told", what>> \in seen[k]
Heard(k) == Told(k, "ok") \/ Told(k, "error")
Accepted(k, i) == <<"accepted", k, i>>
InFlight == {"uploadImage", "uploadMetadata", "buildCreate", "buildSwap", "nodes", "landed"}

\* The page is told how it ended, unless it has given up on the request.
Tell(k, what) ==
    /\ Keep(k, IF Heard(k) THEN {} ELSE {<<"told", what>>})
    /\ page' = IF Heard(k) THEN page ELSE [page EXCEPT !.busy = FALSE]
    /\ Return(k) /\ UNCHANGED built

\* The connection to the site breaks or times out while the server goes on.
GivesUp(k) ==
    /\ at[k] \in InFlight /\ ~Heard(k)
    /\ Keep(k, {<<"told", "error">>})
    /\ page' = [page EXCEPT !.busy = FALSE]
    /\ UNCHANGED <<built, programVars, job, at, todo, stage, round, rescue>>

-----------------------------------------------------------------------------
(* The form.                                                               *)

\* The button is disabled while a launch is shown as loading.
OpenLaunch(k) ==
    /\ At(k, "launch") /\ ~page.busy /\ Nothing
    /\ page' = [page EXCEPT !.busy = TRUE]
    /\ Goto(k, "uploadImage") /\ UNCHANGED built

\* Anything that throws: a missing logo or wallet, a failed upload, missing fee
\* receivers, a refusal of the wallet or of a node.  A client that has given up
\* sends nothing more itself.
Fails(k) ==
    /\ at[k] \in InFlight \cup {"signCreate", "signSwap"}
    /\ At(k, at[k]) /\ Tell(k, "error")

\* /api/upload: the files first,
UploadFile(k, file, from, to) ==
    /\ At(k, from) /\ Nothing
    /\ facts' = facts \cup {<<file, k>>}
    /\ Try(k, <<>>, to, Uncaught) /\ UNCHANGED <<round, page, built>>
UploadImage(k) == UploadFile(k, "image", "uploadImage", "uploadMetadata")

UploadMetadata(k) == UploadFile(k, "metadata", "uploadMetadata", "buildCreate")

\* then the transaction: creation fee, memo, price, and the pool.
CreateTx(k) ==
    [Creates(k, "createPool", {}, {<<"curve", k>>}) EXCEPT !.att = 1, !.makes = @ \cup {<<"creationFee", k>>}]
BuildCreate(k) ==
    /\ At(k, "buildCreate") /\ Nothing
    /\ built' = [built EXCEPT ![k] = <<CreateTx(k)>>]
    /\ Goto(k, IF Heard(k) THEN "returned" ELSE "signCreate") /\ UNCHANGED page

\* The mint and then the wallet sign; the swap is built when a first buy is
\* wanted: a transfer of nothing with a tip, on the blockhash of the create.
SignCreate(k) ==
    /\ At(k, "signCreate")
    /\ GotoRow(k, IF job[k].buy THEN "buildSwap" ELSE "nodes", 1) /\ UNCHANGED pageVars
SwapTx(k) == [Bare(k, "swapPlaceholder") EXCEPT !.att = 2, !.makes = {<<"tip", k>>}]
BuildSwap(k) ==
    /\ At(k, "buildSwap") /\ Nothing
    /\ built' = [built EXCEPT ![k] = Append(@, SwapTx(k))]
    /\ Goto(k, IF Heard(k) THEN "returned" ELSE "signSwap") /\ UNCHANGED page
SignSwap(k) == At(k, "signSwap") /\ Goto(k, "nodes") /\ Nothing /\ UNCHANGED pageVars

\* /api/send-transaction: one after the other, without waiting in between.
SendNext(k) ==
    /\ At(k, "nodes") /\ round[k] \in DOMAIN built[k]
    /\ LET x == built[k][round[k]] IN
         /\ Passes(x)
         /\ pending' = pending \cup {x}
         /\ facts' = facts \cup {Accepted(k, round[k])}
    /\ round' = [round EXCEPT ![k] = @ + 1]
    /\ UNCHANGED <<fate, job, at, todo, stage, rescue, seen, page, built>>
\* A node takes a transaction and does not answer.
NodeSilent(k) ==
    /\ At(k, "nodes") /\ round[k] \in DOMAIN built[k] /\ Passes(built[k][round[k]])
    /\ pending' = pending \cup {built[k][round[k]]}
    /\ Keep(k, IF Heard(k) THEN {} ELSE {<<"told", "error">>})
    /\ page' = IF Heard(k) THEN page ELSE [page EXCEPT !.busy = FALSE]
    /\ at' = [at EXCEPT ![k] = "returned"]
    /\ UNCHANGED <<facts, fate, job, todo, stage, round, rescue, built>>

\* The last one is confirmed for all of them when the page asked to wait: it was
\* executed, or expires by a blockhash that is read only then.
AllSent(k) ==
    /\ At(k, "nodes") /\ round[k] \notin DOMAIN built[k]
    /\ IF job[k].buy THEN Goto(k, "landed") /\ Nothing /\ UNCHANGED pageVars
       ELSE Tell(k, "ok")
Landed(k) ==
    /\ At(k, "landed") /\ <<"tip", k>> \in facts
    /\ Tell(k, "ok")

-----------------------------------------------------------------------------
(* The bundles: executed as a whole or not at all.                         *)

BundleTx(k) == Creates(k, "bundle", {}, {<<"curve", k>>, <<"bought", k>>})

\* dbc.pool.swap reads the pool, which is not there yet; the answer of
\* /api/build-swap, the way out of the hook, has no `ok`.  job.reads: whether
\* the SDK reads the pool at all.
BuildBundle(k) ==
    /\ At(k, "bundle") \/ At(k, "submitBundle")
    /\ IF job[k].reads /\ <<"curve", k>> \notin facts
       THEN Keep(k, {<<"told", "error">>}) /\ Return(k)
       ELSE Nothing /\ Goto(k, "relay")
    /\ UNCHANGED pageVars

\* The relay takes the bundle or refuses it, or its answer is lost.
Relay(k) ==
    /\ At(k, "relay")
    /\ pending' \in {pending, pending \cup {BundleTx(k)}}
    /\ \E what \in {"ok", "error"} :
          /\ what = "ok" => BundleTx(k) \in pending'
          /\ Keep(k, {<<"told", what>>})
    /\ at' = [at EXCEPT ![k] = "returned"]
    /\ UNCHANGED <<facts, fate, job, todo, stage, round, rescue, page, built>>

\* exit/build, kind launch: create and buy in one transaction, which its caller
\* signs with the mint and sends.
BuildLaunch(k) ==
    /\ At(k, "buildLaunch") /\ Nothing /\ UNCHANGED pageVars
    /\ \/ Goto(k, "stopped")
       \/ ~job[k].reads /\ Send(k, <<{BundleTx(k)}>>, "returned")

LaunchStep(k) ==
    \/ OpenLaunch(k) \/ Fails(k) \/ UploadImage(k) \/ UploadMetadata(k) \/ BuildCreate(k)
    \/ SignCreate(k) \/ BuildSwap(k) \/ SignSwap(k) \/ SendNext(k) \/ NodeSilent(k) \/ AllSent(k) \/ Landed(k)
    \/ BuildBundle(k) \/ Relay(k) \/ BuildLaunch(k)

-----------------------------------------------------------------------------
\* "Pool Created Successfully!" is shown only when a node has accepted every
\* transaction of the launch, and no tip is paid for a create no node accepted.
\* Accepted is all the form knows: the pool may never come to be, although the
\* page calls it live (create-pool.tsx:662-665).
ToldMeansAccepted ==
    \A k \in Call : job[k].cmd = "launch" =>
       /\ Told(k, "ok") => \A i \in DOMAIN built[k] : Accepted(k, i) \in facts
       /\ <<"tip", k>> \in facts => Accepted(k, 1) \in facts

\* A pool launched with the form never points at an image or metadata that was
\* not stored before, however a launch was interrupted or repeated.
PoolHasFiles ==
    \A k \in Call : job[k].cmd = "launch" /\ <<"curve", k>> \in facts =>
       {<<"image", k>>, <<"metadata", k>>} \subseteq facts
=============================================================================
