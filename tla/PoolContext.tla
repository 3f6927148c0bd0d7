---------------------------- MODULE PoolContext -----------------------------
(***************************************************************************)
(* The three hooks of the site that look for the pools of the connected    *)
(* wallet: "context" (DbcPoolContext), "discovery" (useDbcPoolDiscovery)   *)
(* and "derived" (useDerivedDammV2Pools).  Each scans in an effect of the  *)
(* page, while the wallet may change, and shows what a scan ends with.     *)
(*                                                                         *)
(* Pools are told apart by the wallet they were found for only; "demo" is  *)
(* DBC_POOLS.                                                              *)
(***************************************************************************)
EXTENDS Naturals

CONSTANTS
    Wallet,
    Scans,      \* bound: scans under way at a time
    Clicks      \* bound: what the user does to the wallet and to the page

ASSUME ScansAssumption ==
    /\ Scans \in Nat \ {0} /\ Clicks \in Nat
    /\ Wallet \cap {"none", "demo", "ALL"} = {}

VARIABLE ctx

\* shown: whose pools; error, loading: as on the page; scans: those under way,
\* with the selection and whether pools were shown when they were started, and
\* whether their effect is still in force; due: the effect has to run.
Fresh(hook) ==
    [hook |-> hook, wallet |-> "none", shown |-> "none", selected |-> "none",
     loading |-> FALSE, error |-> FALSE, scans |-> {}, due |-> FALSE, clicks |-> 0]

Scanning == ctx.hook \in {"context", "discovery", "derived"}
Shows == Wallet \cup {"none", "demo"}
Context == ctx.hook = "context"

\* The effect of the context runs again when publicKey, selectedId or
\* dynamicPools are others than before; those of the two hooks by the wallet.
\* found: an array that was made by this scan.
Rendered(new, found) ==
    [new EXCEPT !.due = \/ @ \/ new.wallet # ctx.wallet
                        \/ Context /\ (found \/ new.shown # ctx.shown \/ new.selected # ctx.selected)]

\* The user connects another wallet, or none.
ChangeWallet(w) ==
    /\ Scanning /\ ctx.clicks < Clicks /\ w # ctx.wallet
    /\ ctx' = Rendered([ctx EXCEPT !.wallet = w, !.clicks = @ + 1], FALSE)

Select(s) ==
    /\ Context /\ ctx.clicks < Clicks /\ s \in {"ALL", IF ctx.shown = "none" THEN "demo" ELSE ctx.shown}
    /\ ctx' = Rendered([ctx EXCEPT !.selected = s, !.clicks = @ + 1], FALSE)

FreeSlots == {n \in 1..Scans : \A s \in ctx.scans : s.n # n}
Cancelled == IF ctx.hook = "derived" THEN {[s EXCEPT !.live = FALSE] : s \in ctx.scans} ELSE ctx.scans

Refresh ==
    IF ctx.wallet = "none"
    THEN ctx' = Rendered([ctx EXCEPT !.shown = "none", !.selected = IF Context THEN "none" ELSE @,
                                     !.scans = Cancelled, !.due = FALSE], FALSE)
    ELSE \E n \in FreeSlots :
            /\ \A other \in FreeSlots : n <= other
            /\ ctx' = [ctx EXCEPT !.loading = TRUE, !.error = FALSE, !.due = FALSE,
                         !.scans = Cancelled \cup {[n |-> n, of |-> ctx.wallet, live |-> TRUE,
                                                    selected |-> ctx.selected, had |-> ctx.shown # "none"]}]
Effect == ctx.due /\ Refresh

\* refresh of the context is also in the hands of its consumers.
RefreshClicked ==
    /\ Context /\ ~ctx.due /\ ctx.clicks < Clicks /\ ctx.wallet # "none"
    /\ \E n \in FreeSlots :
          ctx' = [ctx EXCEPT !.loading = TRUE, !.error = FALSE, !.clicks = @ + 1,
                    !.scans = @ \cup {[n |-> n, of |-> ctx.wallet, live |-> TRUE,
                                       selected |-> ctx.selected, had |-> ctx.shown # "none"]}]

Ended(s) == [ctx EXCEPT !.scans = @ \ {s}, !.loading = FALSE]

\* The context: the pools of the scan's wallet, or the demo pools when it has
\* none; the selection of the render the scan came from is replaced when it is
\* not among them.
Selection(s, pools) == IF s.selected \in {"ALL", pools} THEN {ctx.selected} ELSE {"ALL", pools}
Slip_KeepsSelection(s) ==
    \E pools \in {s.of, "demo"} : ctx' = Rendered([Ended(s) EXCEPT !.shown = pools], pools = s.of)
ContextFinds(s) ==
    \E pools \in {s.of, "demo"} : \E sel \in Selection(s, pools) :
       ctx' = Rendered([Ended(s) EXCEPT !.shown = pools, !.selected = sel], pools = s.of)
ContextFails(s) ==
    LET demo == [Ended(s) EXCEPT !.error = TRUE, !.shown = "demo",
                                 !.selected = IF s.selected = "none" THEN "demo" ELSE @]
    IN ctx' = Rendered(IF s.had THEN [Ended(s) EXCEPT !.error = TRUE] ELSE demo, FALSE)

\* The two hooks show a list of the scan's wallet, an empty one included; a scan
\* whose effect was cleaned up sets nothing any more.
Slip_ShowsAll(s) ==
    \/ ctx' = [Ended(s) EXCEPT !.shown = s.of]
    \/ ctx' = [Ended(s) EXCEPT !.error = TRUE]
HookEnds(s) ==
    IF s.live
    THEN \/ ctx' = [Ended(s) EXCEPT !.shown = s.of]
         \/ ctx' = [Ended(s) EXCEPT !.error = TRUE]
    ELSE ctx' = [ctx EXCEPT !.scans = @ \ {s}]

ScanEnds(w) ==
    \E s \in ctx.scans :
       /\ s.of = w
       /\ IF Context THEN ContextFinds(s) \/ ContextFails(s) ELSE HookEnds(s)

ContextStep ==
    \/ \E w \in Wallet \cup {"none"} : ChangeWallet(w)
    \/ \E s \in Shows \cup {"ALL"} : Select(s)
    \/ RefreshClicked \/ Effect
    \/ \E w \in Wallet : ScanEnds(w)

-----------------------------------------------------------------------------
\* The page shows nothing but the connected wallet's pools, the demo pools, or
\* an error.
Right ==
    \/ ctx.error
    \/ ctx.shown = ctx.wallet
    \/ ctx.shown = "demo" /\ ctx.wallet # "none"

\* The user stops changing wallets in the end; from then on the page does not
\* stay with another wallet's pools for ever, even if a scan of the wallet before
\* answers last.  (The context gets there by scanning again and again, the
\* derived pools by dropping the answer.  The discovery does neither.)
RightInTheEnd == ctx.hook # "discovery" => []<>Right

\* "Loading" is taken back by the last scan at the latest.  (Not by the derived
\* pools: disconnected during a scan, they load for ever.)
LoadingMeansScan == ctx.loading /\ ctx.hook # "derived" => ctx.scans # {}

\* Once nothing is scanned any more and no error is shown, the context shows the
\* demo pools, or none when no wallet is connected, and a selection that is among
\* what it shows: whatever was selected, connected or answered meanwhile.
QuietMeansSettled ==
    Context /\ ctx.scans = {} /\ ~ctx.due /\ ~ctx.error =>
       IF ctx.wallet = "none" THEN ctx.shown = "none" /\ ctx.selected = "none"
       ELSE ctx.shown = "demo" /\ ctx.selected \in {"ALL", "demo"}
=============================================================================
